------------------------ MODULE SemanticMemoryProofs ------------------------
(***************************************************************************)
(* What SemanticMemory promises, for any number of turns, memories and     *)
(* faults.  The invariant has two halves.  What a transaction sees of the  *)
(* table is whole: links name each other, and nothing is remembered twice. *)
(* What a turn is told agrees with the table of keys: an attempt that has  *)
(* found its target gone has changed nothing, and since a memory that is   *)
(* gone does not come back, neither will the other attempt.                *)
(***************************************************************************)
EXTENDS MemoryService, SequenceTheorems, WellFoundedInduction, TLAPS

Rows ==
  [state : {"ACTIVE", "SUPERSEDED", "DELETED"}, content : Contents \cup {None},
   owner : Owners \cup {None}, supersedes : Nat \cup {None}, by : Nat \cup {None}]
News == [owner : Owners \cup {None}, content : Contents]
Operations == {"create", "supersede", "confirm", "delete"}
TurnStates ==
  [phase : {"idle", "searching", "pending", "calling", "told"},
   op : Operations \cup {None}, user : Owners \cup {None}, new : News \cup {None},
   candidates : SUBSET Nat, target : Nat \cup {None}, attempt : Attempts,
   told : Answers \cup {None}]
Steps ==
  {"none", "arrived", "looking", "embedding", "writing", "confirming", "nested"} \cup Answers
Refusals == {"not_found", "conflict"}

Typed ==
  /\ call \in [Turns -> [Attempts -> Steps]]
  /\ turn \in [Turns -> TurnStates]
  /\ \A t \in Turns : turn[t].candidates \subseteq Ids /\ turn[t].target \in Ids \cup {None}
  /\ results \in [Turns -> Contents \cup {None, "deleted"}]
  /\ effects \in [Turns -> Nat]
  /\ locked \in (Turns \X Attempts) \cup {None}
  /\ faults \in 0 .. MaxFaults

(* The table: an active memory has a content.                              *)
RowsTyped ==
  /\ memories \in Seq(Rows) /\ Len(memories) <= MaxMemories
  /\ \A m \in Ids :
       /\ memories[m].supersedes \in Ids \cup {None}
       /\ memories[m].by \in Ids \cup {None}
       /\ memories[m].state = "ACTIVE" => memories[m].content \in Contents
Table == RowsTyped /\ LinksBothWays /\ RememberedOnce

(* What a call needs to know of what its turn is about.                    *)
Meant(t) ==
  \/ turn[t].op = "create" /\ turn[t].new \in News
  \/ turn[t].op = "supersede" /\ turn[t].new \in News /\ turn[t].target \in Ids
  \/ turn[t].op \in {"confirm", "delete"} /\ turn[t].target \in Ids

(* No attempt can do it any more, and none has.                            *)
Gone(t) ==
  /\ memories[turn[t].target].state # "ACTIVE"
  /\ turn[t].op = "delete" => memories[turn[t].target].state = "DELETED"
Refused(t) ==
  /\ results[t] = None
  /\ turn[t].op \in {"confirm", "delete"}
  /\ turn[t].target \in Ids => Gone(t)

(* Where an attempt can be, and what it can answer.                        *)
Fits(t, step) ==
  /\ step # "none" => Meant(t) /\ turn[t].phase \in {"calling", "told"}
  /\ step = "looking" => turn[t].op = "supersede"
  /\ step \in {"confirming", "nested"} => turn[t].op = "create"
  /\ step \in {"embedding", "writing"} => turn[t].op \in {"create", "supersede"}
  /\ step = "ok" => results[t] # None
  /\ step \in Refusals /\ turn[t].op # "supersede" => Refused(t)

TurnOK(t) ==
  /\ turn[t].phase \in {"idle", "searching", "pending"} => results[t] = None
  /\ turn[t].phase # "told" => turn[t].told = None
  /\ turn[t].phase = "searching" => turn[t].target = None
  /\ turn[t].phase \in {"searching", "pending"} =>
       \/ turn[t].op = "delete"
       \/ turn[t].op = "supersede" /\ turn[t].new \in News
  /\ turn[t].phase = "calling" => Meant(t)
  /\ turn[t].told = "ok" => results[t] # None
  /\ turn[t].told \in Refusals /\ turn[t].op # "supersede" => Refused(t)
  /\ effects[t] = IF results[t] = None THEN 0 ELSE 1

IInv ==
  /\ Typed
  /\ Table
  /\ \A t \in Turns : TurnOK(t)
  /\ \A t \in Turns, a \in Attempts : Fits(t, call[t][a])

-----------------------------------------------------------------------------
(* The table, as each kind of transaction leaves it.                       *)

(* No id is lost, and no memory comes back.                                *)
Grows ==
  /\ Len(memories) <= Len(memories')
  /\ \A m \in Ids :
       /\ memories[m].state # "ACTIVE" => memories'[m].state # "ACTIVE"
       /\ memories[m].state = "DELETED" => memories'[m].state = "DELETED"

LEMMA Appended ==
  ASSUME RowsTyped, NEW row \in Rows
  PROVE  /\ Append(memories, row) \in Seq(Rows)
         /\ Len(Append(memories, row)) = Len(memories) + 1
         /\ DOMAIN Append(memories, row) = 1 .. Len(memories) + 1
         /\ \A m \in Ids : Append(memories, row)[m] = memories[m]
         /\ Append(memories, row)[Len(memories) + 1] = row
BY DEF RowsTyped, Ids

(* A memory is remembered that has no duplicate.                           *)
LEMMA InsertKeepsTable ==
  ASSUME Table, NEW new \in News, Len(memories) < MaxMemories,
         \A m \in Ids : ~(memories[m].state = "ACTIVE" /\ memories[m].owner = new.owner
                            /\ memories[m].content = new.content),
         memories' = Append(memories, Memory(new, None))
  PROVE  Table' /\ Grows
<1> DEFINE n == Len(memories) + 1
           row == Memory(new, None)
<1> USE SemanticMemoryAssumption
<1>1. row \in Rows /\ row.content \in Contents /\ row.state = "ACTIVE" /\ row.supersedes = None
        /\ row.by = None /\ row.content = new.content /\ row.owner = new.owner
  BY DEF Memory, Rows, News
<1>2. /\ memories' \in Seq(Rows) /\ Len(memories') = n
      /\ \A m \in Ids : memories'[m] = memories[m]
      /\ memories'[n] = row
  BY <1>1, Appended DEF Table
<1>3. Len(memories) \in Nat /\ Ids = 1 .. Len(memories) /\ Ids' = 1 .. n
  BY <1>2 DEF Table, RowsTyped, Ids
<1>4. RowsTyped'
  BY <1>1, <1>2, <1>3 DEF Table, RowsTyped
<1> HIDE DEF row
<1>5. LinksBothWays'
  BY <1>1, <1>2, <1>3 DEF Table, RowsTyped, LinksBothWays
<1>6. RememberedOnce'
  BY <1>1, <1>2, <1>3 DEF Table, RememberedOnce
<1>7. Grows
  BY <1>2, <1>3 DEF Grows
<1>8. QED
  BY <1>4, <1>5, <1>6, <1>7 DEF Table

(* An active memory is replaced.                                           *)
LEMMA SupersedeKeepsTable ==
  ASSUME Table, NEW new \in News, NEW old \in Ids, Len(memories) < MaxMemories,
         memories[old].state = "ACTIVE",
         memories' = [Append(memories, Memory(new, old))
                        EXCEPT ![old] = [@ EXCEPT !.state = "SUPERSEDED",
                                                  !.by = Len(memories) + 1]]
  PROVE  Table' /\ Grows
<1> DEFINE n == Len(memories) + 1
           row == Memory(new, old)
           longer == Append(memories, row)
           replaced == [memories[old] EXCEPT !.state = "SUPERSEDED", !.by = n]
<1> USE SemanticMemoryAssumption
<1>1. /\ memories \in Seq(Rows) /\ Len(memories) \in Nat /\ Ids = 1 .. Len(memories)
      /\ memories[old] \in Rows
  BY DEF Table, RowsTyped, Ids
<1>2. row \in Rows /\ row.content \in Contents /\ row.state = "ACTIVE" /\ row.supersedes = old
        /\ row.by = None /\ old # None
  BY <1>1 DEF Memory, Rows, News
<1>3. /\ replaced \in Rows /\ replaced.state = "SUPERSEDED" /\ replaced.by = n
      /\ replaced.supersedes = memories[old].supersedes
  <2>1. n \in Nat
    BY <1>1
  <2>2. \A r \in Rows : LET s == [r EXCEPT !.state = "SUPERSEDED", !.by = n]
                        IN  /\ s \in Rows /\ s.state = "SUPERSEDED" /\ s.by = n
                            /\ s.supersedes = r.supersedes
    BY <2>1 DEF Rows
  <2>3. QED
    BY <1>1, <2>2
<1>4. /\ longer \in Seq(Rows) /\ Len(longer) = n /\ DOMAIN longer = 1 .. n
      /\ \A m \in Ids : longer[m] = memories[m]
      /\ longer[n] = row
  BY <1>2, Appended DEF Table
<1>5. memories' = [longer EXCEPT ![old] = replaced]
  BY <1>4
<1> HIDE DEF row, longer, replaced
<1>6. /\ memories' \in Seq(Rows) /\ Len(memories') = n /\ Ids' = 1 .. n
      /\ \A m \in Ids : m # old => memories'[m] = memories[m]
      /\ memories'[old] = replaced
      /\ memories'[n] = row
  <2>1. old \in 1 .. Len(longer) /\ old # n /\ n \in 1 .. Len(longer)
    BY <1>1, <1>4
  <2>2. /\ memories' \in Seq(Rows) /\ Len(memories') = n
        /\ \A m \in 1 .. n : memories'[m] = IF m = old THEN replaced ELSE longer[m]
    <3>1. /\ [longer EXCEPT ![old] = replaced] \in Seq(Rows)
          /\ Len([longer EXCEPT ![old] = replaced]) = Len(longer)
          /\ \A m \in 1 .. Len(longer) :
               [longer EXCEPT ![old] = replaced][m] = IF m = old THEN replaced ELSE longer[m]
      BY <1>3, <1>4, <2>1, ExceptSeq
    <3>2. QED
      BY <1>4, <1>5, <3>1
  <2>3. QED
    BY <1>1, <1>4, <2>1, <2>2 DEF Ids
<1>7. RowsTyped'
  <2>1. ASSUME NEW m \in Ids'
        PROVE  /\ memories'[m].supersedes \in Ids' \cup {None}
               /\ memories'[m].by \in Ids' \cup {None}
               /\ memories'[m].state = "ACTIVE" => memories'[m].content \in Contents
    <3>1. CASE m = n
      BY <1>1, <1>2, <1>6, <3>1
    <3>2. CASE m = old
      BY <1>1, <1>3, <1>6, <3>2 DEF Table, RowsTyped
    <3>3. CASE m \in Ids \ {old}
      BY <1>1, <1>6, <3>3 DEF Table, RowsTyped
    <3>4. QED
      BY <1>1, <1>6, <3>1, <3>2, <3>3
  <2>2. QED
    BY <1>1, <1>6, <2>1 DEF RowsTyped
<1>8. LinksBothWays'
  <2>1. SUFFICES ASSUME NEW l \in Ids', NEW m \in Ids'
                 PROVE  /\ memories'[l].supersedes = m /\ memories'[m].state # "DELETED"
                           => memories'[m].state = "SUPERSEDED" /\ memories'[m].by = l
                        /\ memories'[l].state = "SUPERSEDED" /\ memories'[l].by = m
                           => memories'[m].state = "DELETED" \/ memories'[m].supersedes = l
    BY DEF LinksBothWays
  <2>2. \A i \in Ids : /\ memories[i].supersedes \in Ids \cup {None}
                       /\ memories[i].by \in Ids \cup {None}
                       /\ memories[i].supersedes # old
    BY <1>1 DEF Table, RowsTyped, LinksBothWays
  <2>3. CASE l = n
    BY <1>1, <1>2, <1>3, <1>6, <2>3
  <2>4. CASE l = old
    BY <1>1, <1>2, <1>3, <1>6, <2>2, <2>4 DEF Table, LinksBothWays
  <2>5. CASE l \in Ids \ {old} /\ m = n
    BY <1>1, <1>2, <1>3, <1>6, <2>2, <2>5
  <2>6. CASE l \in Ids \ {old} /\ m \in Ids
    BY <1>1, <1>2, <1>3, <1>6, <2>2, <2>6 DEF Table, LinksBothWays
  <2>7. QED
    BY <1>1, <1>6, <2>1, <2>3, <2>4, <2>5, <2>6
<1>9. RememberedOnce'
  <2>1. \A l \in Ids' : memories'[l].state = "ACTIVE" =>
          l = n \/ (l \in Ids /\ memories'[l] = memories[l])
    BY <1>1, <1>3, <1>6
  <2>2. memories'[n].supersedes # None
    BY <1>2, <1>6
  <2>3. QED
    BY <2>1, <2>2 DEF Table, RememberedOnce
<1>10. Grows
  BY <1>1, <1>3, <1>6 DEF Grows
<1>11. QED
  BY <1>7, <1>8, <1>9, <1>10 DEF Table

(* A memory is forgotten.                                                  *)
LEMMA DeleteKeepsTable ==
  ASSUME Table, NEW old \in Ids, memories' = [memories EXCEPT ![old] = Tombstone]
  PROVE  Table' /\ Grows
<1> USE SemanticMemoryAssumption
<1>1. memories \in Seq(Rows) /\ Len(memories) \in Nat /\ Ids = 1 .. Len(memories)
  BY DEF Table, RowsTyped, Ids
<1>2. /\ Tombstone \in Rows /\ Tombstone.state = "DELETED"
      /\ Tombstone.supersedes = None /\ Tombstone.by = None
  BY DEF Tombstone, Rows
<1>3. /\ memories' \in Seq(Rows) /\ Len(memories') = Len(memories) /\ Ids' = Ids
      /\ \A m \in Ids : m # old => memories'[m] = memories[m]
      /\ memories'[old] = Tombstone
  BY <1>1, <1>2, ExceptSeq DEF Ids
<1>4. RowsTyped'
  BY <1>1, <1>2, <1>3 DEF Table, RowsTyped
<1>5. LinksBothWays'
  BY <1>1, <1>2, <1>3 DEF Table, RowsTyped, LinksBothWays
<1>6. RememberedOnce'
  BY <1>1, <1>2, <1>3 DEF Table, RememberedOnce
<1>7. Grows
  BY <1>1, <1>2, <1>3 DEF Grows
<1>8. QED
  BY <1>4, <1>5, <1>6, <1>7 DEF Table
-----------------------------------------------------------------------------
(* What one turn does leaves the others as they were.                      *)

LEMMA Ready ==
  ASSUME Typed, RowsTyped
  PROVE  /\ Len(memories) \in Nat /\ Ids = 1 .. Len(memories)
         /\ \A m \in Ids : memories[m] \in Rows
BY DEF RowsTyped, Ids

(* A refusal stands, whatever else is written.                             *)
LEMMA RefusalStands ==
  ASSUME Typed, RowsTyped, Grows, RowsTyped', NEW t \in Turns, Refused(t),
         turn'[t] = turn[t], results'[t] = results[t]
  PROVE  Refused(t)'
<1> USE SemanticMemoryAssumption
<1>1. /\ Len(memories) \in Nat /\ Ids = 1 .. Len(memories)
      /\ Len(memories') \in Nat /\ Ids' = 1 .. Len(memories')
  BY DEF RowsTyped, Ids
<1>2. ASSUME turn'[t].target \in Ids' PROVE Gone(t)'
  <2>1. turn[t].target \in Ids
    BY <1>1, <1>2 DEF Typed
  <2>2. QED
    BY <2>1 DEF Refused, Gone, Grows
<1>3. QED
  BY <1>2 DEF Refused

(* What is known of a turn and its attempts stays known.                   *)
LEMMA Stands ==
  ASSUME IInv, Grows, RowsTyped', NEW t \in Turns,
         turn'[t] = turn[t], results'[t] = results[t], effects'[t] = effects[t]
  PROVE  TurnOK(t)' /\ \A step \in Steps : Fits(t, step) => Fits(t, step)'
<1>1. Ids \subseteq Ids'
  BY DEF IInv, Table, RowsTyped, Grows, Ids
<1>2. Refused(t) => Refused(t)'
  BY RefusalStands DEF IInv, Table
<1>3. Meant(t) => Meant(t)'
  BY <1>1 DEF Meant
<1>4. TurnOK(t)'
  BY <1>2, <1>3 DEF IInv, TurnOK
<1>5. ASSUME NEW step \in Steps, Fits(t, step) PROVE Fits(t, step)'
  BY <1>2, <1>3, <1>5 DEF Fits
<1>6. QED
  BY <1>4, <1>5

(* A step of one turn: only its own part is left to show.                  *)
LEMMA OneTurn ==
  ASSUME IInv, Typed', Table', Grows, NEW t \in Turns,
         \A u \in Turns \ {t} :
           /\ turn'[u] = turn[u] /\ call'[u] = call[u]
           /\ results'[u] = results[u] /\ effects'[u] = effects[u],
         TurnOK(t)',
         \A a \in Attempts, step \in Steps : call'[t][a] = step => Fits(t, step)'
  PROVE  IInv'
<1>1. ASSUME NEW u \in Turns \ {t}
      PROVE  /\ TurnOK(u)'
             /\ \A a \in Attempts, step \in Steps : call'[u][a] = step => Fits(u, step)'
  <2>1. TurnOK(u)' /\ \A step \in Steps : Fits(u, step) => Fits(u, step)'
    BY Stands DEF Table
  <2>2. \A a \in Attempts, step \in Steps : call[u][a] = step => Fits(u, step)
    BY DEF IInv
  <2>3. QED
    BY <2>1, <2>2
<1>2. \A u \in Turns, a \in Attempts, step \in Steps : call'[u][a] = step => Fits(u, step)'
  BY <1>1
<1>3. \A u \in Turns, a \in Attempts : call'[u][a] \in Steps
  BY DEF Typed
<1>4. \A u \in Turns, a \in Attempts : Fits(u, call[u][a])'
  BY <1>2, <1>3 DEF Fits
<1>5. QED
  BY <1>1, <1>4 DEF IInv

-----------------------------------------------------------------------------
(* The steps of the service.                                               *)

LEMMA Going ==
  ASSUME Typed, NEW t \in Turns, NEW a \in Attempts, NEW pc \in Steps, Goes(t, a, pc)
  PROVE  /\ call' \in [Turns -> [Attempts -> Steps]]
         /\ \A u \in Turns \ {t} : call'[u] = call[u]
         /\ \A b \in Attempts \ {a} : call'[t][b] = call[t][b]
         /\ call'[t][a] \in {pc, "none"}
<1> DEFINE step == IF pc \in Answers /\ ~Awaited(t, a) THEN "none" ELSE pc
<1>1. step \in Steps /\ step \in {pc, "none"}
  BY DEF Steps
<1>2. call' = [call EXCEPT ![t][a] = step]
  BY DEF Goes
<1> HIDE DEF step
<1>3. call \in [Turns -> [Attempts -> Steps]]
  BY DEF Typed
<1>4. QED
  BY <1>1, <1>2, <1>3

(* A call goes on, and nothing is committed.                               *)
LEMMA CallStep ==
  ASSUME IInv, NEW t \in Turns, NEW a \in Attempts, NEW pc \in Steps,
         Goes(t, a, pc), Fits(t, pc), locked' \in (Turns \X Attempts) \cup {None},
         UNCHANGED <<databaseVars, turn, faults>>
  PROVE  IInv'
<1>1. /\ memories' = memories /\ results' = results /\ effects' = effects
      /\ turn' = turn /\ faults' = faults
  BY DEF databaseVars
<1>2. Typed /\ Table /\ RowsTyped
  BY DEF IInv, Table
<1>3. Table' /\ RowsTyped' /\ Grows
  BY <1>1, <1>2 DEF Table, RowsTyped, LinksBothWays, RememberedOnce, Ids, Grows
<1>4. /\ call' \in [Turns -> [Attempts -> Steps]]
      /\ \A u \in Turns \ {t} : call'[u] = call[u]
      /\ \A b \in Attempts \ {a} : call'[t][b] = call[t][b]
      /\ call'[t][a] \in {pc, "none"}
  BY <1>2, Going
<1>5. Typed'
  BY <1>1, <1>2, <1>4 DEF Typed, Ids
<1>6. TurnOK(t)' /\ \A step \in Steps : Fits(t, step) => Fits(t, step)'
  BY <1>1, <1>3, Stands
<1>7. \A b \in Attempts, step \in Steps : call'[t][b] = step => Fits(t, step)
  <2>1. Fits(t, "none")
    BY DEF Fits, Refusals
  <2>2. \A b \in Attempts, step \in Steps : call[t][b] = step => Fits(t, step)
    BY DEF IInv
  <2>3. QED
    BY <1>4, <2>1, <2>2
<1>8. QED
  BY <1>1, <1>3, <1>4, <1>5, <1>6, <1>7, OneTurn

(* A call commits what was not done, and could be done.                    *)
LEMMA CommitStep ==
  ASSUME IInv, Table', Grows, NEW t \in Turns, NEW a \in Attempts,
         NEW v \in Contents \cup {"deleted"},
         Commit(t, a, v), call[t][a] # "none", ~Refused(t),
         UNCHANGED <<locked, turn, faults>>
  PROVE  IInv'
<1> USE SemanticMemoryAssumption
<1>1. /\ turn' = turn /\ faults' = faults /\ locked' = locked
      /\ results[t] = None /\ v # None
      /\ results' = [results EXCEPT ![t] = v]
      /\ effects' = [effects EXCEPT ![t] = @ + 1]
      /\ Goes(t, a, "ok")
  BY DEF Commit
<1>2. Typed /\ Table /\ RowsTyped /\ TurnOK(t)
  BY DEF IInv, Table
<1>3. "ok" \in Steps
  BY DEF Steps, Answers
<1>4. /\ call' \in [Turns -> [Attempts -> Steps]]
      /\ \A u \in Turns \ {t} : call'[u] = call[u]
      /\ \A b \in Attempts \ {a} : call'[t][b] = call[t][b]
      /\ call'[t][a] \in {"ok", "none"}
  BY <1>1, <1>2, <1>3, Going
<1>5. /\ results' \in [Turns -> Contents \cup {None, "deleted"}]
      /\ effects' \in [Turns -> Nat]
      /\ results'[t] # None /\ effects'[t] = 1
      /\ \A u \in Turns \ {t} : results'[u] = results[u] /\ effects'[u] = effects[u]
  BY <1>1, <1>2 DEF Typed, TurnOK
<1>6. Ids \subseteq Ids'
  BY DEF IInv, Table, RowsTyped, Grows, Ids
<1>7. Typed'
  BY <1>1, <1>2, <1>4, <1>5, <1>6 DEF Typed
<1>8. Meant(t) /\ turn[t].phase \in {"calling", "told"}
  BY DEF IInv, Fits
<1>9. Meant(t)'
  BY <1>1, <1>6, <1>8 DEF Meant
<1>10. TurnOK(t)'
  BY <1>1, <1>2, <1>5, <1>8, <1>9 DEF TurnOK
<1>11. ASSUME NEW b \in Attempts, NEW step \in Steps, call'[t][b] = step
       PROVE  Fits(t, step)'
  <2>1. step \in {"ok", "none"} \/ Fits(t, step)
    BY <1>4, <1>11 DEF IInv
  <2>2. QED
    BY <1>1, <1>5, <1>8, <1>9, <2>1 DEF Fits, Refusals
<1>12. QED
  BY <1>1, <1>4, <1>5, <1>7, <1>10, <1>11, OneTurn

-----------------------------------------------------------------------------
(* The steps of the gateway, of the client and of the Admin.               *)

(* What a turn wants, and where its attempts are, changes; the database    *)
(* does not.                                                               *)
LEMMA ClientStep ==
  ASSUME IInv, NEW t \in Turns, NEW s \in TurnStates, NEW c \in [Attempts -> Steps],
         s.candidates \subseteq Ids, s.target \in Ids \cup {None},
         turn' = [turn EXCEPT ![t] = s], call' = [call EXCEPT ![t] = c],
         faults' \in 0 .. MaxFaults, UNCHANGED <<databaseVars, locked>>,
         TurnOK(t)',
         \A a \in Attempts, step \in Steps : c[a] = step => Fits(t, step)'
  PROVE  IInv'
<1>1. /\ memories' = memories /\ results' = results /\ effects' = effects
      /\ locked' = locked
  BY DEF databaseVars
<1>2. Typed /\ Table /\ RowsTyped
  BY DEF IInv, Table
<1>3. Table' /\ Grows /\ Ids' = Ids
  BY <1>1, <1>2 DEF Table, RowsTyped, LinksBothWays, RememberedOnce, Ids, Grows
<1>4. /\ call' \in [Turns -> [Attempts -> Steps]] /\ turn' \in [Turns -> TurnStates]
      /\ call'[t] = c /\ turn'[t] = s
      /\ \A u \in Turns \ {t} : call'[u] = call[u] /\ turn'[u] = turn[u]
  BY <1>2 DEF Typed
<1>5. Typed'
  BY <1>1, <1>2, <1>3, <1>4 DEF Typed
<1>6. QED
  BY <1>1, <1>3, <1>4, <1>5, OneTurn

(* A call is made: nothing of its turn was under way.                      *)
LEMMA CallsStep ==
  ASSUME IInv, NEW t \in Turns, NEW op \in Operations, NEW new \in News \cup {None},
         NEW m \in Ids \cup {None},
         turn[t].phase \in {"idle", "searching", "pending"},
         \/ op = "create" /\ new \in News
         \/ op = "supersede" /\ new \in News /\ m \in Ids
         \/ op \in {"confirm", "delete"} /\ m \in Ids,
         Calls(t, op, new, m), UNCHANGED <<databaseVars, locked, faults>>
  PROVE  IInv'
<1> USE SemanticMemoryAssumption
<1> DEFINE s == [NoTurn EXCEPT !.phase = "calling", !.op = op, !.new = new, !.target = m]
           c == [call[t] EXCEPT ![1] = "arrived"]
<1>1. Typed /\ RowsTyped /\ TurnOK(t)
  BY DEF IInv, Table
<1>2. m \in Nat \cup {None}
  BY <1>1, Ready
<1>3. /\ s \in TurnStates /\ s.candidates = {} /\ s.target = m /\ s.phase = "calling"
      /\ s.op = op /\ s.new = new /\ s.told = None
  <2>1. NoTurn \in TurnStates /\ NoTurn.candidates = {} /\ NoTurn.told = None
    BY DEF NoTurn, TurnStates, Attempts
  <2>2. \A r \in TurnStates :
          LET q == [r EXCEPT !.phase = "calling", !.op = op, !.new = new, !.target = m]
          IN  /\ q \in TurnStates /\ q.candidates = r.candidates /\ q.target = m
              /\ q.phase = "calling" /\ q.op = op /\ q.new = new /\ q.told = r.told
    BY <1>2 DEF TurnStates
  <2>3. QED
    BY <2>1, <2>2
<1>4. call[t] \in [Attempts -> Steps] /\ "arrived" \in Steps /\ 1 \in Attempts
  BY <1>1 DEF Typed, Steps, Attempts
<1>5. \A a \in Attempts : call[t][a] = "none"
  BY DEF IInv, Fits
<1>6. c \in [Attempts -> Steps] /\ \A a \in Attempts : c[a] \in {"arrived", "none"}
  BY <1>4, <1>5
<1>7. turn' = [turn EXCEPT ![t] = s] /\ call' = [call EXCEPT ![t] = c]
  BY <1>1 DEF Calls, Typed
<1> HIDE DEF s, c
<1>8. turn'[t] = s
  BY <1>1, <1>7 DEF Typed
<1>9. results' = results /\ effects' = effects /\ memories' = memories /\ Ids' = Ids
  BY DEF databaseVars, Ids
<1>10. Meant(t)'
  BY <1>3, <1>8, <1>9 DEF Meant
<1>11. TurnOK(t)'
  BY <1>1, <1>3, <1>8, <1>9, <1>10 DEF TurnOK, Refusals, Answers
<1>12. \A a \in Attempts, step \in Steps : c[a] = step => Fits(t, step)'
  BY <1>3, <1>6, <1>8, <1>10 DEF Fits, Refusals
<1>13. faults' \in 0 .. MaxFaults
  BY <1>1 DEF Typed
<1>14. QED
  BY <1>3, <1>6, <1>7, <1>11, <1>12, <1>13, ClientStep

(* A turn is told what it may be told.                                     *)
LEMMA TellsStep ==
  ASSUME IInv, NEW t \in Turns, NEW answer \in Answers,
         answer = "ok" => results[t] # None,
         answer \in Refusals /\ turn[t].op # "supersede" => Refused(t),
         Tells(t, answer), faults' \in 0 .. MaxFaults, UNCHANGED <<databaseVars, locked>>
  PROVE  IInv'
<1> USE SemanticMemoryAssumption
<1> DEFINE s == [turn[t] EXCEPT !.phase = "told", !.told = answer]
           c == [a \in Attempts |-> Read(call[t][a])]
<1>1. Typed /\ TurnOK(t) /\ turn[t] \in TurnStates
  BY DEF IInv, Typed
<1>2. /\ s \in TurnStates /\ s.candidates = turn[t].candidates
      /\ s.target = turn[t].target /\ s.phase = "told"
      /\ s.op = turn[t].op /\ s.new = turn[t].new /\ s.told = answer
  BY <1>1 DEF TurnStates
<1>3. c \in [Attempts -> Steps] /\ \A a \in Attempts : c[a] \in {call[t][a], "none"}
  BY <1>1 DEF Typed, Steps, Read
<1>4. turn' = [turn EXCEPT ![t] = s] /\ call' = [call EXCEPT ![t] = c]
  BY <1>1 DEF Tells, Typed
<1> HIDE DEF s, c
<1>5. turn'[t] = s
  BY <1>1, <1>4 DEF Typed
<1>6. results' = results /\ effects' = effects /\ memories' = memories /\ Ids' = Ids
  BY DEF databaseVars, Ids
<1>7. Refused(t) => Refused(t)'
  BY <1>2, <1>5, <1>6 DEF Refused, Gone
<1>8. Meant(t) => Meant(t)'
  BY <1>2, <1>5, <1>6 DEF Meant
<1>9. TurnOK(t)'
  BY <1>1, <1>2, <1>5, <1>6, <1>7 DEF TurnOK
<1>10. \A a \in Attempts, step \in Steps : c[a] = step => Fits(t, step)'
  <2>1. Fits(t, "none")
    BY DEF Fits, Refusals
  <2>2. \A a \in Attempts, step \in Steps : call[t][a] = step => Fits(t, step)
    BY DEF IInv
  <2>3. \A a \in Attempts, step \in Steps : c[a] = step => Fits(t, step)
    BY <1>3, <2>1, <2>2
  <2>4. \A step \in Steps : Fits(t, step) => Fits(t, step)'
    BY <1>2, <1>5, <1>6, <1>7, <1>8 DEF Fits
  <2>5. QED
    BY <2>3, <2>4
<1>11. turn[t].candidates \subseteq Ids /\ turn[t].target \in Ids \cup {None}
  BY <1>1 DEF Typed
<1>12. QED
  BY <1>2, <1>3, <1>4, <1>9, <1>10, <1>11, ClientStep

(* It is sent again, or given up.                                          *)
LEMMA AgainStep ==
  ASSUME IInv, NEW t \in Turns, turn[t].phase = "calling",
         Again(t), faults' \in 0 .. MaxFaults, UNCHANGED <<databaseVars, locked>>
  PROVE  IInv'
<1> USE SemanticMemoryAssumption
<1> DEFINE s == [turn[t] EXCEPT !.attempt = 2]
           c == [call[t] EXCEPT ![1] = Read(@), ![2] = "arrived"]
<1>1. Typed /\ TurnOK(t) /\ turn[t] \in TurnStates
  BY DEF IInv, Typed
<1>2. CASE Tells(t, "unavailable")
  <2>1. "unavailable" \in Answers \ (Refusals \cup {"ok"})
    BY DEF Answers, Refusals
  <2>2. QED
    BY <1>2, <2>1, TellsStep
<1>3. CASE /\ turn' = [turn EXCEPT ![t].attempt = 2]
           /\ call' = [call EXCEPT ![t][1] = Read(@), ![t][2] = "arrived"]
  <2>1. /\ s \in TurnStates /\ s.candidates = turn[t].candidates
        /\ s.target = turn[t].target /\ s.phase = turn[t].phase
        /\ s.op = turn[t].op /\ s.new = turn[t].new /\ s.told = turn[t].told
    BY <1>1 DEF TurnStates, Attempts
  <2>2. call[t] \in [Attempts -> Steps] /\ Read(call[t][1]) \in Steps \cap {call[t][1], "none"}
    BY <1>1 DEF Typed, Steps, Read, Attempts
  <2>3. /\ c \in [Attempts -> Steps]
        /\ \A a \in Attempts : c[a] \in {call[t][a], "none", "arrived"}
    BY <2>2 DEF Attempts, Steps
  <2>4. turn' = [turn EXCEPT ![t] = s] /\ call' = [call EXCEPT ![t] = c]
    BY <1>1, <1>3 DEF Typed, Attempts
  <2> HIDE DEF s, c
  <2>5. turn'[t] = s
    BY <1>1, <2>4 DEF Typed
  <2>6. results' = results /\ effects' = effects /\ memories' = memories /\ Ids' = Ids
    BY DEF databaseVars, Ids
  <2>7. Refused(t) => Refused(t)'
    BY <2>1, <2>5, <2>6 DEF Refused, Gone
  <2>8. Meant(t) /\ Meant(t)'
    BY <1>1, <2>1, <2>5, <2>6 DEF Meant, TurnOK
  <2>9. TurnOK(t)'
    BY <1>1, <2>1, <2>5, <2>6, <2>7, <2>8 DEF TurnOK
  <2>10. \A a \in Attempts, step \in Steps : c[a] = step => Fits(t, step)'
    <3>1. \A a \in Attempts, step \in Steps :
            c[a] = step => step \in {"none", "arrived"} \/ Fits(t, step)
      BY <2>3 DEF IInv
    <3>2. \A step \in Steps : Fits(t, step) => Fits(t, step)'
      BY <2>1, <2>5, <2>6, <2>7, <2>8 DEF Fits
    <3>3. Fits(t, "none")' /\ Fits(t, "arrived")'
      BY <2>1, <2>5, <2>8 DEF Fits, Refusals
    <3>4. QED
      BY <3>1, <3>2, <3>3
  <2>11. turn[t].candidates \subseteq Ids /\ turn[t].target \in Ids \cup {None}
    BY <1>1 DEF Typed
  <2>12. QED
    BY <2>1, <2>3, <2>4, <2>9, <2>10, <2>11, ClientStep
<1>4. QED
  BY <1>2, <1>3 DEF Again

LEMMA NewIsNew ==
  ASSUME NEW user \in Owners \cup {None}, NEW new \in New(user)
  PROVE  new \in News
BY DEF New, News

LEMMA LookForStep ==
  ASSUME IInv, NEW t \in Turns, turn[t].phase = "idle",
         NEW op, NEW user \in Owners, NEW new \in News \cup {None},
         op = "delete" \/ (op = "supersede" /\ new \in News),
         LookFor(t, op, user, new)
  PROVE  IInv'
<1> USE SemanticMemoryAssumption
<1> DEFINE s == [NoTurn EXCEPT !.phase = "searching", !.op = op, !.user = user, !.new = new]
<1>1. Typed /\ TurnOK(t) /\ call[t] \in [Attempts -> Steps] /\ faults \in 0 .. MaxFaults
  BY DEF IInv, Typed
<1>2. op \in Operations
  BY DEF Operations
<1>3. /\ s \in TurnStates /\ s.candidates = {} /\ s.target = None /\ s.phase = "searching"
      /\ s.op = op /\ s.new = new /\ s.told = None
  <2>1. /\ NoTurn \in TurnStates /\ NoTurn.candidates = {} /\ NoTurn.told = None
        /\ NoTurn.target = None
    BY DEF NoTurn, TurnStates, Attempts
  <2>2. \A r \in TurnStates :
          LET q == [r EXCEPT !.phase = "searching", !.op = op, !.user = user, !.new = new]
          IN  /\ q \in TurnStates /\ q.candidates = r.candidates /\ q.target = r.target
              /\ q.phase = "searching" /\ q.op = op /\ q.new = new /\ q.told = r.told
    BY <1>2 DEF TurnStates
  <2>3. QED
    BY <2>1, <2>2
<1>4. /\ turn' = [turn EXCEPT ![t] = s] /\ call' = [call EXCEPT ![t] = call[t]]
      /\ faults' \in 0 .. MaxFaults /\ UNCHANGED <<databaseVars, locked>>
  BY <1>1 DEF LookFor, Typed
<1> HIDE DEF s
<1>5. turn'[t] = s /\ results' = results /\ effects' = effects
  BY <1>1, <1>4 DEF Typed, databaseVars
<1>6. TurnOK(t)'
  BY <1>1, <1>3, <1>5 DEF TurnOK, Refusals, Answers
<1>7. \A a \in Attempts, step \in Steps : call[t][a] = step => Fits(t, step)'
  <2>1. \A a \in Attempts : call[t][a] = "none"
    BY DEF IInv, Fits
  <2>2. Fits(t, "none")'
    BY DEF Fits, Refusals
  <2>3. QED
    BY <2>1, <2>2
<1>8. QED
  BY <1>1, <1>3, <1>4, <1>6, <1>7, ClientStep

LEMMA AskStep ==
  ASSUME IInv, NEW t \in Turns, Ask(t)
  PROVE  IInv'
<1> USE SemanticMemoryAssumption
<1>1. turn[t].phase = "idle" /\ Typed
  BY DEF Ask, IInv
<1>2. CASE \E user \in Owners : LookFor(t, "delete", user, None)
  BY <1>1, <1>2, LookForStep
<1>3. CASE \E user \in Owners : \E new \in New(user) :
             Remember(t, new) \/ LookFor(t, "supersede", user, new)
  <2>1. PICK user \in Owners : \E new \in New(user) :
             Remember(t, new) \/ LookFor(t, "supersede", user, new)
    BY <1>3
  <2>2. PICK new \in New(user) : Remember(t, new) \/ LookFor(t, "supersede", user, new)
    BY <2>1
  <2>3. new \in News
    BY NewIsNew
  <2>4. CASE Remember(t, new)
    <3>1. "create" \in Operations
      BY DEF Operations
    <3>2. QED
      BY <1>1, <2>3, <2>4, <3>1, CallsStep DEF Remember
  <2>5. CASE LookFor(t, "supersede", user, new)
    BY <1>1, <2>3, <2>5, LookForStep
  <2>6. QED
    BY <2>2, <2>4, <2>5
<1>4. CASE \E m \in Ids : \E op \in {"confirm", "delete"} : Administer(t, op, None, m)
  BY <1>1, <1>4, CallsStep DEF Administer, Operations
<1>5. CASE \E m \in Ids : \E user \in Owners \cup {None} :
             \E new \in New(user) : Administer(t, "supersede", new, m)
  BY <1>1, <1>5, CallsStep, NewIsNew DEF Administer, Operations
<1>6. QED
  BY <1>2, <1>3, <1>4, <1>5 DEF Ask

LEMMA SearchStep ==
  ASSUME IInv, NEW t \in Turns, Search(t)
  PROVE  IInv'
<1> USE SemanticMemoryAssumption
<1>1. /\ turn[t].phase = "searching" /\ Typed /\ TurnOK(t) /\ turn[t] \in TurnStates
      /\ call[t] \in [Attempts -> Steps] /\ Len(memories) \in Nat /\ Ids = 1 .. Len(memories)
      /\ faults' \in 0 .. MaxFaults /\ UNCHANGED <<databaseVars, locked, faults>>
  BY Ready DEF Search, IInv, Table, Typed
<1>2. /\ turn[t].op \in Operations /\ turn[t].new \in News \cup {None}
      /\ turn[t].target = None /\ turn[t].told = None /\ results[t] = None
      /\ \/ turn[t].op = "delete"
         \/ turn[t].op = "supersede" /\ turn[t].new \in News
  BY <1>1 DEF TurnOK, TurnStates, Operations
<1>3. CASE Tells(t, "unavailable")
  <2>1. "unavailable" \in Answers \ (Refusals \cup {"ok"})
    BY DEF Answers, Refusals
  <2>2. QED
    BY <1>1, <1>3, <2>1, TellsStep
<1>4. CASE Tells(t, "not_found")
  <2>1. "not_found" \in Answers \ {"ok"}
    BY DEF Answers
  <2>2. turn[t].op # "supersede" => Refused(t)
    BY <1>1, <1>2 DEF Refused
  <2>3. QED
    BY <1>1, <1>4, <2>1, <2>2, TellsStep
<1>5. CASE \E m \in Ids : Calls(t, turn[t].op, turn[t].new, m)
  BY <1>1, <1>2, <1>5, CallsStep
<1>6. CASE \E found \in SUBSET Ids :
             /\ turn' = [turn EXCEPT ![t].phase = "pending", ![t].candidates = found]
             /\ UNCHANGED call
  <2>1. PICK found \in SUBSET Ids :
             /\ turn' = [turn EXCEPT ![t].phase = "pending", ![t].candidates = found]
             /\ UNCHANGED call
    BY <1>6
  <2> DEFINE s == [turn[t] EXCEPT !.phase = "pending", !.candidates = found]
  <2>2. /\ s \in TurnStates /\ s.candidates = found /\ s.target = None
        /\ s.phase = "pending" /\ s.op = turn[t].op /\ s.new = turn[t].new /\ s.told = None
    <3>0. found \in SUBSET Nat
      BY <1>1
    <3>1. \A r \in TurnStates :
            LET q == [r EXCEPT !.phase = "pending", !.candidates = found]
            IN  /\ q \in TurnStates /\ q.candidates = found /\ q.target = r.target
                /\ q.phase = "pending" /\ q.op = r.op /\ q.new = r.new /\ q.told = r.told
      BY <3>0 DEF TurnStates
    <3>2. QED
      BY <1>1, <1>2, <3>1
  <2>3. turn' = [turn EXCEPT ![t] = s] /\ call' = [call EXCEPT ![t] = call[t]]
    BY <1>1, <2>1 DEF Typed
  <2> HIDE DEF s
  <2>4. turn'[t] = s /\ results' = results /\ effects' = effects
    BY <1>1, <2>3 DEF Typed, databaseVars
  <2>5. TurnOK(t)'
    BY <1>1, <1>2, <2>2, <2>4 DEF TurnOK, Refusals, Answers
  <2>6. \A a \in Attempts, step \in Steps : call[t][a] = step => Fits(t, step)'
    <3>1. \A a \in Attempts : call[t][a] = "none"
      BY <1>1 DEF IInv, Fits
    <3>2. Fits(t, "none")'
      BY DEF Fits, Refusals
    <3>3. QED
      BY <3>1, <3>2
  <2>7. QED
    BY <1>1, <2>2, <2>3, <2>5, <2>6, ClientStep
<1>7. Searchable(turn[t].user) \subseteq Ids
  BY DEF Searchable
<1>8. QED
  BY <1>3, <1>4, <1>5, <1>6, <1>7 DEF Search

LEMMA SelectStep ==
  ASSUME IInv, NEW t \in Turns, Select(t)
  PROVE  IInv'
<1>1. /\ turn[t].phase = "pending" /\ Typed /\ TurnOK(t) /\ turn[t] \in TurnStates
      /\ turn[t].candidates \subseteq Ids
      /\ UNCHANGED <<databaseVars, locked, faults>>
  BY DEF Select, IInv, Typed
<1>2. /\ turn[t].op \in Operations /\ turn[t].new \in News \cup {None}
      /\ \/ turn[t].op = "delete"
         \/ turn[t].op = "supersede" /\ turn[t].new \in News
  BY <1>1 DEF TurnOK, TurnStates, Operations
<1>3. QED
  BY <1>1, <1>2, CallsStep DEF Select

LEMMA ClientSteps ==
  ASSUME IInv, NEW t \in Turns, Client(t)
  PROVE  IInv'
<1> USE SemanticMemoryAssumption
<1>1. faults \in 0 .. MaxFaults /\ MaxFaults \in Nat
  BY DEF IInv, Typed
<1>2. CASE Search(t)
  BY <1>2, SearchStep
<1>3. CASE Receive(t)
  <2>1. PICK answer \in Answers : answer = call[t][turn[t].attempt]
    BY <1>3 DEF Receive
  <2>2. /\ turn[t].phase = "calling" /\ UNCHANGED <<databaseVars, locked, faults>>
        /\ Again(t) \/ Tells(t, answer)
    BY <1>3, <2>1 DEF Receive
  <2>3. Fits(t, answer)
    BY <2>1 DEF IInv, Typed, TurnStates, Fits
  <2>4. /\ answer = "ok" => results[t] # None
        /\ answer \in Refusals /\ turn[t].op # "supersede" => Refused(t)
    BY <2>3 DEF Fits
  <2>5. QED
    BY <1>1, <2>2, <2>4, AgainStep, TellsStep
<1>4. CASE TimesOut(t)
  <2>1. faults' \in 0 .. MaxFaults
    BY <1>1, <1>4 DEF TimesOut, Fault
  <2>2. QED
    BY <1>4, <2>1, AgainStep DEF TimesOut
<1>5. QED
  BY <1>2, <1>3, <1>4 DEF Client

-----------------------------------------------------------------------------
(* Each step of the service, and of the whole.                             *)

(* Where a call is says what its turn is about.                            *)
LEMMA Under ==
  ASSUME IInv, NEW t \in Turns, NEW a \in Attempts
  PROVE  /\ Typed /\ Table /\ TurnOK(t) /\ Fits(t, call[t][a])
         /\ locked \in (Turns \X Attempts) \cup {None}
         /\ call[t][a] # "none" => Meant(t) /\ turn[t].phase \in {"calling", "told"}
         /\ Len(memories) \in Nat /\ Ids = 1 .. Len(memories)
         /\ \A m \in Ids : memories[m] \in Rows
         /\ \A m \in Ids : memories[m].state = "ACTIVE" => memories[m].content \in Contents
<1>1. Typed /\ Table /\ TurnOK(t) /\ Fits(t, call[t][a]) /\ RowsTyped
  BY DEF IInv, Table
<1>2. QED
  BY <1>1, Ready DEF Fits, Typed, RowsTyped

(* An answer that commits nothing.                                         *)
LEMMA AnswerStep ==
  ASSUME IInv, NEW t \in Turns, NEW a \in Attempts, call[t][a] # "none",
         locked' \in (Turns \X Attempts) \cup {None}, UNCHANGED <<turn, faults>>,
         \/ Replays(t, a)
         \/ \E answer \in {"unavailable", "error"} :
              Goes(t, a, answer) /\ UNCHANGED databaseVars
         \/ \E answer \in Refusals :
              /\ turn[t].op # "supersede" => Refused(t)
              /\ Goes(t, a, answer) /\ UNCHANGED databaseVars
  PROVE  IInv'
<1>1. Meant(t) /\ turn[t].phase \in {"calling", "told"}
  BY Under
<1>2. CASE Replays(t, a)
  <2>1. Fits(t, "ok") /\ "ok" \in Steps
    BY <1>1, <1>2 DEF Replays, Replay, Fits, Refusals, Steps, Answers
  <2>2. QED
    BY <1>2, <2>1, CallStep DEF Replays
<1>3. ASSUME NEW answer \in {"unavailable", "error"},
             Goes(t, a, answer) /\ UNCHANGED databaseVars
      PROVE  IInv'
  <2>1. Fits(t, answer) /\ answer \in Steps
    BY <1>1 DEF Fits, Refusals, Steps, Answers
  <2>2. QED
    BY <1>3, <2>1, CallStep
<1>4. ASSUME NEW answer \in Refusals, turn[t].op # "supersede" => Refused(t),
             Goes(t, a, answer) /\ UNCHANGED databaseVars
      PROVE  IInv'
  <2>1. Fits(t, answer) /\ answer \in Steps
    BY <1>1, <1>4 DEF Fits, Refusals, Steps, Answers
  <2>2. QED
    BY <1>4, <2>1, CallStep
<1>5. QED
  BY <1>2, <1>3, <1>4

LEMMA ReadSteps ==
  ASSUME IInv, NEW t \in Turns, NEW a \in Attempts,
         ReadCreate(t, a) \/ ReadReplay(t, a) \/ ReadTarget(t, a) \/ Embed(t, a)
  PROVE  IInv'
<1>1. /\ Fits(t, call[t][a]) /\ locked \in (Turns \X Attempts) \cup {None}
      /\ call[t][a] # "none" => Meant(t) /\ turn[t].phase \in {"calling", "told"}
  BY Under
<1>2. CASE ReadCreate(t, a)
  <2>1. PICK pc \in {"ok", "confirming", "embedding"} :
          Goes(t, a, pc) /\ (pc = "ok" => Replay(t))
    BY <1>2 DEF ReadCreate
  <2>2. Fits(t, pc) /\ pc \in Steps
    BY <1>1, <1>2, <2>1 DEF ReadCreate, Fits, Refusals, Steps, Answers, Replay
  <2>3. QED
    BY <1>1, <1>2, <2>1, <2>2, CallStep DEF ReadCreate
<1>3. CASE ReadReplay(t, a)
  <2>1. PICK pc \in {"ok", "looking"} : Goes(t, a, pc) /\ (pc = "ok" => Replay(t))
    BY <1>3 DEF ReadReplay
  <2>2. Fits(t, pc) /\ pc \in Steps
    BY <1>1, <1>3, <2>1 DEF ReadReplay, Fits, Refusals, Steps, Answers, Replay
  <2>3. QED
    BY <1>1, <1>3, <2>1, <2>2, CallStep DEF ReadReplay
<1>4. CASE ReadTarget(t, a)
  <2>1. PICK pc \in {"embedding"} \cup Refusals : Goes(t, a, pc)
    BY <1>4 DEF ReadTarget, Refusal, Refusals
  <2>2. Fits(t, pc) /\ pc \in Steps
    BY <1>1, <1>4, <2>1 DEF ReadTarget, Fits, Refusals, Steps, Answers
  <2>3. QED
    BY <1>1, <1>4, <2>1, <2>2, CallStep DEF ReadTarget
<1>5. CASE Embed(t, a)
  <2>1. PICK pc \in {"writing", "unavailable"} : Goes(t, a, pc)
    BY <1>5 DEF Embed
  <2>2. Fits(t, pc) /\ pc \in Steps
    BY <1>1, <1>5, <2>1 DEF Embed, Fits, Refusals, Steps, Answers
  <2>3. QED
    BY <1>1, <1>5, <2>1, <2>2, CallStep DEF Embed
<1>6. QED
  BY <1>2, <1>3, <1>4, <1>5

LEMMA InsertStep ==
  ASSUME IInv, NEW t \in Turns, NEW a \in Attempts, Insert(t, a)
  PROVE  IInv'
<1>1. /\ call[t][a] = "writing" /\ turn[t].op = "create" /\ UNCHANGED <<locked, turn, faults>>
      /\ \/ Replays(t, a)
         \/ Duplicate(t) # {} /\ Refuses(t, a, "unavailable")
         \/ /\ ~Replay(t) /\ Duplicate(t) = {} /\ Len(memories) < MaxMemories
            /\ memories' = Append(memories, Memory(turn[t].new, None))
            /\ Commit(t, a, turn[t].new.content)
  BY DEF Insert
<1>2. Table /\ Meant(t) /\ locked \in (Turns \X Attempts) \cup {None}
  BY <1>1, Under
<1>3. turn[t].new \in News /\ turn[t].new.content \in Contents
  BY <1>1, <1>2 DEF Meant, News
<1>4. CASE Replays(t, a) \/ Refuses(t, a, "unavailable")
  BY <1>1, <1>2, <1>4, AnswerStep DEF Refuses
<1>5. CASE /\ Duplicate(t) = {} /\ Len(memories) < MaxMemories
           /\ memories' = Append(memories, Memory(turn[t].new, None))
           /\ Commit(t, a, turn[t].new.content)
  <2>1. \A m \in Ids : ~(memories[m].state = "ACTIVE" /\ memories[m].owner = turn[t].new.owner
                            /\ memories[m].content = turn[t].new.content)
    BY <1>5 DEF Duplicate, Searchable
  <2>2. Table' /\ Grows
    BY <1>2, <1>3, <1>5, <2>1, InsertKeepsTable
  <2>3. ~Refused(t)
    BY <1>1 DEF Refused
  <2>4. QED
    BY <1>1, <1>3, <1>5, <2>2, <2>3, CommitStep
<1>6. QED
  BY <1>1, <1>4, <1>5

LEMMA SameTable ==
  ASSUME Table, UNCHANGED memories
  PROVE  Table' /\ Grows
BY DEF Table, RowsTyped, LinksBothWays, RememberedOnce, Ids, Grows

LEMMA ConfirmDuplicateStep ==
  ASSUME IInv, NEW t \in Turns, NEW a \in Attempts, ConfirmDuplicate(t, a)
  PROVE  IInv'
<1>1. /\ call[t][a] = "confirming" /\ UNCHANGED <<turn, faults>>
      /\ \/ Replays(t, a) /\ UNCHANGED locked
         \/ Commit(t, a, turn[t].new.content) /\ UNCHANGED <<memories, locked>>
         \/ Refuses(t, a, "nested") /\ locked' = <<t, a>>
  BY DEF ConfirmDuplicate
<1>2. /\ Table /\ Meant(t) /\ turn[t].phase \in {"calling", "told"}
      /\ Fits(t, call[t][a]) /\ locked \in (Turns \X Attempts) \cup {None}
  BY <1>1, Under
<1>3. turn[t].op = "create" /\ turn[t].new \in News /\ turn[t].new.content \in Contents
  BY <1>1, <1>2 DEF Meant, News, Fits
<1>4. CASE Replays(t, a) /\ UNCHANGED locked
  BY <1>1, <1>2, <1>4, AnswerStep
<1>5. CASE Commit(t, a, turn[t].new.content) /\ UNCHANGED <<memories, locked>>
  <2>1. ~Refused(t)
    BY <1>3 DEF Refused
  <2>2. QED
    BY <1>1, <1>2, <1>3, <1>5, <2>1, SameTable, CommitStep
<1>6. CASE Refuses(t, a, "nested") /\ locked' = <<t, a>>
  <2>1. Fits(t, "nested") /\ "nested" \in Steps
    BY <1>2, <1>3 DEF Fits, Refusals, Steps
  <2>2. QED
    BY <1>1, <1>6, <2>1, CallStep DEF Refuses
<1>7. QED
  BY <1>1, <1>4, <1>5, <1>6

LEMMA NestedFailsStep ==
  ASSUME IInv, NEW t \in Turns, NEW a \in Attempts, NestedFails(t, a)
  PROVE  IInv'
<1>1. /\ call[t][a] = "nested" /\ locked' = None /\ UNCHANGED <<databaseVars, turn, faults>>
      /\ \E answer \in {"unavailable", "error"} : Goes(t, a, answer)
  BY DEF NestedFails
<1>2. QED
  BY <1>1, AnswerStep

LEMMA SupersedeStep ==
  ASSUME IInv, NEW t \in Turns, NEW a \in Attempts, Supersede(t, a)
  PROVE  IInv'
<1> DEFINE old == turn[t].target
           new == Len(memories) + 1
<1>1. /\ call[t][a] = "writing" /\ turn[t].op = "supersede" /\ UNCHANGED <<locked, turn, faults>>
      /\ \/ Replays(t, a)
         \/ Refuses(t, a, Refusal(old))
         \/ /\ memories[old].state = "ACTIVE" /\ new <= MaxMemories
            /\ memories' = [Append(memories, Memory(turn[t].new, old))
                              EXCEPT ![old] = [@ EXCEPT !.state = "SUPERSEDED", !.by = new]]
            /\ Commit(t, a, turn[t].new.content)
  BY DEF Supersede
<1>2. /\ Table /\ Meant(t) /\ locked \in (Turns \X Attempts) \cup {None}
      /\ Len(memories) \in Nat
  BY <1>1, Under
<1>3. turn[t].new \in News /\ turn[t].new.content \in Contents /\ old \in Ids
  BY <1>1, <1>2 DEF Meant, News
<1>4. CASE Replays(t, a) \/ Refuses(t, a, Refusal(old))
  BY <1>1, <1>2, <1>4, AnswerStep DEF Refuses, Refusal, Refusals
<1>5. CASE /\ memories[old].state = "ACTIVE" /\ new <= MaxMemories
           /\ memories' = [Append(memories, Memory(turn[t].new, old))
                             EXCEPT ![old] = [@ EXCEPT !.state = "SUPERSEDED", !.by = new]]
           /\ Commit(t, a, turn[t].new.content)
  <2>1. Len(memories) < MaxMemories
    BY <1>2, <1>5, SemanticMemoryAssumption
  <2>2. Table' /\ Grows
    BY <1>2, <1>3, <1>5, <2>1, SupersedeKeepsTable
  <2>3. ~Refused(t)
    BY <1>1 DEF Refused
  <2>4. QED
    BY <1>1, <1>3, <1>5, <2>2, <2>3, CommitStep
<1>6. QED
  BY <1>1, <1>4, <1>5

LEMMA ConfirmStep ==
  ASSUME IInv, NEW t \in Turns, NEW a \in Attempts, Confirm(t, a)
  PROVE  IInv'
<1> DEFINE m == turn[t].target
<1>1. /\ call[t][a] = "arrived" /\ turn[t].op = "confirm" /\ UNCHANGED <<locked, turn, faults>>
      /\ \/ Replays(t, a)
         \/ memories[m].state # "ACTIVE" /\ Refuses(t, a, Refusal(m))
         \/ /\ memories[m].state = "ACTIVE"
            /\ Commit(t, a, memories[m].content)
            /\ UNCHANGED memories
  BY DEF Confirm
<1>2. /\ Table /\ Meant(t) /\ locked \in (Turns \X Attempts) \cup {None}
      /\ \A i \in Ids : memories[i].state = "ACTIVE" => memories[i].content \in Contents
  BY <1>1, Under
<1>3. m \in Ids
  BY <1>1, <1>2 DEF Meant
<1>4. CASE Replays(t, a)
  BY <1>1, <1>2, <1>4, AnswerStep
<1>5. CASE memories[m].state # "ACTIVE" /\ Refuses(t, a, Refusal(m))
  <2>1. Refused(t) /\ Refusal(m) \in Refusals
    BY <1>1, <1>5 DEF Refuses, Refused, Gone, Replay, Refusal, Refusals
  <2>2. QED
    BY <1>1, <1>2, <1>5, <2>1, AnswerStep DEF Refuses
<1>6. CASE /\ memories[m].state = "ACTIVE"
           /\ Commit(t, a, memories[m].content)
           /\ UNCHANGED memories
  <2>1. ~Refused(t)
    BY <1>3, <1>6 DEF Refused, Gone
  <2>2. QED
    BY <1>1, <1>2, <1>3, <1>6, <2>1, SameTable, CommitStep
<1>7. QED
  BY <1>1, <1>4, <1>5, <1>6

LEMMA DeleteStep ==
  ASSUME IInv, NEW t \in Turns, NEW a \in Attempts, Delete(t, a)
  PROVE  IInv'
<1> DEFINE m == turn[t].target
<1>1. /\ call[t][a] = "arrived" /\ turn[t].op = "delete" /\ UNCHANGED <<locked, turn, faults>>
      /\ \/ Replays(t, a)
         \/ Missing(m) /\ Refuses(t, a, "not_found")
         \/ /\ ~Missing(m)
            /\ memories' = [memories EXCEPT ![m] = Tombstone]
            /\ Commit(t, a, "deleted")
  BY DEF Delete
<1>2. Table /\ Meant(t) /\ locked \in (Turns \X Attempts) \cup {None}
  BY <1>1, Under
<1>3. m \in Ids
  BY <1>1, <1>2 DEF Meant
<1>4. CASE Replays(t, a)
  BY <1>1, <1>2, <1>4, AnswerStep
<1>5. CASE Missing(m) /\ Refuses(t, a, "not_found")
  <2>1. Refused(t) /\ "not_found" \in Refusals
    BY <1>1, <1>5 DEF Refuses, Refused, Gone, Replay, Missing, Refusals
  <2>2. QED
    BY <1>1, <1>2, <1>5, <2>1, AnswerStep DEF Refuses
<1>6. CASE /\ ~Missing(m)
           /\ memories' = [memories EXCEPT ![m] = Tombstone]
           /\ Commit(t, a, "deleted")
  <2>1. ~Refused(t)
    BY <1>1, <1>3, <1>6 DEF Refused, Gone, Missing
  <2>2. Table' /\ Grows
    BY <1>2, <1>3, <1>6, DeleteKeepsTable
  <2>3. QED
    BY <1>1, <1>6, <2>1, <2>2, CommitStep
<1>7. QED
  BY <1>1, <1>4, <1>5, <1>6

LEMMA BusyStep ==
  ASSUME IInv, NEW t \in Turns, NEW a \in Attempts, Busy(t, a)
  PROVE  IInv'
<1>1. /\ call[t][a] # "none" /\ Goes(t, a, "error")
      /\ UNCHANGED <<databaseVars, locked, turn, faults>>
  BY DEF Busy, Writes
<1>2. locked \in (Turns \X Attempts) \cup {None}
  BY Under
<1>3. QED
  BY <1>1, <1>2, AnswerStep

LEMMA RestartStep ==
  ASSUME IInv, Restart
  PROVE  IInv'
<1> USE SemanticMemoryAssumption
<1>1. /\ memories' = memories /\ results' = results /\ effects' = effects /\ turn' = turn
      /\ locked' = None /\ faults' = faults + 1 /\ faults < MaxFaults
      /\ call' = [t \in Turns |-> [a \in Attempts |-> "none"]]
  BY DEF Restart, Fault, databaseVars
<1>2. Typed /\ Table
  BY DEF IInv
<1>3. Table' /\ Ids' = Ids
  BY <1>1, <1>2, SameTable DEF Ids
<1>4. call' \in [Turns -> [Attempts -> Steps]]
  BY <1>1 DEF Steps
<1>5. Typed'
  BY <1>1, <1>2, <1>3, <1>4 DEF Typed
<1>6. ASSUME NEW t \in Turns PROVE TurnOK(t)'
  <2>1. TurnOK(t)
    BY DEF IInv
  <2>2. QED
    BY <1>1, <1>3, <2>1 DEF TurnOK, Meant, Refused, Gone
<1>7. \A t \in Turns, a \in Attempts : Fits(t, call[t][a])'
  BY <1>1 DEF Fits, Refusals
<1>8. QED
  BY <1>3, <1>5, <1>6, <1>7 DEF IInv

-----------------------------------------------------------------------------

LEMMA InitIInv == Init => IInv
<1> SUFFICES ASSUME Init PROVE IInv
  OBVIOUS
<1> USE SemanticMemoryAssumption
<1>1. PICK n \in 0 .. MaxBefore :
        memories \in [1 .. n -> {Memory(new, None) : new \in UNION {New(user) : user \in Owners}}]
  BY DEF Init
<1>2. \A m \in 1 .. n :
        /\ memories[m] \in Rows /\ memories[m].state = "ACTIVE"
        /\ memories[m].supersedes = None /\ memories[m].by = None
        /\ memories[m].content \in Contents
        /\ memories[m] = [state |-> "ACTIVE", content |-> memories[m].content,
                          owner |-> memories[m].owner, supersedes |-> None, by |-> None]
  <2>1. \A user \in Owners : \A new \in New(user) :
          /\ Memory(new, None) \in Rows
          /\ Memory(new, None).state = "ACTIVE" /\ Memory(new, None).supersedes = None
          /\ Memory(new, None).by = None /\ Memory(new, None).content \in Contents
          /\ Memory(new, None) =
               [state |-> "ACTIVE", content |-> Memory(new, None).content,
                owner |-> Memory(new, None).owner, supersedes |-> None, by |-> None]
    BY DEF New, Memory, Rows
  <2>2. \A m \in 1 .. n : \E user \in Owners : \E new \in New(user) :
          memories[m] = Memory(new, None)
    BY <1>1
  <2>3. QED
    BY <2>1, <2>2
<1>3. n \in Nat /\ n <= MaxMemories
  BY <1>1
<1>4. memories \in [1 .. n -> Rows]
  BY <1>1, <1>2
<1>5. memories \in Seq(Rows) /\ Len(memories) = n /\ Ids = 1 .. n
  BY <1>3, <1>4 DEF Ids
<1>6. RowsTyped
  BY <1>2, <1>3, <1>5 DEF RowsTyped
<1>7. LinksBothWays
  BY <1>2, <1>5 DEF LinksBothWays
<1>8. RememberedOnce
  <2>1. \A l, m \in Ids : memories[l] = memories[m] => l = m
    BY DEF Init
  <2>2. \A l, m \in Ids : memories[l].content = memories[m].content
                            /\ memories[l].owner = memories[m].owner => memories[l] = memories[m]
    BY <1>2, <1>5
  <2>3. QED
    BY <2>1, <2>2 DEF RememberedOnce
<1>9. Typed
  <2>1. NoTurn \in TurnStates /\ NoTurn.candidates = {} /\ NoTurn.target = None
    BY DEF NoTurn, TurnStates, Attempts
  <2>2. QED
    BY <2>1 DEF Init, Typed, Steps
<1>10. \A t \in Turns : TurnOK(t)
  BY DEF Init, TurnOK, NoTurn, Refusals, Answers
<1>11. \A t \in Turns, a \in Attempts : Fits(t, call[t][a])
  BY DEF Init, Fits, Refusals
<1>12. QED
  BY <1>6, <1>7, <1>8, <1>9, <1>10, <1>11 DEF IInv, Table

LEMMA NextIInv == IInv /\ [Next]_vars => IInv'
<1> SUFFICES ASSUME IInv, [Next]_vars PROVE IInv'
  OBVIOUS
<1>1. ASSUME NEW t \in Turns, Ask(t) \/ Select(t) \/ Client(t) PROVE IInv'
  BY <1>1, AskStep, SelectStep, ClientSteps
<1>2. ASSUME NEW t \in Turns, NEW a \in Attempts, Serve(t, a) PROVE IInv'
  BY <1>2, ReadSteps, InsertStep, ConfirmDuplicateStep, NestedFailsStep, SupersedeStep,
     ConfirmStep, DeleteStep, BusyStep DEF Serve
<1>3. CASE UNCHANGED vars
  BY <1>3 DEF vars, databaseVars, IInv, Typed, Table, RowsTyped, LinksBothWays, RememberedOnce,
     TurnOK, Fits, Meant, Refused, Gone, Ids
<1>4. QED
  BY <1>1, <1>2, <1>3, RestartStep DEF Next

LEMMA Invariant == Spec => []IInv
BY InitIInv, NextIInv, PTL DEF Spec

(* Every row, turn and call keeps its type: no link of a memory and no     *)
(* target of a call ever points outside of the table.                      *)
THEOREM TypeCorrect == Spec => []TypeOK
<1>1. IInv => TypeOK
  <2> SUFFICES ASSUME IInv PROVE TypeOK
    OBVIOUS
  <2> USE SemanticMemoryAssumption
  <2>1. Typed /\ RowsTyped
    BY DEF IInv, Table
  <2>2. /\ Len(memories) <= MaxMemories
        /\ memories \in Seq([state : {"ACTIVE", "SUPERSEDED", "DELETED"},
                             content : Contents \cup {None}, owner : Owners \cup {None},
                             supersedes : Ids \cup {None}, by : Ids \cup {None}])
    <3> DEFINE T == [state : {"ACTIVE", "SUPERSEDED", "DELETED"},
                     content : Contents \cup {None}, owner : Owners \cup {None},
                     supersedes : Ids \cup {None}, by : Ids \cup {None}]
    <3>1. memories \in Seq(Rows) /\ Len(memories) \in Nat /\ Ids = 1 .. Len(memories)
      BY <2>1 DEF RowsTyped, Ids
    <3>2. \A m \in Ids : memories[m] \in T
      <4>1. \A r \in Rows :
              r.supersedes \in Ids \cup {None} /\ r.by \in Ids \cup {None} => r \in T
        BY DEF Rows
      <4>2. \A m \in Ids : /\ memories[m] \in Rows
                            /\ memories[m].supersedes \in Ids \cup {None}
                            /\ memories[m].by \in Ids \cup {None}
        BY <2>1, <3>1 DEF RowsTyped
      <4>3. QED
        BY <4>1, <4>2
    <3>3. memories \in [1 .. Len(memories) -> T]
      BY <3>1, <3>2
    <3> HIDE DEF T
    <3>4. memories \in Seq(T)
      BY <3>1, <3>3
    <3>5. QED
      BY <2>1, <3>4 DEF RowsTyped, T
  <2>3. effects \in [Turns -> 0 .. 2]
    BY <2>1 DEF Typed, IInv, TurnOK
  <2>4. QED
    BY <2>1, <2>2, <2>3 DEF TypeOK, Typed, TurnStates, Steps
<1>2. QED
  BY <1>1, Invariant, PTL

(* What a turn asks for is done at most once however often it is sent, and *)
(* it is told the truth: one told "ok" has its effect committed, and one   *)
(* that was refused does not have it, not even later, from an attempt that *)
(* was given up and is still running.                                      *)
THEOREM ToldTheTruth == Spec => []DoneAsTold
<1>1. IInv => DoneAsTold
  BY DEF IInv, TurnOK, DoneAsTold, Refusals, Refused
<1>2. QED
  BY <1>1, Invariant, PTL

(* Two users, or two attempts, never both replace a memory: the links of   *)
(* the memories that are there name each other.                            *)
THEOREM LinksAreWhole == Spec => []LinksBothWays
<1>1. IInv => LinksBothWays
  BY DEF IInv, Table
<1>2. QED
  BY <1>1, Invariant, PTL

(* Calls that remember the same thing at the same time keep it once,       *)
(* although each looks for a duplicate before the other has written.       *)
THEOREM KeptOnce == Spec => []RememberedOnce
<1>1. IInv => RememberedOnce
  BY DEF IInv, Table
<1>2. QED
  BY <1>1, Invariant, PTL
-----------------------------------------------------------------------------
(* Of the rules of the house.  The table of keys and the rules are written *)
(* in one transaction, so what a key was used for changed them once; and   *)
(* an id is not given again, since the key of the create that gave it is   *)
(* used: so what an attempt found gone the other one does not find either. *)
AllOps == [kind : {"create", "update", "delete"}, id : Nat \cup {None},
           body : Bodies \cup {None}]
Entries ==
  {e \in [id : Rules!Commands, revision : Nat, type : Rules!Range(TypeOrder),
          scope : {"USER", "FAMILY", "SYSTEM"}, owner : Owners \cup {None},
          value : Values, enabled : BOOLEAN] : (e.scope = "USER") <=> (e.owner # None)}
RuleAnswers == {"ok", "conflict", "not_found", "unavailable"}
RuleWrites == [phase : {"idle", "waiting", "told"}, key : Rules!Commands \cup {None},
           op : AllOps \cup {None}, attempt : Rules!Attempts,
           told : RuleAnswers \cup {None}]
Resolutions == [phase : {"idle", "reading", "success", "ambiguous"}, asker : Owners \cup {None},
                left : Seq(Rules!Range(TypeOrder)), found : SUBSET Entries,
                conflicts : SUBSET Rules!Range(TypeOrder)]

RulesTyped ==
  /\ entries \in Seq(Entries)
  /\ opResults \in [Rules!Commands -> AllOps \cup {None}]
  /\ command \in [Rules!Commands -> RuleWrites]
  /\ opCall \in
       [Rules!Commands -> [Rules!Attempts -> {"none", "sent", "ok", "conflict", "not_found"}]]
  /\ lookup \in [Lookups -> Resolutions]
  /\ applied \in [Rules!Commands -> Seq(AllOps)]

(* The create that gives this id is done, and its key is used: the id is   *)
(* not given again.                                                        *)
Spent(id) ==
  id \in Rules!Commands /\ command[id].phase # "idle" /\ opResults[command[id].key] # None

IdsAreSpent == \A i \in DOMAIN entries : Spent(entries[i].id)

MeantRule(op) ==
  /\ op \in AllOps
  /\ op.kind # "create" => Spent(op.id)
  /\ op.kind # "delete" => op.body \in Rules!Valid

(* An answer says what became of the key.                                  *)
Agrees(w, answer) ==
  /\ answer = "ok" => opResults[w.key] = w.op
  /\ answer = "conflict" => opResults[w.key] \notin {None, w.op}
  /\ answer = "not_found" => /\ w.op.kind # "create" /\ w.op.id \notin Rules!Ids
                             /\ opResults[w.key] # w.op

WriteOK(c) ==
  /\ command[c].phase = "idle" => \A n \in Rules!Attempts : opCall[c][n] = "none"
  /\ command[c].phase # "idle" => command[c].key \in Rules!Commands /\ MeantRule(command[c].op)
  /\ \A n \in Rules!Attempts : Agrees(command[c], opCall[c][n])
  /\ command[c].phase = "told" => /\ command[c].told \in RuleAnswers
                                  /\ Agrees(command[c], command[c].told)
WritesOK == \A c \in Rules!Commands : WriteOK(c)

AppliedOK ==
  \A k \in Rules!Commands : applied[k] = IF opResults[k] = None THEN <<>> ELSE <<opResults[k]>>

(* The types still to look up are of nothing that was found.               *)
LookupOK(r) ==
  LET l == lookup[r] IN
  /\ \A i, j \in DOMAIN l.left : l.left[i] = l.left[j] => i = j
  /\ \A e \in l.found : \A i \in DOMAIN l.left : l.left[i] # e.type
LookupsOK == \A r \in Lookups : LookupOK(r)

RulesInv == RulesTyped /\ IdsAreSpent /\ WritesOK /\ AppliedOK /\ LookupsOK

-----------------------------------------------------------------------------
LEMMA NoneIsNoOperation == None \notin AllOps
BY MemoryServiceAssumption DEF Rules!RulesAssumption, AllOps

LEMMA RemovedAt ==
  ASSUME NEW S, NEW s \in Seq(S), NEW i \in 1 .. Len(s)
  PROVE  /\ Rules!RemoveAt(s, i) \in Seq(S)
         /\ \A j \in DOMAIN Rules!RemoveAt(s, i) : \E k \in DOMAIN s : Rules!RemoveAt(s, i)[j] = s[k]
<1> DEFINE l == SubSeq(s, 1, i - 1)
           r == SubSeq(s, i + 1, Len(s))
<1>1. l \in Seq(S) /\ r \in Seq(S) /\ Rules!RemoveAt(s, i) = l \o r
  BY DEF Rules!RemoveAt
<1>2. \A j \in DOMAIN l : \E k \in DOMAIN s : l[j] = s[k]
  BY DEF l
<1>3. \A j \in DOMAIN r : \E k \in DOMAIN s : r[j] = s[k]
  <2> SUFFICES ASSUME NEW j \in DOMAIN r PROVE r[j] = s[i + j] /\ i + j \in DOMAIN s
    OBVIOUS
  <2> QED
    BY DEF r
<1> HIDE DEF l, r
<1>4. ASSUME NEW j \in DOMAIN (l \o r)
      PROVE  (j \in DOMAIN l /\ (l \o r)[j] = l[j])
              \/ (j - Len(l) \in DOMAIN r /\ (l \o r)[j] = r[j - Len(l)])
  BY <1>1
<1> QED
  BY <1>1, <1>2, <1>3, <1>4

(* What an answer says stays so while no key is used and no rule comes     *)
(* that was not there.                                                     *)
LEMMA AgreesStill ==
  ASSUME NEW w, NEW answer, Agrees(w, answer),
         opResults' = opResults, \A i \in DOMAIN entries' : \E j \in DOMAIN entries :
                               entries'[i].id = entries[j].id
  PROVE  Agrees(w, answer)'
BY DEF Agrees, Rules!Ids

LEMMA SpentStill ==
  ASSUME NEW id, Spent(id), opResults' = opResults, command'[id].phase # "idle",
         command'[id].key = command[id].key
  PROVE  Spent(id)'
BY DEF Spent

(* A step of the Router: of one write, and of the rules nothing.           *)
LEMMA CommandsMove ==
  ASSUME RulesInv, UNCHANGED <<entries, opResults, lookup, applied>>, NEW c \in Rules!Commands,
         command' \in [Rules!Commands -> RuleWrites],
         opCall' \in
           [Rules!Commands -> [Rules!Attempts -> {"none", "sent", "ok", "conflict", "not_found"}]],
         \A d \in Rules!Commands : d # c => command'[d] = command[d] /\ opCall'[d] = opCall[d],
         command[c].phase # "idle" => /\ command'[c].phase # "idle"
                                      /\ command'[c].key = command[c].key,
         (\A id : Spent(id) => Spent(id)') => WriteOK(c)'
  PROVE  RulesInv'
<1>1. \A id : Spent(id) => Spent(id)'
  BY SpentStill DEF Spent
<1>2. RulesTyped' /\ IdsAreSpent' /\ AppliedOK'
  BY <1>1 DEF RulesInv, RulesTyped, IdsAreSpent, AppliedOK
<1>3. LookupsOK'
  BY DEF RulesInv, LookupsOK, LookupOK
<1>4. WritesOK'
  <2> SUFFICES ASSUME NEW d \in Rules!Commands, d # c PROVE WriteOK(d)'
    BY <1>1 DEF WritesOK
  <2>1. WriteOK(d)
    BY DEF RulesInv, WritesOK
  <2> QED
    BY <1>1, <2>1 DEF WriteOK, MeantRule, Agrees, Rules!Ids
<1> QED
  BY <1>2, <1>3, <1>4 DEF RulesInv

LEMMA SubmitKeeps == ASSUME RulesInv, NEW c \in Rules!Commands, Rules!Submit(c) PROVE RulesInv'
<1>1. PICK k \in 1 .. c, op \in Rules!Operations :
        command' =
          [command EXCEPT ![c] = [Rules!Idle EXCEPT !.phase = "waiting", !.key = k, !.op = op]]
  BY DEF Rules!Submit
<1>2. /\ opCall' = [opCall EXCEPT ![c][1] = "sent"] /\ command[c].phase = "idle"
      /\ UNCHANGED <<entries, opResults, lookup, applied>>
  BY DEF Rules!Submit
<1>3. k \in Rules!Commands
  BY MemoryServiceAssumption DEF Rules!RulesAssumption, Rules!Commands
<1>4. op \in AllOps /\ (op.kind # "create" => op.id \in Rules!Ids)
       /\ (op.kind # "delete" => op.body \in Rules!Valid)
  <2>1. Rules!Ids \subseteq Nat
    BY DEF RulesInv, RulesTyped, Rules!Ids, Entries, Rules!Commands
  <2> QED
    BY <2>1 DEF Rules!Operations, AllOps
<1> DEFINE w == [phase |-> "waiting", key |-> k, op |-> op, attempt |-> 1, told |-> None]
<1>5. command' = [command EXCEPT ![c] = w] /\ w \in RuleWrites
  <2>1. /\ [Rules!Idle EXCEPT !.phase = "waiting"]
             = [phase |-> "waiting", key |-> None, op |-> None, attempt |-> 1, told |-> None]
        /\ [[phase |-> "waiting", key |-> None, op |-> None, attempt |-> 1, told |-> None]
              EXCEPT !.key = k]
             = [phase |-> "waiting", key |-> k, op |-> None, attempt |-> 1, told |-> None]
        /\ [[phase |-> "waiting", key |-> k, op |-> None, attempt |-> 1, told |-> None]
              EXCEPT !.op = op] = w
    BY DEF Rules!Idle
  <2>2. w \in RuleWrites
    BY <1>3, <1>4 DEF RuleWrites, Rules!Attempts
  <2> QED
    BY <1>1, <2>1, <2>2
<1>6. command' \in [Rules!Commands -> RuleWrites] /\ command'[c] = w
  BY <1>5 DEF RulesInv, RulesTyped
<1> HIDE DEF w
<1>7. \A n \in Rules!Attempts : opCall[c][n] = "none"
  BY <1>2 DEF RulesInv, WritesOK, WriteOK
<1>8. /\ opCall' \in
           [Rules!Commands -> [Rules!Attempts -> {"none", "sent", "ok", "conflict", "not_found"}]]
      /\ \A d \in Rules!Commands : d # c => command'[d] = command[d] /\ opCall'[d] = opCall[d]
      /\ \A n \in Rules!Attempts : opCall'[c][n] \in {"none", "sent"}
  BY <1>2, <1>5, <1>7 DEF RulesInv, RulesTyped, Rules!Attempts
<1>9. ASSUME \A id : Spent(id) => Spent(id)' PROVE WriteOK(c)'
  <2>1. op.kind # "create" => Spent(op.id)'
    BY <1>4, <1>9 DEF Rules!Ids, RulesInv, IdsAreSpent
  <2>2. MeantRule(op)'
    BY <1>4, <2>1 DEF MeantRule
  <2>3. command'[c].phase = "waiting" /\ command'[c].key = k /\ command'[c].op = op
    BY <1>6 DEF w
  <2> QED
    BY <1>3, <1>8, <2>2, <2>3 DEF WriteOK, Agrees
<1> QED
  BY <1>2, <1>6, <1>8, <1>9, CommandsMove

LEMMA TellsKeeps ==
  ASSUME RulesInv, NEW c \in Rules!Commands, NEW answer \in RuleAnswers,
         command[c].phase = "waiting", Rules!Told(c, answer), Agrees(command[c], answer),
         UNCHANGED <<entries, opResults, opCall, lookup, applied>>
  PROVE  RulesInv'
<1>1. command[c] \in RuleWrites /\ WriteOK(c)
  BY DEF RulesInv, RulesTyped, WritesOK
<1> DEFINE w == [[command[c] EXCEPT !.phase = "told"] EXCEPT !.told = answer]
<1>2. command' = [command EXCEPT ![c] = w]
  BY DEF Rules!Told, RulesInv, RulesTyped
<1>3. /\ w \in RuleWrites /\ w.phase = "told" /\ w.key = command[c].key /\ w.op = command[c].op
      /\ w.told = answer
  BY <1>1 DEF RuleWrites
<1> HIDE DEF w
<1>4. /\ command' \in [Rules!Commands -> RuleWrites] /\ command'[c] = w
      /\ \A d \in Rules!Commands : d # c => command'[d] = command[d]
  BY <1>2, <1>3 DEF RulesInv, RulesTyped
<1>5. ASSUME \A id : Spent(id) => Spent(id)' PROVE WriteOK(c)'
  <2> PICK op : op = command[c].op
    OBVIOUS
  <2>1. command[c].key \in Rules!Commands /\ MeantRule(op)'
    BY <1>1, <1>5 DEF WriteOK, MeantRule
  <2>2. command'[c].op = op /\ command'[c].key = command[c].key
         /\ command'[c].phase = "told" /\ command'[c].told = answer
    BY <1>3, <1>4
  <2> QED
    BY <1>1, <2>1, <2>2 DEF WriteOK, Agrees, Rules!Ids
<1> QED
  BY <1>3, <1>4, <1>5, CommandsMove DEF RulesInv, RulesTyped

LEMMA UnansweredKeeps ==
  ASSUME RulesInv, NEW c \in Rules!Commands, Rules!Unanswered(c)
  PROVE  RulesInv'
<1>1. CASE command[c].attempt = 1
  <2>1. /\ command' = [command EXCEPT ![c].attempt = 2] /\ opCall' = [opCall EXCEPT ![c][2] = "sent"]
        /\ command[c].phase = "waiting" /\ UNCHANGED <<entries, opResults, lookup, applied>>
    BY <1>1 DEF Rules!Unanswered
  <2>2. command[c] \in RuleWrites /\ WriteOK(c)
    BY DEF RulesInv, RulesTyped, WritesOK
  <2> PICK w, v : w = command[c] /\ v = [command[c] EXCEPT !.attempt = 2]
    OBVIOUS
  <2>3. /\ v \in RuleWrites /\ v.phase = "waiting" /\ v.key = w.key /\ v.op = w.op
    BY <2>1, <2>2 DEF RuleWrites, Rules!Attempts
  <2>4. /\ command' \in [Rules!Commands -> RuleWrites] /\ command'[c] = v
        /\ opCall' \in
             [Rules!Commands -> [Rules!Attempts -> {"none", "sent", "ok", "conflict", "not_found"}]]
        /\ \A d \in Rules!Commands : d # c => command'[d] = command[d] /\ opCall'[d] = opCall[d]
        /\ \A n \in Rules!Attempts : opCall'[c][n] \in {opCall[c][n], "sent"}
    BY <2>1, <2>3 DEF RulesInv, RulesTyped, Rules!Attempts
  <2>5. ASSUME \A id : Spent(id) => Spent(id)' PROVE WriteOK(c)'
    <3> PICK op : op = w.op
      OBVIOUS
    <3>1. w.key \in Rules!Commands /\ MeantRule(op)'
      BY <2>1, <2>2, <2>5 DEF WriteOK, MeantRule
    <3>2. \A n \in Rules!Attempts : Agrees(w, opCall[c][n])
      BY <2>2 DEF WriteOK
    <3>3. ASSUME NEW n \in Rules!Attempts PROVE Agrees(command[c], opCall[c][n])'
      BY <2>1, <2>3, <2>4, <3>2 DEF Agrees, Rules!Ids
    <3> QED
      BY <2>3, <2>4, <3>1, <3>3 DEF WriteOK
  <2> QED
    BY <2>1, <2>3, <2>4, <2>5, CommandsMove
<1>2. CASE command[c].attempt # 1
  <2>1. Rules!Told(c, "unavailable") /\ command[c].phase = "waiting"
         /\ UNCHANGED <<entries, opResults, opCall, lookup, applied>>
    BY <1>2 DEF Rules!Unanswered
  <2> QED
    BY <2>1, TellsKeeps DEF Agrees, RuleAnswers
<1> QED
  BY <1>1, <1>2

LEMMA AnsweredKeeps ==
  ASSUME RulesInv, NEW c \in Rules!Commands, Rules!Answered(c)
  PROVE  RulesInv'
<1>1. command[c] \in RuleWrites /\ WriteOK(c)
  BY DEF RulesInv, RulesTyped, WritesOK
<1>2. command[c].attempt \in Rules!Attempts
  BY <1>1 DEF RuleWrites
<1>3. opCall[c][command[c].attempt] \in RuleAnswers
  BY <1>2 DEF Rules!Answered, RulesInv, RulesTyped, RuleAnswers
<1> QED
  BY <1>1, <1>2, <1>3, TellsKeeps DEF Rules!Answered, WriteOK

(* An attempt that found its key used, or its rule gone.                   *)
LEMMA RefusalKeeps ==
  ASSUME RulesInv, NEW c \in Rules!Commands, NEW n \in Rules!Attempts, opCall[c][n] = "sent",
         NEW answer \in {"ok", "conflict", "not_found"}, Rules!Finish(c, n, answer),
         Agrees(command[c], answer),
         UNCHANGED <<entries, opResults, command, lookup, applied>>
  PROVE  RulesInv'
<1>1. /\ opCall' \in
           [Rules!Commands -> [Rules!Attempts -> {"none", "sent", "ok", "conflict", "not_found"}]]
      /\ \A d \in Rules!Commands : d # c => opCall'[d] = opCall[d]
      /\ \A a \in Rules!Attempts : opCall'[c][a] = IF a = n THEN answer ELSE opCall[c][a]
  BY DEF RulesInv, RulesTyped, Rules!Finish
<1>2. command[c] \in RuleWrites /\ WriteOK(c) /\ command[c].phase # "idle"
  BY DEF RulesInv, RulesTyped, WritesOK, WriteOK
<1>3. ASSUME \A id : Spent(id) => Spent(id)' PROVE WriteOK(c)'
  <2>1. MeantRule(command[c].op)'
    BY <1>2 DEF WriteOK, MeantRule, Spent
  <2>2. \A a \in Rules!Attempts : Agrees(command[c], opCall[c][a])'
    BY <1>1, <1>2 DEF WriteOK, Agrees, Rules!Ids
  <2> QED
    BY <1>2, <2>1, <2>2 DEF WriteOK, Agrees, Rules!Ids
<1> QED
  BY <1>1, <1>3, CommandsMove DEF RulesInv, RulesTyped

LEMMA RowOf ==
  ASSUME NEW id \in Rules!Commands, NEW body \in Rules!Valid, NEW revision \in Nat
  PROVE  Rules!Row(id, body, revision) \in Entries /\ Rules!Row(id, body, revision).id = id
BY DEF Rules!Row, Entries, Rules!Valid

(* The rules after a write are those before, and that of a create.         *)
LEMMA ChangedIs ==
  ASSUME RulesInv, NEW c \in Rules!Commands, NEW op, MeantRule(op), Rules!Changed(c, op),
         op.kind = "create" \/ op.id \in Rules!Ids
  PROVE  /\ entries' \in Seq(Entries)
         /\ \A i \in DOMAIN entries' :
              \/ \E j \in DOMAIN entries : entries'[i].id = entries[j].id
              \/ op.kind = "create" /\ entries'[i].id = c
<1> USE DEF RulesInv, RulesTyped, MeantRule, AllOps
<1>1. CASE op.kind = "create"
  <2>1. Rules!Row(c, op.body, 1) \in Entries /\ Rules!Row(c, op.body, 1).id = c
    BY <1>1, RowOf
  <2>2. entries' = Append(entries, Rules!Row(c, op.body, 1))
    BY <1>1 DEF Rules!Changed, Rules!Created
  <2> QED
    BY <1>1, <2>1, <2>2
<1>2. CASE op.kind \in {"update", "delete"}
  <2>1. PICK i \in DOMAIN entries : i = Rules!Position(op.id) /\ entries[i].id = op.id
    BY <1>2 DEF Rules!Ids, Rules!Position
  <2>2. entries[i] \in Entries /\ entries[i].id \in Rules!Commands /\ entries[i].revision \in Nat
    BY DEF Entries
  <2>3. CASE op.kind = "update"
    <3>1. entries' = [entries EXCEPT ![i] = Rules!Row(op.id, op.body, entries[i].revision + 1)]
      BY <2>1, <2>3 DEF Rules!Changed, Rules!Updated
    <3>2. Rules!Row(op.id, op.body, entries[i].revision + 1) \in Entries
           /\ Rules!Row(op.id, op.body, entries[i].revision + 1).id = op.id
      BY <2>1, <2>2, <2>3, RowOf
    <3> QED
      BY <2>1, <3>1, <3>2
  <2>4. CASE op.kind = "delete"
    <3>1. entries' = Rules!RemoveAt(entries, i)
      BY <2>1, <2>4 DEF Rules!Changed, Rules!Deleted
    <3>2. i \in 1 .. Len(entries)
      OBVIOUS
    <3>3. /\ Rules!RemoveAt(entries, i) \in Seq(Entries)
          /\ \A j \in DOMAIN Rules!RemoveAt(entries, i) :
               \E k \in DOMAIN entries : Rules!RemoveAt(entries, i)[j] = entries[k]
      BY <3>2, RemovedAt
    <3> QED
      BY <3>1, <3>3
  <2> QED
    BY <1>2, <2>3, <2>4
<1> QED
  BY <1>1, <1>2

LEMMA WriteKeeps ==
  ASSUME RulesInv, NEW c \in Rules!Commands, NEW n \in Rules!Attempts, opCall[c][n] = "sent",
         Rules!Write(c, n),
         UNCHANGED <<command, lookup, silences>>
  PROVE  RulesInv'
<1> PICK k, op : k = command[c].key /\ op = command[c].op
  OBVIOUS
<1>1. /\ command[c] \in RuleWrites /\ WriteOK(c) /\ command[c].phase # "idle"
      /\ k \in Rules!Commands /\ op \in AllOps /\ MeantRule(op)
  BY DEF RulesInv, RulesTyped, WritesOK, WriteOK, MeantRule
<1>2. /\ opResults[k] = None
      /\ op.kind = "create" \/ op.id \in Rules!Ids
      /\ Rules!Changed(c, op) /\ opResults' = [opResults EXCEPT ![k] = op]
      /\ applied' = [applied EXCEPT ![k] = Append(@, op)] /\ Rules!Finish(c, n, "ok")
  BY DEF Rules!Write
<1>3. /\ entries' \in Seq(Entries)
      /\ \A i \in DOMAIN entries' :
           \/ \E j \in DOMAIN entries : entries'[i].id = entries[j].id
           \/ op.kind = "create" /\ entries'[i].id = c
  BY <1>1, <1>2, ChangedIs
<1>4. op # None
  BY <1>1, NoneIsNoOperation
<1>5. /\ opResults' \in [Rules!Commands -> AllOps \cup {None}]
      /\ \A j \in Rules!Commands : opResults'[j] = IF j = k THEN op ELSE opResults[j]
  BY <1>1, <1>2 DEF RulesInv, RulesTyped
<1>6. /\ opCall' \in
           [Rules!Commands -> [Rules!Attempts -> {"none", "sent", "ok", "conflict", "not_found"}]]
      /\ \A d \in Rules!Commands, a \in Rules!Attempts :
           opCall'[d][a] = IF d = c /\ a = n THEN "ok" ELSE opCall[d][a]
  BY <1>2 DEF RulesInv, RulesTyped, Rules!Finish
<1>7. applied[k] = <<>>
  BY <1>1, <1>2 DEF RulesInv, AppliedOK
<1>8. /\ applied' \in [Rules!Commands -> Seq(AllOps)]
      /\ \A j \in Rules!Commands : applied'[j] = IF j = k THEN <<op>> ELSE applied[j]
  <2>1. Append(<<>>, op) = <<op>> /\ <<op>> \in Seq(AllOps)
    BY <1>1
  <2> QED
    BY <1>1, <1>2, <1>7, <2>1 DEF RulesInv, RulesTyped
<1>9. \A d \in Rules!Commands : command[d].phase # "idle" => command[d].key \in Rules!Commands
  BY DEF RulesInv, WritesOK, WriteOK
<1>10. \A id : Spent(id) => Spent(id)'
  BY <1>4, <1>5, <1>9 DEF Spent
<1>11. Spent(c)' /\ ~Spent(c)
  BY <1>1, <1>2, <1>4, <1>5 DEF Spent
<1>12. IdsAreSpent'
  BY <1>3, <1>10, <1>11 DEF RulesInv, IdsAreSpent
<1>13. AppliedOK'
  BY <1>1, <1>4, <1>5, <1>8 DEF RulesInv, AppliedOK
<1>14. ASSUME NEW d \in Rules!Commands, command[d].phase # "idle", NEW answer,
              Agrees(command[d], answer)
       PROVE  Agrees(command[d], answer)'
  <2> PICK j, o : j = command[d].key /\ o = command[d].op
    OBVIOUS
  <2>1. j \in Rules!Commands /\ MeantRule(o) /\ o \in AllOps
    BY <1>14 DEF RulesInv, WritesOK, WriteOK, MeantRule
  <2>2. answer = "ok" => opResults'[j] = o
    BY <1>2, <1>5, <1>14, <2>1, NoneIsNoOperation DEF Agrees
  <2>3. answer = "conflict" => opResults'[j] \notin {None, o}
    BY <1>2, <1>5, <1>14, <2>1 DEF Agrees
  <2>4. ASSUME answer = "not_found"
        PROVE  o.kind # "create" /\ o.id \notin Rules!Ids' /\ opResults'[j] # o
    <3>1. o.kind # "create" /\ o.id \notin Rules!Ids /\ opResults[j] # o
      BY <1>14, <2>4 DEF Agrees
    <3>2. o.id # c
      BY <1>11, <2>1, <3>1 DEF MeantRule
    <3>3. o.id \notin Rules!Ids'
      BY <1>3, <3>1, <3>2 DEF Rules!Ids
    <3>4. op # o
      BY <1>2, <3>1
    <3> QED
      BY <1>5, <2>1, <3>1, <3>3, <3>4
  <2> QED
    BY <2>2, <2>3, <2>4 DEF Agrees
<1>15. WritesOK'
  <2> SUFFICES ASSUME NEW d \in Rules!Commands PROVE WriteOK(d)'
    BY DEF WritesOK
  <2>1. WriteOK(d)
    BY DEF RulesInv, WritesOK
  <2>2. CASE command[d].phase = "idle"
    <3>1. \A a \in Rules!Attempts : opCall'[d][a] = "none"
      BY <1>1, <1>6, <2>1, <2>2 DEF WriteOK
    <3> QED
      BY <2>2, <3>1 DEF WriteOK, Agrees
  <2>3. CASE command[d].phase # "idle"
    <3> PICK o : o = command[d].op
      OBVIOUS
    <3>1. MeantRule(o)'
      BY <1>10, <2>1, <2>3 DEF WriteOK, MeantRule
    <3>2. ASSUME NEW a \in Rules!Attempts PROVE Agrees(command[d], opCall[d][a])'
      <4>1. PICK answer : answer = opCall'[d][a]
        OBVIOUS
      <4>2. CASE d = c /\ a = n
        BY <1>1, <1>5, <1>6, <4>2 DEF Agrees
      <4>3. CASE ~(d = c /\ a = n)
        <5>1. Agrees(command[d], answer)
          BY <1>6, <2>1, <4>1, <4>3 DEF WriteOK
        <5> QED
          BY <1>14, <2>3, <4>1, <5>1 DEF Agrees
      <4> QED
        BY <4>2, <4>3
    <3>3. command[d].phase = "told" => Agrees(command[d], command[d].told)'
      <4> PICK answer : answer = command[d].told
        OBVIOUS
      <4> QED
        BY <1>14, <2>1, <2>3 DEF WriteOK, Agrees
    <3> QED
      BY <2>1, <2>3, <3>1, <3>2, <3>3 DEF WriteOK
  <2> QED
    BY <2>2, <2>3
<1>16. RulesTyped' /\ LookupsOK'
  BY <1>3, <1>5, <1>6, <1>8 DEF RulesInv, RulesTyped, LookupsOK, LookupOK
<1> QED
  BY <1>12, <1>13, <1>15, <1>16 DEF RulesInv

LEMMA RunKeeps ==
  ASSUME RulesInv, NEW c \in Rules!Commands, NEW n \in Rules!Attempts, Rules!Run(c, n)
  PROVE  RulesInv'
<1>1. opCall[c][n] = "sent" /\ UNCHANGED <<command, lookup, silences>>
  BY DEF Rules!Run
<1>2. command[c] \in RuleWrites /\ WriteOK(c) /\ command[c].phase # "idle"
  BY <1>1 DEF RulesInv, RulesTyped, WritesOK, WriteOK
<1>3. CASE Rules!Replay(c, n)
  <2>1. CASE opResults[command[c].key] = command[c].op
    BY <1>1, <1>3, <2>1, RefusalKeeps DEF Rules!Replay, Agrees
  <2>2. CASE opResults[command[c].key] # command[c].op
    BY <1>1, <1>3, <2>2, RefusalKeeps DEF Rules!Replay, Agrees
  <2> QED
    BY <2>1, <2>2
<1>4. CASE Rules!Missing(c, n)
  <2>1. opResults[command[c].key] # command[c].op
    BY <1>2, <1>4, NoneIsNoOperation DEF Rules!Missing, WriteOK, MeantRule
  <2> QED
    BY <1>1, <1>4, <2>1, RefusalKeeps DEF Rules!Missing, Agrees
<1>5. CASE Rules!Write(c, n)
  BY <1>1, <1>5, WriteKeeps
<1> QED
  BY <1>3, <1>4, <1>5 DEF Rules!Run

(* A step of a turn leaves all rules and writes alone.                     *)
LEMMA LookupsMove ==
  ASSUME RulesInv, UNCHANGED <<entries, opResults, command, opCall, applied>>, NEW r \in Lookups,
         lookup' \in [Lookups -> Resolutions], \A q \in Lookups : q # r => lookup'[q] = lookup[q],
         LookupOK(r)'
  PROVE  RulesInv'
<1>1. RulesTyped' /\ IdsAreSpent' /\ AppliedOK' /\ WritesOK'
  BY DEF RulesInv, RulesTyped, IdsAreSpent, AppliedOK, WritesOK, WriteOK, MeantRule, Agrees,
         Rules!Ids, Spent
<1>2. LookupsOK'
  BY DEF RulesInv, LookupsOK, LookupOK
<1> QED
  BY <1>1, <1>2 DEF RulesInv

LEMMA ResolveKeeps == ASSUME RulesInv, NEW r \in Lookups, Rules!Resolve(r) PROVE RulesInv'
<1>1. PICK asker \in Owners \cup {None} :
        lookup' = [lookup EXCEPT ![r] =
          [phase |-> "reading", asker |-> asker, left |-> TypeOrder, found |-> {},
           conflicts |-> {}]]
  BY DEF Rules!Resolve
<1> DEFINE new == [phase |-> "reading", asker |-> asker, left |-> TypeOrder, found |-> {},
                   conflicts |-> {}]
<1>3. new \in Resolutions
  BY MemoryServiceAssumption DEF Rules!RulesAssumption, Resolutions
<1>4. /\ lookup' \in [Lookups -> Resolutions] /\ lookup'[r] = new
      /\ \A q \in Lookups : q # r => lookup'[q] = lookup[q]
  BY <1>1, <1>3 DEF RulesInv, RulesTyped
<1>5. LookupOK(r)'
  BY <1>4, MemoryServiceAssumption DEF Rules!RulesAssumption, LookupOK
<1> QED
  BY <1>4, <1>5, LookupsMove DEF Rules!Resolve

LEMMA FirstIs ==
  ASSUME NEW S, S \subseteq Nat, S # {}
  PROVE  Rules!First(S) \in S
<1> DEFINE R == {ss \in Nat \X Nat : ss[1] < ss[2]}
<1>1. IsWellFoundedOn(R, Nat)
  BY NatLessThanWellFounded, Zenon DEF OpToRel
<1>4. \A x, y \in Nat : <<y, x>> \in R <=> y < x
  OBVIOUS
<1> HIDE DEF R
<1>2. PICK x \in S : \A y \in S : ~(<<y, x>> \in R)
  BY <1>1, WFMin
<1>3. ASSUME NEW y \in S PROVE x <= y
  <2>1. x \in Nat /\ y \in Nat /\ ~(y < x)
    BY <1>2, <1>4
  <2> QED
    BY <2>1
<1> QED
  BY <1>3 DEF Rules!First

(* What a lookup finds: a rule of its type, if any.                        *)
LEMMA LookUpIs ==
  ASSUME RulesInv, NEW r \in Lookups, Rules!LookUp(r)
  PROVE  LET type == Head(lookup[r].left)
             candidates == Rules!Candidates(lookup[r].asker, type)
             agree == \A i, j \in candidates : entries[i].value = entries[j].value
             new == lookup'[r].found \ lookup[r].found
         IN /\ lookup' \in [Lookups -> Resolutions]
            /\ \A q \in Lookups : q # r => lookup'[q] = lookup[q]
            /\ lookup'[r].left = Tail(lookup[r].left)
            /\ lookup'[r].found = lookup[r].found \cup new
            /\ new \subseteq {entries[i] : i \in candidates}
            /\ new = {} <=> candidates = {} \/ ~agree
            /\ \A e \in new : e \in Entries /\ e.type = type
<1> DEFINE l == lookup[r]
           type == Head(l.left)
           candidates == Rules!Candidates(l.asker, type)
           agree == \A i, j \in candidates : entries[i].value = entries[j].value
           found == IF agree /\ candidates # {} THEN {entries[Rules!First(candidates)]} ELSE {}
<1>1. l \in Resolutions /\ l.left \in Seq(Rules!Range(TypeOrder)) /\ l.left # <<>>
  BY DEF RulesInv, RulesTyped, Resolutions, Rules!LookUp
<1>2. type \in Rules!Range(TypeOrder) /\ Tail(l.left) \in Seq(Rules!Range(TypeOrder)) /\ type = l.left[1]
       /\ 1 \in DOMAIN l.left
  BY <1>1
<1>3. candidates \subseteq DOMAIN entries /\ \A i \in candidates : entries[i].type = type
  BY DEF Rules!Candidates, Rules!FirstOf, Rules!OfScope, Rules!Selected
<1>4. candidates \subseteq Nat /\ entries \in Seq(Entries)
  BY <1>3 DEF RulesInv, RulesTyped
<1>5. candidates # {} => Rules!First(candidates) \in candidates
  BY <1>4, FirstIs
<1>6. \A e \in found : e \in Entries /\ e.type = type /\ e \notin l.found
  <2> SUFFICES ASSUME NEW e \in found PROVE e \in Entries /\ e.type = type /\ e \notin l.found
    OBVIOUS
  <2>1. Rules!First(candidates) \in candidates /\ e = entries[Rules!First(candidates)]
    BY <1>5
  <2>2. e \in Entries /\ e.type = type
    BY <1>3, <1>4, <2>1
  <2>3. LookupOK(r)
    BY DEF RulesInv, LookupsOK
  <2> QED
    BY <1>2, <2>2, <2>3 DEF LookupOK
<1>7. found \subseteq {entries[i] : i \in candidates} /\ (found = {} <=> candidates = {} \/ ~agree)
  BY <1>5
<1>8. PICK conflicts, v :
        /\ conflicts \in SUBSET Rules!Range(TypeOrder)
        /\ v = [[[l EXCEPT !.left = Tail(@)] EXCEPT !.found = @ \cup found]
                  EXCEPT !.conflicts = conflicts]
        /\ lookup' = [lookup EXCEPT ![r] = v]
  <2>1. lookup' = [lookup EXCEPT
          ![r].left = Tail(@),
          ![r].found = @ \cup found,
          ![r].conflicts = IF agree THEN @ ELSE @ \cup {type}]
    BY DEF Rules!LookUp
  <2> HIDE DEF found, agree, type
  <2>2. PICK conflicts : conflicts = IF agree THEN l.conflicts ELSE l.conflicts \cup {type}
    OBVIOUS
  <2>3. conflicts \in SUBSET Rules!Range(TypeOrder)
    BY <1>1, <1>2, <2>2 DEF Resolutions
  <2>4. lookup' = [lookup EXCEPT ![r] = [[[l EXCEPT !.left = Tail(@)] EXCEPT !.found = @ \cup found]
                  EXCEPT !.conflicts = conflicts]]
    BY <1>1, <2>1, <2>2 DEF RulesInv, RulesTyped, Resolutions
  <2> QED
    BY <2>3, <2>4
<1> HIDE DEF found, agree, type, candidates
<1>9. v \in Resolutions /\ v.left = Tail(l.left) /\ v.found = l.found \cup found
  <2>1. /\ [l EXCEPT !.left = Tail(@)] \in Resolutions
        /\ [l EXCEPT !.left = Tail(@)].left = Tail(l.left)
        /\ [l EXCEPT !.left = Tail(@)].found = l.found
    BY <1>1, <1>2 DEF Resolutions
  <2> PICK w : w = [l EXCEPT !.left = Tail(@)]
    OBVIOUS
  <2>2. /\ [w EXCEPT !.found = @ \cup found] \in Resolutions
        /\ [w EXCEPT !.found = @ \cup found].left = Tail(l.left)
        /\ [w EXCEPT !.found = @ \cup found].found = l.found \cup found
    BY <1>6, <2>1 DEF Resolutions
  <2> PICK u : u = [w EXCEPT !.found = @ \cup found]
    OBVIOUS
  <2>3. /\ [u EXCEPT !.conflicts = conflicts] \in Resolutions
        /\ [u EXCEPT !.conflicts = conflicts].left = Tail(l.left)
        /\ [u EXCEPT !.conflicts = conflicts].found = l.found \cup found
    BY <1>8, <2>2 DEF Resolutions
  <2> QED
    BY <1>8, <2>3
<1>10. /\ lookup' \in [Lookups -> Resolutions] /\ lookup'[r] = v
       /\ \A q \in Lookups : q # r => lookup'[q] = lookup[q]
  BY <1>8, <1>9 DEF RulesInv, RulesTyped
<1>11. lookup'[r].found \ l.found = found
  BY <1>6, <1>9, <1>10
<1> QED
  BY <1>6, <1>7, <1>9, <1>10, <1>11 DEF found, agree, type, candidates

LEMMA LookUpKeeps == ASSUME RulesInv, NEW r \in Lookups, Rules!LookUp(r) PROVE RulesInv'
<1>1. PICK type, new, left :
        /\ left = lookup[r].left /\ type = Head(left)
        /\ lookup' \in [Lookups -> Resolutions]
        /\ \A q \in Lookups : q # r => lookup'[q] = lookup[q]
        /\ lookup'[r].left = Tail(left)
        /\ lookup'[r].found = lookup[r].found \cup new
        /\ \A e \in new : e.type = type
  <2>1. /\ lookup' \in [Lookups -> Resolutions]
        /\ \A q \in Lookups : q # r => lookup'[q] = lookup[q]
        /\ lookup'[r].left = Tail(lookup[r].left)
        /\ lookup'[r].found = lookup[r].found \cup (lookup'[r].found \ lookup[r].found)
        /\ \A e \in lookup'[r].found \ lookup[r].found : e.type = Head(lookup[r].left)
    BY LookUpIs
  <2> QED
    BY <2>1
<1>2. left \in Seq(Rules!Range(TypeOrder)) /\ left # <<>> /\ LookupOK(r)
  BY <1>1 DEF RulesInv, RulesTyped, Resolutions, Rules!LookUp, LookupsOK
<1>3. \A i \in DOMAIN Tail(left) : i + 1 \in DOMAIN left /\ Tail(left)[i] = left[i + 1] /\ i \in Nat
                                    /\ i > 0
  BY <1>2
<1>4. LookupOK(r)'
  <2>1. ASSUME NEW i \in DOMAIN Tail(left), NEW j \in DOMAIN Tail(left), Tail(left)[i] = Tail(left)[j]
        PROVE  i = j
    <3>1. left[i + 1] = left[j + 1] /\ i + 1 \in DOMAIN left /\ j + 1 \in DOMAIN left
      BY <1>3, <2>1
    <3>2. i + 1 = j + 1 /\ i \in Nat /\ j \in Nat
      BY <1>1, <1>2, <1>3, <3>1 DEF LookupOK
    <3> QED
      BY <3>2
  <2>2. ASSUME NEW e \in lookup'[r].found, NEW i \in DOMAIN Tail(left) PROVE Tail(left)[i] # e.type
    <3>1. CASE e \in lookup[r].found
      BY <1>1, <1>2, <1>3, <3>1 DEF LookupOK
    <3>2. CASE e \in new
      <4>1. e.type = left[1] /\ 1 \in DOMAIN left /\ i + 1 # 1
        BY <1>1, <1>2, <1>3, <3>2
      <4> QED
        BY <1>1, <1>2, <1>3, <4>1 DEF LookupOK
    <3> QED
      BY <1>1, <3>1, <3>2
  <2> QED
    BY <1>1, <2>1, <2>2 DEF LookupOK
<1> QED
  BY <1>1, <1>4, LookupsMove DEF Rules!LookUp

LEMMA ResolvedKeeps == ASSUME RulesInv, NEW r \in Lookups, Rules!Resolved(r) PROVE RulesInv'
<1>1. lookup[r] \in Resolutions /\ LookupOK(r)
  BY DEF RulesInv, RulesTyped, LookupsOK
<1>2. PICK outcome \in {"success", "ambiguous"} :
        lookup' = [lookup EXCEPT ![r] = [lookup[r] EXCEPT !.phase = outcome]]
  BY DEF Rules!Resolved, RulesInv, RulesTyped
<1>3. LET v == [lookup[r] EXCEPT !.phase = outcome]
      IN v \in Resolutions /\ v.left = lookup[r].left /\ v.found = lookup[r].found
  BY <1>1 DEF Resolutions
<1>4. /\ lookup' \in [Lookups -> Resolutions] /\ \A q \in Lookups : q # r => lookup'[q] = lookup[q]
      /\ lookup'[r].left = lookup[r].left /\ lookup'[r].found = lookup[r].found
  BY <1>2, <1>3 DEF RulesInv, RulesTyped
<1>5. LookupOK(r)'
  BY <1>1, <1>4 DEF LookupOK
<1> QED
  BY <1>4, <1>5, LookupsMove DEF Rules!Resolved

-----------------------------------------------------------------------------
LEMMA RulesInit == Rules!OpInit => RulesInv
<1> SUFFICES ASSUME Rules!OpInit PROVE RulesInv
  OBVIOUS
<1>1. RulesTyped
  <2>1. Rules!Idle \in RuleWrites /\ Rules!NoLookup \in Resolutions
    BY DEF Rules!Idle, Rules!NoLookup, RuleWrites, Resolutions, Rules!Attempts
  <2> QED
    BY <2>1 DEF Rules!OpInit, RulesTyped
<1>2. IdsAreSpent /\ AppliedOK /\ LookupsOK
  BY DEF Rules!OpInit, IdsAreSpent, AppliedOK, LookupsOK, LookupOK, Rules!NoLookup
<1>3. WritesOK
  BY DEF Rules!OpInit, WritesOK, WriteOK, Agrees, Rules!Idle
<1> QED
  BY <1>1, <1>2, <1>3 DEF RulesInv

LEMMA RulesNext == RulesInv /\ [Rules!OpNext]_Rules!opVars => RulesInv'
<1> SUFFICES ASSUME RulesInv, [Rules!OpNext]_Rules!opVars PROVE RulesInv'
  OBVIOUS
<1>1. CASE \E c \in Rules!Commands : Rules!Submit(c) \/ Rules!Answered(c) \/ Rules!Unanswered(c)
  BY <1>1, SubmitKeeps, AnsweredKeeps, UnansweredKeeps
<1>2. CASE \E c \in Rules!Commands, n \in Rules!Attempts : Rules!Run(c, n)
  BY <1>2, RunKeeps
<1>3. CASE \E r \in Lookups : Rules!Resolve(r) \/ Rules!LookUp(r) \/ Rules!Resolved(r)
  BY <1>3, ResolveKeeps, LookUpKeeps, ResolvedKeeps
<1>4. CASE UNCHANGED Rules!opVars
  BY <1>4
     DEF Rules!opVars, RulesInv, RulesTyped, IdsAreSpent, AppliedOK, WritesOK, WriteOK,
         MeantRule, Agrees,
              Rules!Ids, Spent, LookupsOK, LookupOK
<1> QED
  BY <1>1, <1>2, <1>3, <1>4 DEF Rules!OpNext

LEMMA RulesInvHolds == Rules!OpSpec => []RulesInv
BY RulesInit, RulesNext, PTL DEF Rules!OpSpec

(* A write that is told "ok" changed the rules once, one that is refused   *)
(* changed nothing, and one without an answer changed them once at most.   *)
THEOREM ToldOnce == Rules!OpSpec => []ToldIsApplied
<1>1. RulesInv => ToldIsApplied
  <2> SUFFICES ASSUME RulesInv, NEW c \in Rules!Commands, command[c].phase = "told"
               PROVE  LET w == command[c] IN
                      CASE w.told = "ok" -> applied[w.key] = <<w.op>>
                        [] w.told \in {"not_found", "conflict"} -> w.op \notin Rules!Range(applied[w.key])
                        [] w.told = "unavailable" -> Len(applied[w.key]) <= 1
    BY DEF ToldIsApplied, Rules!ToldIsApplied
  <2> PICK k, op, answer : k = command[c].key /\ op = command[c].op /\ answer = command[c].told
    OBVIOUS
  <2>1. WriteOK(c) /\ k \in Rules!Commands /\ answer \in RuleAnswers /\ op \in AllOps
         /\ Agrees(command[c], answer)
    BY DEF RulesInv, WritesOK, WriteOK, MeantRule
  <2>2. applied[k] = IF opResults[k] = None THEN <<>> ELSE <<opResults[k]>>
    BY <2>1 DEF RulesInv, AppliedOK
  <2>3. answer = "ok" => applied[k] = <<op>>
    BY <2>1, <2>2, NoneIsNoOperation DEF Agrees
  <2>4. answer \in {"not_found", "conflict"} => opResults[k] # op
    BY <2>1 DEF Agrees
  <2>5. opResults[k] # op => op \notin Rules!Range(applied[k])
    BY <2>2 DEF Rules!Range
  <2>6. Len(applied[k]) <= 1
    BY <2>2
  <2> QED
    BY <2>1, <2>3, <2>4, <2>5, <2>6 DEF RuleAnswers
<1> QED
  BY <1>1, RulesInvHolds, PTL

(* Who is nearest, by the first scope that has a rule.                     *)
LEMMA CandidatesAreNearest ==
  ASSUME RulesInv, NEW asker \in Owners \cup {None}, NEW type
  PROVE  Rules!Nearest(asker, type) = {entries[i] : i \in Rules!Candidates(asker, type)}
<1> DEFINE rows == Rules!Selected(asker, type)
           mine == {e \in Rules!Range(entries) : e.type = type /\ e.enabled /\ Rules!Sees(asker, e)}
<1>1. \A i \in DOMAIN entries : entries[i] \in Entries
  BY DEF RulesInv, RulesTyped
<1>2. \A i \in DOMAIN entries : i \in rows <=> entries[i] \in mine
  <2> SUFFICES ASSUME NEW i \in DOMAIN entries PROVE i \in rows <=> entries[i] \in mine
    OBVIOUS
  <2> PICK e : e = entries[i]
    OBVIOUS
  <2>1. e \in Entries /\ e \in Rules!Range(entries)
    BY <1>1 DEF Rules!Range
  <2>2. (e.scope # "USER" \/ (asker # None /\ e.owner = asker)) <=> Rules!Sees(asker, e)
    BY <2>1 DEF Rules!Sees, Entries
  <2>3. i \in rows <=> e.type = type /\ e.enabled
                        /\ (e.scope # "USER" \/ (asker # None /\ e.owner = asker))
    BY DEF Rules!Selected
  <2> QED
    BY <2>1, <2>2, <2>3
<1>3. mine = {entries[i] : i \in rows}
  <2>1. \A e \in mine : \E i \in DOMAIN entries : e = entries[i]
    BY DEF Rules!Range
  <2>2. rows \subseteq DOMAIN entries
    BY DEF Rules!Selected
  <2> QED
    BY <1>2, <2>1, <2>2
<1>4. Rules!Nearest(asker, type) = {e \in mine : \A f \in mine : Rules!Distance(e) <= Rules!Distance(f)}
  BY DEF Rules!Nearest
<1>5. rows \subseteq DOMAIN entries
  BY DEF Rules!Selected
<1> HIDE DEF mine, rows
<1>6. \A i \in rows : /\ entries[i].scope \in {"USER", "FAMILY", "SYSTEM"}
                      /\ entries[i].scope = "USER" => Rules!Distance(entries[i]) = 0
                      /\ entries[i].scope = "FAMILY" => Rules!Distance(entries[i]) = 1
                      /\ entries[i].scope = "SYSTEM" => Rules!Distance(entries[i]) = 2
  BY <1>1, <1>5 DEF Entries, Rules!Distance
<1>7. \A i \in rows : i \in Rules!Candidates(asker, type) <=>
        \A j \in rows : Rules!Distance(entries[i]) <= Rules!Distance(entries[j])
  BY <1>6 DEF Rules!Candidates, Rules!FirstOf, Rules!OfScope, rows
<1>8. Rules!Candidates(asker, type) \subseteq rows
  BY DEF Rules!Candidates, Rules!FirstOf, Rules!OfScope, rows
<1> QED
  BY <1>3, <1>4, <1>7, <1>8

(* What a turn finds of a type is the nearest rule that is enabled for it  *)
(* when it looks, whatever the Admin writes between two lookups.           *)
THEOREM NearestIsFound == Rules!OpSpec => FindsTheNearest
<1> DEFINE Finds(r) ==
      lookup'[r].left # lookup[r].left /\ lookup[r].phase = "reading" =>
         LET nearest == Rules!Nearest(lookup[r].asker, Head(lookup[r].left))
             new == lookup'[r].found \ lookup[r].found
         IN /\ new \subseteq nearest
            /\ new = {} <=> nearest = {} \/ \E e, f \in nearest : e.value # f.value
<1>1. ASSUME RulesInv, NEW r \in Lookups, Rules!LookUp(r) PROVE Finds(r)
  <2> PICK asker, type : asker = lookup[r].asker /\ type = Head(lookup[r].left)
    OBVIOUS
  <2>1. asker \in Owners \cup {None}
    BY <1>1 DEF RulesInv, RulesTyped, Resolutions
  <2>2. Rules!Nearest(asker, type) = {entries[i] : i \in Rules!Candidates(asker, type)}
    BY <1>1, <2>1, CandidatesAreNearest
  <2> PICK new : new = lookup'[r].found \ lookup[r].found
    OBVIOUS
  <2>3. /\ new \subseteq {entries[i] : i \in Rules!Candidates(asker, type)}
        /\ new = {} <=> \/ Rules!Candidates(asker, type) = {}
                        \/ ~\A i, j \in Rules!Candidates(asker, type) : entries[i].value = entries[j].value
    BY <1>1, LookUpIs
  <2> QED
    BY <2>2, <2>3
<1>2. ASSUME RulesInv, [Rules!OpNext]_Rules!opVars PROVE [\A r \in Lookups : Finds(r)]_lookup
  <2> SUFFICES ASSUME lookup' # lookup, NEW r \in Lookups, lookup'[r].left # lookup[r].left,
                      lookup[r].phase = "reading"
               PROVE  Rules!LookUp(r)
    BY <1>1, <1>2
  <2>1. PICK q \in Lookups : Rules!Resolve(q) \/ Rules!LookUp(q) \/ Rules!Resolved(q)
    BY <1>2
       DEF Rules!OpNext, Rules!opVars, Rules!Submit, Rules!Answered, Rules!Unanswered, Rules!Run
  <2>2. CASE Rules!Resolve(q)
    BY <1>2, <2>2 DEF Rules!Resolve, RulesInv, RulesTyped
  <2>3. CASE Rules!Resolved(q)
    BY <1>2, <2>3 DEF Rules!Resolved, RulesInv, RulesTyped, Resolutions
  <2>4. CASE Rules!LookUp(q)
    <3>1. q = r
      BY <1>2, <2>4, LookUpIs
    <3> QED
      BY <2>4, <3>1
  <2> QED
    BY <2>1, <2>2, <2>3, <2>4
<1> QED
  BY <1>2, RulesInvHolds, PTL DEF Rules!OpSpec, FindsTheNearest, Rules!FindsTheNearest
=============================================================================
