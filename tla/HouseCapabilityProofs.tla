------------------------ MODULE HouseCapabilityProofs ------------------------
(***************************************************************************)
(* What HouseCapability promises of the automations, for any house, number *)
(* of turns and of restarts.  Home Assistant rewrites all of its file for  *)
(* each change; that nothing of others is lost, and that it runs what is   *)
(* in the file, rests on the lock: one request at a time holds it, and     *)
(* what that request read is still what the file is.  That no change is of *)
(* what a user wrote rests on the checks of the port, made earlier: the    *)
(* automation a request is about stays Nyra's until the request is done.   *)
(* Last, that a turn is told what was done: its targets, its requests and  *)
(* what it was told agree, whoever of its three clients gave up.           *)
(***************************************************************************)
EXTENDS HouseAndWakeWords, FiniteSetTheorems, SequenceTheorems, TLAPS

Automations == Managed \cup Manuals
Kinds == ViaSkills \cup ViaApi \cup {"plan"}

TurnStates ==
  [kind : Kinds \cup {None}, id : Ids \cup {None}, behavior : Behaviors \cup {None},
   told : {None, "done", "failed", "asked", "refused"}]
RunStates ==
  [at : {"none", "next", "call", "end"}, left : Seq(Targets \cup Turns),
   done : SUBSET (Targets \cup Turns), failed : BOOLEAN]
PortStates ==
  [at : {"none", "state", "list", "read", "sent"}, target : Targets \cup Turns \cup {None}]

AskTyped ==
  /\ turn \in [Turns -> TurnStates]
  /\ run \in [Turns -> RunStates]
  /\ port \in [Turns -> PortStates]

(* What a call in progress is about, told by the kind of its turn.         *)
Asking(t) ==
  /\ turn[t].kind = None => run[t].at = "none" /\ port[t].at = "none"
  /\ turn[t].kind = "create" => turn[t].behavior \in Managed /\ run[t].left \in Seq(Turns)
  /\ run[t].at = "call" => run[t].left # <<>>
  /\ port[t].at = "list" => turn[t].kind = "create" /\ port[t].target \in Turns
  /\ port[t].at = "state" => port[t].target \in Targets \cup Turns
  /\ port[t].at = "read" =>
       /\ turn[t].kind \in ViaApi /\ port[t].target \in Ids
       /\ turn[t].kind = "update" => turn[t].behavior \in Managed

AskInv == AskTyped /\ \A t \in Turns : Asking(t)

HomeTyped ==
  /\ requests \subseteq Requests
  /\ file \in [Ids -> Automations \cup {None}]
  /\ loaded \in [Ids -> Automations \cup {None}]

NyrasOwn(id) == file[id] = None \/ file[id].managed

(* A request to change an automation is about one that is Nyra's, or not   *)
(* there, and what it will write is there to be written; while it holds    *)
(* the lock, what it read is the file.                                     *)
Sound(r) ==
  /\ r.by \in Turns => turn[r.by].kind # None
  /\ r.op \in {"write", "delete"} => r.id \in Ids /\ NyrasOwn(r.id)
  /\ r.op = "write" => r.by \in Turns /\ turn[r.by].behavior \in Managed
  /\ r.op = "complete" => r.id \in Ids /\ r.at = "sent"
  /\ r.at = "holds" => r.op \in {"write", "delete"} /\ r.items = file
  /\ r.at \in {"reload", "loading"} => r.op = "write"

(* What is being loaded is still the file's, unless it was overtaken.      *)
Fresh(r) ==
  r.at = "loading" =>
    /\ r.items \in [Ids -> Automations \cup {None}]
    /\ r.id \notin overtaken => r.items[r.id] = file[r.id]
LoadingIsTheFile == \A r \in requests : Fresh(r)

LockHolds == lock # None => lock.at = "holds"

HomeInv ==
  /\ HomeTyped
  /\ \A r \in requests : Sound(r)
  /\ \A id \in Turns : NyrasOwn(id)
  /\ LockIsHeld
  /\ LockHolds
  /\ LoadedIsTheFile
  /\ LoadingIsTheFile

IInv == AskInv /\ HomeInv

(* No step takes from a turn that was asked something what it was asked.   *)
KindsStay ==
  \A t \in Turns : turn[t].kind # None =>
    turn'[t].kind = turn[t].kind /\ turn'[t].behavior = turn[t].behavior

home == <<requests, lock, file, loaded, overtaken>>

-----------------------------------------------------------------------------
LEMMA NoneIsNone ==
  /\ None \notin Kinds /\ None \notin Requests /\ None \notin Turns
  /\ None \notin {"done", "failed", "asked", "refused"}
BY HouseCapabilityAssumption DEF Kinds

LEMMA Initially ==
  ASSUME Init PROVE IInv
<1>1. AskTyped
  BY DEF Init, AskTyped, NoTurn, NoRun, NoPort, TurnStates, RunStates, PortStates
<1>2. ASSUME NEW t \in Turns PROVE Asking(t)
  BY NoneIsNone DEF Init, Asking, NoTurn, NoRun, NoPort, Kinds, ViaApi, ViaSkills
<1>3. PICK manual \in Manuals \cup {None} :
        file = [id \in Ids |-> IF id = Manual THEN manual ELSE None]
  BY DEF Init
<1>4. HomeTyped
  BY <1>3 DEF Init, HomeTyped, Automations
<1>5. \A id \in Turns : NyrasOwn(id)
  BY <1>3, HouseCapabilityAssumption DEF NyrasOwn, Ids
<1>6. /\ LockIsHeld /\ LockHolds /\ LoadedIsTheFile /\ LoadingIsTheFile
      /\ \A r \in requests : Sound(r)
  BY DEF Init, LockIsHeld, LockHolds, LoadedIsTheFile, LoadingIsTheFile
<1>7. QED
  BY <1>1, <1>2, <1>4, <1>5, <1>6 DEF IInv, AskInv, HomeInv

-----------------------------------------------------------------------------
(* The Router and Skills: a step of one turn leaves the others alone.      *)
LEMMA OneTurn ==
  ASSUME AskInv, NEW t \in Turns,
         NEW s \in TurnStates, turn' = [turn EXCEPT ![t] = s],
         NEW n \in RunStates, run' = [run EXCEPT ![t] = n],
         NEW p \in PortStates, port' = [port EXCEPT ![t] = p],
         Asking(t)'
  PROVE  AskInv'
<1>1. AskTyped'
  BY DEF AskInv, AskTyped
<1>2. ASSUME NEW u \in Turns, u # t PROVE Asking(u)'
  <2>1. turn'[u] = turn[u] /\ run'[u] = run[u] /\ port'[u] = port[u]
    BY <1>2 DEF AskInv, AskTyped
  <2>2. QED
    BY <2>1 DEF AskInv, Asking
<1>3. QED
  BY <1>1, <1>2 DEF AskInv

(* A turn that is told something, its run going on or ended, its port free *)
(* or as it was: what it was asked stays.                                  *)
LEMMA Continues ==
  ASSUME AskInv, NEW t \in Turns, turn[t].kind # None,
         NEW s \in TurnStates, turn' = [turn EXCEPT ![t] = s],
         s.kind = turn[t].kind, s.behavior = turn[t].behavior,
         NEW n \in RunStates, run' = [run EXCEPT ![t] = n],
         turn[t].kind = "create" => n.left \in Seq(Turns), n.at = "call" => n.left # <<>>,
         NEW p \in PortStates, port' = [port EXCEPT ![t] = p],
         p = port[t] \/ p.at \in {"none", "sent"}
  PROVE  AskInv' /\ KindsStay
<1>1. turn'[t] = s /\ run'[t] = n /\ port'[t] = p
  BY DEF AskInv, AskTyped
<1>2. Asking(t)'
  BY <1>1 DEF AskInv, Asking
<1>3. KindsStay
  BY <1>1 DEF KindsStay, AskInv, AskTyped
<1>4. QED
  BY <1>2, <1>3, OneTurn

LEMMA AskedStands ==
  ASSUME AskInv, UNCHANGED <<askedVars, port>>
  PROVE  AskInv' /\ KindsStay
BY DEF AskInv, AskTyped, Asking, KindsStay, askedVars

LEMMA OfTurn ==
  ASSUME AskInv, NEW t \in Turns
  PROVE  /\ turn[t] \in TurnStates /\ run[t] \in RunStates /\ port[t] \in PortStates
         /\ turn = [turn EXCEPT ![t] = turn[t]]
         /\ run = [run EXCEPT ![t] = run[t]]
         /\ port = [port EXCEPT ![t] = port[t]]
         /\ NoPort \in PortStates /\ NoPort.at = "none"
BY DEF AskInv, AskTyped, NoPort, PortStates

(* A run goes on to something else, or begins on some targets.             *)
LEMMA RunBecomes ==
  ASSUME NEW n \in RunStates, NEW at \in {"none", "next", "call", "end"}
  PROVE  /\ [n EXCEPT !.at = at] \in RunStates
         /\ [n EXCEPT !.at = at].at = at /\ [n EXCEPT !.at = at].left = n.left
<1> DEFINE Sq == Seq(Targets \cup Turns)
           Ts == Targets \cup Turns
<1>1. n \in [at : {"none", "next", "call", "end"}, left : Sq, done : SUBSET Ts,
             failed : BOOLEAN]
  BY DEF RunStates
<1> HIDE DEF Sq, Ts
<1>2. /\ [n EXCEPT !.at = at] \in [at : {"none", "next", "call", "end"}, left : Sq,
                                  done : SUBSET Ts, failed : BOOLEAN]
      /\ [n EXCEPT !.at = at].at = at /\ [n EXCEPT !.at = at].left = n.left
  BY <1>1
<1>3. QED
  BY <1>2 DEF RunStates, Sq, Ts

LEMMA RunBegins ==
  ASSUME NEW n \in RunStates, NEW left \in Seq(Targets \cup Turns)
  PROVE  LET m == [n EXCEPT !.at = "next", !.left = left]
         IN m \in RunStates /\ m.at = "next" /\ m.left = left
<1> DEFINE Sq == Seq(Targets \cup Turns)
           Ts == Targets \cup Turns
<1>1. n \in [at : {"none", "next", "call", "end"}, left : Sq, done : SUBSET Ts,
             failed : BOOLEAN]
  BY DEF RunStates
<1>2. left \in Sq
  OBVIOUS
<1> DEFINE m == [n EXCEPT !.at = "next", !.left = left]
<1> HIDE DEF Sq, Ts
<1>3. /\ m \in [at : {"none", "next", "call", "end"}, left : Sq, done : SUBSET Ts,
                failed : BOOLEAN]
      /\ m.at = "next" /\ m.left = left
  BY <1>1, <1>2
<1>4. m \in RunStates
  <2> HIDE DEF m
  <2>1. QED
    BY <1>3 DEF RunStates, Sq, Ts
<1>5. QED
  BY <1>3, <1>4

(* What a turn may be told, waiting or not.                                *)
Tellings == {"done", "failed", "asked", "refused"}
LEMMA Telling ==
  ASSUME AskInv, NEW t \in Turns, NEW what \in Tellings,
         Told(t, what) \/ TellIfWaiting(t, what) \/ UNCHANGED turn
  PROVE  \E s \in TurnStates :
           /\ turn' = [turn EXCEPT ![t] = s]
           /\ s.kind = turn[t].kind /\ s.behavior = turn[t].behavior
<1> DEFINE s == [turn[t] EXCEPT !.told = what]
<1>1. s \in TurnStates /\ s.kind = turn[t].kind /\ s.behavior = turn[t].behavior
  BY OfTurn DEF TurnStates, Tellings
<1>2. CASE Told(t, what)
  <2>1. turn' = [turn EXCEPT ![t] = s]
    BY <1>2 DEF Told
  <2>2. QED
    BY <1>1, <2>1
<1>3. CASE UNCHANGED turn
  BY <1>3, OfTurn
<1>4. QED
  BY <1>2, <1>3 DEF TellIfWaiting

LEMMA AnswersKeep ==
  ASSUME AskInv, NEW t \in Turns, turn[t].kind # None,
         NEW outcome \in {"SUCCESS", "FAILED", "NOT_FOUND", "DENIED", "AMBIGUOUS", "UNAVAILABLE"},
         Answers(t, outcome)
  PROVE  AskInv' /\ KindsStay
<1>1. PICK s \in TurnStates :
        turn' = [turn EXCEPT ![t] = s] /\ s.kind = turn[t].kind /\ s.behavior = turn[t].behavior
  BY Telling DEF Answers, Collect, askedVars, Tellings
<1>2. PICK n \in RunStates :
        /\ run' = [run EXCEPT ![t] = n]
        /\ turn[t].kind = "create" => n.left \in Seq(Turns)
        /\ n.at = "call" => n.left # <<>>
  <2>1. /\ turn[t].kind = "create" => run[t].left \in Seq(Turns)
        /\ run[t].at = "call" => run[t].left # <<>>
    BY DEF AskInv, Asking
  <2>2. CASE UNCHANGED run
    BY <2>1, <2>2, OfTurn
  <2>3. CASE run' = [run EXCEPT ![t].at = "end"]
    <3> DEFINE n == [run[t] EXCEPT !.at = "end"]
    <3>0. run[t] \in RunStates /\ run[t].left \in Seq(Targets \cup Turns)
      BY OfTurn DEF RunStates
    <3>1. n \in RunStates /\ n.left = run[t].left /\ n.at = "end"
      BY <3>0, RunBecomes
    <3>2. run' = [run EXCEPT ![t] = n]
      BY <2>3
    <3>3. QED
      BY <2>1, <3>1, <3>2
  <2>4. CASE /\ run[t].at = "call"
             /\ run' = [run EXCEPT ![t] =
                  [at |-> "next", left |-> Tail(run[t].left),
                   done |-> IF outcome = "SUCCESS" THEN run[t].done \cup {Target(t)}
                            ELSE run[t].done,
                   failed |-> run[t].failed \/ outcome # "SUCCESS"]]
    <3> DEFINE done == IF outcome = "SUCCESS" THEN run[t].done \cup {Target(t)} ELSE run[t].done
               n == [at |-> "next", left |-> Tail(run[t].left), done |-> done,
                     failed |-> run[t].failed \/ outcome # "SUCCESS"]
    <3>1. run[t].left # <<>> /\ run[t].left \in Seq(Targets \cup Turns)
      BY <2>1, <2>4, OfTurn DEF RunStates
    <3>2. Target(t) \in Targets \cup Turns /\ n.left \in Seq(Targets \cup Turns)
      BY <3>1 DEF Target
    <3>3. done \in SUBSET (Targets \cup Turns)
      BY <3>2, OfTurn DEF RunStates
    <3>4. n \in RunStates /\ n.at # "call"
      <4> HIDE DEF done
      <4>1. QED
        BY <3>2, <3>3 DEF RunStates
    <3>5. turn[t].kind = "create" => n.left \in Seq(Turns)
      BY <2>1, <3>1
    <3>6. run' = [run EXCEPT ![t] = n]
      BY <2>4
    <3>7. QED
      <4> HIDE DEF n
      <4>1. QED
        BY <3>4, <3>5, <3>6
  <2>5. QED
    BY <2>2, <2>3, <2>4 DEF Answers, Collect, askedVars
<1>3. port' = [port EXCEPT ![t] = NoPort]
  BY DEF Answers
<1>4. QED
  BY <1>1, <1>2, <1>3, OfTurn, Continues

-----------------------------------------------------------------------------
(* The house stands still, or gets one more request.                       *)
LEMMA HomeStands ==
  ASSUME HomeInv, KindsStay, UNCHANGED home
  PROVE  HomeInv'
<1>1. HomeTyped' /\ LockIsHeld' /\ LockHolds' /\ LoadedIsTheFile' /\ LoadingIsTheFile'
  BY DEF HomeInv, HomeTyped, LockIsHeld, LockHolds, LoadedIsTheFile, LoadingIsTheFile, Fresh, home
<1>2. ASSUME NEW r \in requests' PROVE Sound(r)'
  BY DEF HomeInv, Sound, NyrasOwn, KindsStay, home
<1>3. ASSUME NEW id \in Turns PROVE NyrasOwn(id)'
  BY DEF HomeInv, NyrasOwn, home
<1>4. QED
  BY <1>1, <1>2, <1>3 DEF HomeInv

LEMMA OneMore ==
  ASSUME HomeInv, KindsStay, NEW q \in Requests, q.at = "sent", Sound(q)',
         requests' = requests \cup {q}, UNCHANGED <<lock, file, loaded, overtaken>>
  PROVE  HomeInv'
<1>1. HomeTyped' /\ LockIsHeld' /\ LockHolds'
  BY DEF HomeInv, HomeTyped, LockIsHeld, LockHolds
<1>2. LoadedIsTheFile' /\ LoadingIsTheFile'
  BY DEF HomeInv, LoadedIsTheFile, LoadingIsTheFile, Fresh
<1>3. ASSUME NEW r \in requests PROVE Sound(r)'
  BY DEF HomeInv, Sound, NyrasOwn, KindsStay
<1>4. ASSUME NEW id \in Turns PROVE NyrasOwn(id)'
  BY DEF HomeInv, NyrasOwn
<1>5. QED
  BY <1>1, <1>2, <1>3, <1>4 DEF HomeInv

LEMMA OneLess ==
  ASSUME HomeInv, KindsStay, NEW q \in requests, q.at = "sent",
         requests' = requests \ {q}, UNCHANGED <<lock, file, loaded, overtaken>>
  PROVE  HomeInv'
<1>1. HomeTyped' /\ LockHolds'
  BY DEF HomeInv, HomeTyped, LockHolds
<1>2. LockIsHeld'
  BY DEF HomeInv, LockIsHeld, LockHolds
<1>3. LoadedIsTheFile' /\ LoadingIsTheFile'
  BY DEF HomeInv, LoadedIsTheFile, LoadingIsTheFile, Fresh
<1>4. ASSUME NEW r \in requests' PROVE Sound(r)'
  BY DEF HomeInv, Sound, NyrasOwn, KindsStay
<1>5. ASSUME NEW id \in Turns PROVE NyrasOwn(id)'
  BY DEF HomeInv, NyrasOwn
<1>6. QED
  BY <1>1, <1>2, <1>3, <1>4, <1>5 DEF HomeInv

(* The answer to a request is the port's, or nobody's.                     *)
LEMMA DeliveredKeeps ==
  ASSUME IInv, NEW r \in requests,
         NEW outcome \in {"SUCCESS", "FAILED", "NOT_FOUND", "DENIED", "AMBIGUOUS", "UNAVAILABLE"},
         Delivered(r, outcome)
  PROVE  AskInv' /\ KindsStay
<1>1. CASE Awaited(r)
  <2>1. r.by \in Turns /\ turn[r.by].kind # None
    BY <1>1 DEF Awaited, IInv, HomeInv, Sound
  <2>2. QED
    BY <1>1, <2>1, AnswersKeep DEF Delivered, IInv
<1>2. CASE ~Awaited(r)
  BY <1>2, AskedStands DEF Delivered, IInv
<1>3. QED
  BY <1>1, <1>2

(* What the port asks next: its turn was asked something, and goes on.     *)
LEMMA PortBusy ==
  ASSUME AskInv, NEW t \in Turns, port[t].at # "none" \/ run[t].at # "none"
  PROVE  turn[t].kind # None
BY DEF AskInv, Asking

-----------------------------------------------------------------------------
(* A turn begins.                                                          *)
LEMMA BeginKeeps ==
  ASSUME AskInv, NEW t \in Turns, Idle(t),
         NEW s \in TurnStates, turn' = [turn EXCEPT ![t] = s],
         NEW n \in RunStates, run' = [run EXCEPT ![t] = n],
         NEW p \in PortStates, port' = [port EXCEPT ![t] = p],
         s.kind \in Kinds, n.at # "call",
         s.kind = "create" => s.behavior \in Managed /\ n.left \in Seq(Turns),
         p.at \notin {"list", "state"},
         p.at = "read" => /\ s.kind \in ViaApi /\ p.target \in Ids
                          /\ s.kind = "update" => s.behavior \in Managed
  PROVE  AskInv' /\ KindsStay
<1>1. turn'[t] = s /\ run'[t] = n /\ port'[t] = p
  BY DEF AskInv, AskTyped
<1>2. Asking(t)'
  BY <1>1, NoneIsNone DEF Asking
<1>3. KindsStay
  BY DEF KindsStay, Idle, AskInv, AskTyped
<1>4. QED
  BY <1>2, <1>3, OneTurn

LEMMA CommandKeeps ==
  ASSUME AskInv, NEW t \in Turns, Command(t)
  PROVE  AskInv' /\ KindsStay
<1> DEFINE s == [NoTurn EXCEPT !.kind = "command", !.id = None, !.behavior = None]
<1>1. Idle(t) /\ turn' = [turn EXCEPT ![t] = s] /\ UNCHANGED port
  BY DEF Command, Begin
<1>2. s \in TurnStates /\ s.kind = "command" /\ s.kind \in Kinds
  BY DEF NoTurn, TurnStates, Kinds, ViaSkills
<1>3. PICK targets \in Resolved \cup {<<Manual>>} :
        run' = [run EXCEPT ![t] = [run[t] EXCEPT !.at = "next", !.left = targets]]
  BY DEF Command
<1>4. targets \in Seq(Targets \cup Turns)
  <2>1. CASE targets = <<Manual>>
    BY <2>1 DEF Targets
  <2>2. CASE targets \in Resolved
    <3>1. Cardinality(Lights) \in Nat
      BY HouseCapabilityAssumption, FS_CardinalityType
    <3>2. PICK k \in 1 .. Cardinality(Lights) : targets \in [1 .. k -> Lights]
      BY <2>2 DEF Resolved
    <3>3. k \in Nat /\ targets \in [1 .. k -> Targets \cup Turns]
      BY <3>1, <3>2 DEF Targets
    <3>4. QED
      BY <3>3, SeqDef
  <2>3. QED
    BY <2>1, <2>2
<1> DEFINE n == [run[t] EXCEPT !.at = "next", !.left = targets]
<1>5. n \in RunStates /\ n.at = "next"
  <2>1. run[t] \in RunStates
    BY OfTurn
  <2>2. QED
    BY <1>4, <2>1, RunBegins
<1>6. port[t].at = "none"
  BY <1>1 DEF AskInv, Asking, Idle
<1>7. run' = [run EXCEPT ![t] = n] /\ port' = [port EXCEPT ![t] = port[t]]
  BY <1>1, <1>3, OfTurn
<1>8. QED
  <2> HIDE DEF s, n
  <2>1. s.kind \in Kinds /\ s.kind # "create" /\ n.at # "call"
    BY <1>2, <1>5
  <2>2. QED
    BY <1>1, <1>2, <1>5, <1>6, <1>7, <2>1, OfTurn, BeginKeeps

LEMMA CreateKeeps ==
  ASSUME AskInv, NEW t \in Turns, Create(t)
  PROVE  AskInv' /\ KindsStay
<1>1. PICK b \in Managed : Begin(t, "create", t, b)
  BY DEF Create, Behaviors
<1> DEFINE s == [NoTurn EXCEPT !.kind = "create", !.id = t, !.behavior = b]
           n == [run[t] EXCEPT !.at = "next", !.left = <<t>>]
<1>2. Idle(t) /\ turn' = [turn EXCEPT ![t] = s] /\ UNCHANGED port
  BY <1>1 DEF Create, Begin
<1>3. s \in TurnStates /\ s.kind = "create" /\ s.behavior = b
  BY DEF NoTurn, TurnStates, Kinds, ViaSkills, Ids, Behaviors
<1>4. <<t>> \in Seq(Turns) /\ <<t>> \in Seq(Targets \cup Turns)
  OBVIOUS
<1>5. n \in RunStates /\ n.at = "next" /\ n.left = <<t>>
  <2>1. run[t] \in RunStates
    BY OfTurn
  <2>2. QED
    BY <1>4, <2>1, RunBegins
<1>6. port[t].at = "none"
  BY <1>2 DEF AskInv, Asking, Idle
<1>7. /\ run' = [run EXCEPT ![t] = n]
      /\ port' = [port EXCEPT ![t] = port[t]] /\ port[t] \in PortStates
  BY <1>2, OfTurn DEF Create
<1>8. s.kind \in Kinds
  BY <1>3 DEF Kinds, ViaSkills
<1>9. QED
  <2> HIDE DEF s, n
  <2>1. n.at # "call" /\ port[t].at \notin {"list", "state", "read"}
    BY <1>5, <1>6
  <2>2. n.left \in Seq(Turns) /\ s.behavior \in Managed
    BY <1>3, <1>4, <1>5
  <2>3. QED
    BY <1>2, <1>3, <1>5, <1>7, <1>8, <2>1, <2>2, BeginKeeps

LEMMA PlanKeeps ==
  ASSUME AskInv, NEW t \in Turns, Plan(t)
  PROVE  AskInv' /\ KindsStay
<1>1. Idle(t) /\ UNCHANGED port
  BY DEF Plan
<1>2. PICK s \in TurnStates : turn' = [turn EXCEPT ![t] = s] /\ s.kind = "plan"
  <2>1. [NoTurn EXCEPT !.kind = "plan", !.id = None, !.behavior = None] \in TurnStates
    BY DEF NoTurn, TurnStates, Kinds
  <2>2. [NoTurn EXCEPT !.kind = "plan", !.told = "refused"] \in TurnStates
    BY DEF NoTurn, TurnStates, Kinds
  <2>3. [NoTurn EXCEPT !.kind = "plan", !.told = "failed"] \in TurnStates
    BY DEF NoTurn, TurnStates, Kinds
  <2>4. QED
    BY <2>1, <2>2, <2>3 DEF Plan, Begin, NoTurn
<1>3. PICK n \in RunStates : run' = [run EXCEPT ![t] = n] /\ n.at # "call"
  <2>1. run[t].at = "none"
    BY <1>1 DEF AskInv, Asking, Idle
  <2>2. CASE UNCHANGED run
    BY <2>1, <2>2, OfTurn
  <2>3. ASSUME NEW plan \in Plans, run' = [run EXCEPT ![t].at = "next", ![t].left = plan]
        PROVE  \E n \in RunStates : run' = [run EXCEPT ![t] = n] /\ n.at # "call"
    <3> DEFINE n == [run[t] EXCEPT !.at = "next", !.left = plan]
    <3>1. PICK k \in 1 .. 2 : plan \in [1 .. k -> Targets]
      BY DEF Plans
    <3>2. k \in Nat /\ plan \in [1 .. k -> Targets \cup Turns]
      BY <3>1
    <3>3. plan \in Seq(Targets \cup Turns)
      BY <3>2, SeqDef
    <3>4. n \in RunStates /\ n.at = "next"
      <4>1. run[t] \in RunStates
        BY OfTurn
      <4>2. QED
        BY <3>3, <4>1, RunBegins
    <3>5. run' = [run EXCEPT ![t] = n]
      BY <2>3
    <3>6. QED
      BY <3>4, <3>5
  <2>4. QED
    BY <2>2, <2>3 DEF Plan
<1>4. port[t].at = "none" /\ port' = [port EXCEPT ![t] = port[t]] /\ port[t] \in PortStates
  BY <1>1, OfTurn DEF AskInv, Asking, Idle
<1>5. s.kind \in Kinds /\ s.kind # "create"
  BY <1>2 DEF Kinds
<1>6. QED
  BY <1>1, <1>2, <1>3, <1>4, <1>5, BeginKeeps

LEMMA ApiKeeps ==
  ASSUME AskInv, NEW t \in Turns, Api(t)
  PROVE  AskInv' /\ KindsStay
<1>1. Idle(t) /\ UNCHANGED run /\ run[t].at = "none"
  BY DEF Api, AskInv, Asking, Idle
<1>2. PICK s \in TurnStates :
        /\ turn' = [turn EXCEPT ![t] = s] /\ s.kind \in ViaApi /\ s.id \in Ids
        /\ s.kind = "update" => s.behavior \in Managed
  <2>1. PICK id \in Ids : \/ \E b \in Managed : Begin(t, "update", id, b)
                         \/ Begin(t, "delete", id, None)
    BY DEF Api, Behaviors
  <2>2. CASE \E b \in Managed : Begin(t, "update", id, b)
    <3>1. PICK b \in Managed : Begin(t, "update", id, b)
      BY <2>2
    <3> DEFINE s == [NoTurn EXCEPT !.kind = "update", !.id = id, !.behavior = b]
    <3>2. /\ s \in TurnStates /\ s.kind = "update" /\ s.behavior = b /\ s.id = id
          /\ s.kind \in ViaApi
      BY DEF NoTurn, TurnStates, Kinds, ViaApi, Behaviors
    <3>3. turn' = [turn EXCEPT ![t] = s]
      BY <3>1 DEF Begin
    <3>4. QED
      BY <3>2, <3>3
  <2>3. CASE Begin(t, "delete", id, None)
    <3> DEFINE s == [NoTurn EXCEPT !.kind = "delete", !.id = id, !.behavior = None]
    <3>1. s \in TurnStates /\ s.kind = "delete" /\ s.id = id /\ s.kind \in ViaApi
      BY DEF NoTurn, TurnStates, Kinds, ViaApi
    <3>2. turn' = [turn EXCEPT ![t] = s]
      BY <2>3 DEF Begin
    <3>3. QED
      BY <3>1, <3>2
  <2>4. QED
    BY <2>1, <2>2, <2>3
<1> DEFINE p == [at |-> "read", target |-> s.id]
<1>3. turn'[t] = s
  BY <1>2 DEF AskInv, AskTyped
<1>4. port' = [port EXCEPT ![t] = p]
  BY <1>3 DEF Api
<1>5. p \in PortStates /\ p.at = "read" /\ p.target = s.id
  BY <1>2 DEF PortStates, Ids, Targets
<1>6. s.kind \in Kinds /\ s.kind # "create" /\ run' = [run EXCEPT ![t] = run[t]]
  BY <1>1, <1>2, OfTurn DEF Kinds, ViaApi
<1>7. QED
  <2> HIDE DEF p
  <2>1. QED
    BY <1>1, <1>2, <1>4, <1>5, <1>6, OfTurn, BeginKeeps

-----------------------------------------------------------------------------
(* A turn goes on, and the port.                                           *)

LEMMA RequestBecomes ==
  ASSUME NEW r \in Requests, NEW at \in {"sent", "holds", "reload", "loading"},
         NEW items \in [Ids -> Managed \cup Manuals \cup {None}] \cup {None}
  PROVE  LET q == [r EXCEPT !.at = at, !.items = items]
         IN /\ q \in Requests /\ q.by = r.by /\ q.op = r.op /\ q.id = r.id
            /\ q.at = at /\ q.items = items
<1> DEFINE Items == [Ids -> Managed \cup Manuals \cup {None}] \cup {None}
           q == [r EXCEPT !.at = at, !.items = items]
<1>1. Requests =
        [by : Turns \cup {None}, op : {"invoke", "write", "delete", "complete"},
         id : Targets \cup Turns, at : {"sent", "holds", "reload", "loading"}, items : Items]
  BY DEF Requests
<1>2. items \in Items
  OBVIOUS
<1> HIDE DEF Items
<1>3. QED
  BY <1>1, <1>2

LEMMA RequestIsSent ==
  ASSUME NEW t \in Turns \cup {None}, NEW op \in {"invoke", "write", "delete", "complete"},
         NEW id \in Targets \cup Turns
  PROVE  LET q == Request(t, op, id)
         IN q \in Requests /\ q.by = t /\ q.op = op /\ q.id = id /\ q.at = "sent"
<1> DEFINE Items == [Ids -> Managed \cup Manuals \cup {None}] \cup {None}
<1>1. Requests =
        [by : Turns \cup {None}, op : {"invoke", "write", "delete", "complete"},
         id : Targets \cup Turns, at : {"sent", "holds", "reload", "loading"}, items : Items]
  BY DEF Requests
<1>2. None \in Items
  OBVIOUS
<1> HIDE DEF Items
<1>3. QED
  BY <1>1, <1>2 DEF Request

(* A turn that was asked something is told, its run at its end or as it    *)
(* was, the port free or as it was.                                        *)
LEMMA TurnEnds ==
  ASSUME IInv, NEW t \in Turns, turn[t].kind # None, NEW what \in Tellings,
         Told(t, what) \/ TellIfWaiting(t, what),
         run' = [run EXCEPT ![t].at = "end"] \/ UNCHANGED run,
         port' = [port EXCEPT ![t] = NoPort] \/ UNCHANGED port,
         UNCHANGED home
  PROVE  IInv'
<1>1. PICK s \in TurnStates :
        turn' = [turn EXCEPT ![t] = s] /\ s.kind = turn[t].kind /\ s.behavior = turn[t].behavior
  BY Telling DEF IInv
<1>2. PICK n \in RunStates :
        /\ run' = [run EXCEPT ![t] = n] /\ n.left = run[t].left
        /\ n.at = "end" \/ n = run[t]
  <2>1. CASE UNCHANGED run
    BY <2>1, OfTurn DEF IInv
  <2>2. CASE run' = [run EXCEPT ![t].at = "end"]
    <3> DEFINE n == [run[t] EXCEPT !.at = "end"]
    <3>1. run[t] \in RunStates
      BY OfTurn DEF IInv
    <3>2. n \in RunStates /\ n.at = "end" /\ n.left = run[t].left
      BY <3>1, RunBecomes
    <3>3. run' = [run EXCEPT ![t] = n]
      BY <2>2
    <3>4. QED
      BY <3>2, <3>3
  <2>3. QED
    BY <2>1, <2>2
<1>3. PICK p \in PortStates : port' = [port EXCEPT ![t] = p] /\ (p = port[t] \/ p.at = "none")
  BY OfTurn DEF IInv
<1>4. /\ turn[t].kind = "create" => n.left \in Seq(Turns)
      /\ n.at = "call" => n.left # <<>>
  BY <1>2 DEF IInv, AskInv, Asking
<1>5. AskInv' /\ KindsStay
  BY <1>1, <1>2, <1>3, <1>4, Continues DEF IInv
<1>6. QED
  BY <1>5, HomeStands DEF IInv

LEMMA StepKeeps ==
  ASSUME IInv, NEW t \in Turns, Step(t)
  PROVE  IInv'
<1>0. run[t].at = "next" /\ run[t].left # <<>> /\ run[t] \in RunStates /\ UNCHANGED turn
  BY OfTurn DEF Step, IInv
<1>1. turn[t].kind # None /\ turn[t] \in TurnStates /\ turn' = [turn EXCEPT ![t] = turn[t]]
  BY <1>0, PortBusy, OfTurn DEF IInv
<1> DEFINE n == [run[t] EXCEPT !.at = "call"]
           p == [at |-> IF turn[t].kind = "create" THEN "list" ELSE "state",
                 target |-> Target(t)]
<1>2. n \in RunStates /\ n.at = "call" /\ n.left = run[t].left
  BY <1>0, RunBecomes
<1>3. run' = [run EXCEPT ![t] = n] /\ port' = [port EXCEPT ![t] = p]
  BY DEF Step
<1>4. run[t].left \in Seq(Targets \cup Turns)
  BY <1>0 DEF RunStates
<1>5. Target(t) \in Targets \cup Turns
  BY <1>0, <1>4 DEF Target
<1>6. turn[t].kind = "create" => run[t].left \in Seq(Turns) /\ turn[t].behavior \in Managed
  BY DEF IInv, AskInv, Asking
<1>7. turn[t].kind = "create" => Target(t) \in Turns
  BY <1>0, <1>6 DEF Target
<1>8. /\ p \in PortStates /\ p.target = Target(t)
      /\ p.at = IF turn[t].kind = "create" THEN "list" ELSE "state"
  BY <1>5 DEF PortStates
<1>9. turn'[t] = turn[t] /\ run'[t] = n /\ port'[t] = p
  BY <1>0, <1>3 DEF IInv, AskInv, AskTyped
<1>10. Asking(t)'
  <2> HIDE DEF n, p
  <2>1. QED
    BY <1>0, <1>1, <1>2, <1>5, <1>6, <1>7, <1>8, <1>9 DEF Asking
<1>11. AskInv'
  <2> HIDE DEF n, p
  <2>1. QED
    BY <1>1, <1>2, <1>3, <1>8, <1>10, OneTurn DEF IInv
<1>12. KindsStay /\ UNCHANGED home
  BY <1>0 DEF KindsStay, Step, homeVars, home
<1>13. QED
  BY <1>11, <1>12, HomeStands DEF IInv

LEMMA SendsKeeps ==
  ASSUME IInv, NEW t \in Turns, port[t].at # "none",
         NEW op \in {"invoke", "write", "delete"},
         port[t].target \in Targets \cup Turns,
         op # "invoke" => port[t].target \in Ids /\ NyrasOwn(port[t].target),
         op = "write" => turn[t].behavior \in Managed,
         Sends(t, op), UNCHANGED askedVars, UNCHANGED <<lock, file, loaded, overtaken>>
  PROVE  IInv'
<1> DEFINE p == [port[t] EXCEPT !.at = "sent"]
<1>1. turn[t].kind # None
  BY PortBusy DEF IInv
<1>2. PICK q \in Requests :
        /\ q = Request(t, op, port[t].target)
        /\ q.at = "sent" /\ q.by = t /\ q.op = op /\ q.id = port[t].target
  BY RequestIsSent
<1>3. p \in PortStates /\ p.at = "sent"
  BY OfTurn DEF IInv, PortStates
<1>4. port' = [port EXCEPT ![t] = p] /\ requests' = requests \cup {q}
  BY <1>2 DEF Sends
<1>5. UNCHANGED <<turn, run>>
  BY DEF askedVars
<1>6. /\ turn[t] \in TurnStates /\ turn' = [turn EXCEPT ![t] = turn[t]]
      /\ run[t] \in RunStates /\ run' = [run EXCEPT ![t] = run[t]]
      /\ turn[t].kind = "create" => run[t].left \in Seq(Turns)
      /\ run[t].at = "call" => run[t].left # <<>>
  BY <1>5, OfTurn DEF IInv, AskInv, Asking
<1>7. AskInv' /\ KindsStay
  <2> HIDE DEF p
  <2>1. QED
    BY <1>1, <1>3, <1>4, <1>6, Continues DEF IInv
<1>8. Sound(q)'
  BY <1>1, <1>2, <1>5 DEF Sound, NyrasOwn
<1>9. QED
  <2>1. HomeInv'
    BY <1>2, <1>4, <1>7, <1>8, OneMore DEF IInv
  <2>2. QED
    BY <1>7, <2>1 DEF IInv

LEMMA PortAnswers ==
  ASSUME IInv, NEW t \in Turns, port[t].at # "none",
         NEW outcome \in {"SUCCESS", "FAILED", "NOT_FOUND", "DENIED", "AMBIGUOUS", "UNAVAILABLE"},
         Answers(t, outcome), UNCHANGED home
  PROVE  IInv'
<1>1. AskInv' /\ KindsStay
  BY PortBusy, AnswersKeep DEF IInv
<1>2. QED
  BY <1>1, HomeStands DEF IInv

LEMMA RouterKeeps ==
  ASSUME IInv, NEW t \in Turns, Router(t)
  PROVE  IInv'
<1>1. CASE Step(t)
  BY <1>1, StepKeeps
<1>2. CASE Ends(t)
  <2>1. Outcome(t) \in Tellings /\ turn[t].kind # None
    BY <1>2, PortBusy DEF Ends, Outcome, Tellings, IInv
  <2>2. QED
    BY <1>2, <2>1, TurnEnds DEF Ends, homeVars, home
<1>3. CASE Execute(t)
  <2>1. port[t].at = "state" /\ port[t].target \in Targets \cup Turns
    BY <1>3 DEF Execute, IInv, AskInv, Asking
  <2>2. CASE Answers(t, "NOT_FOUND") /\ UNCHANGED requests
    BY <1>3, <2>1, <2>2, PortAnswers DEF Execute, home
  <2>3. CASE Sends(t, "invoke") /\ UNCHANGED askedVars
    BY <1>3, <2>1, <2>3, SendsKeeps DEF Execute
  <2>4. QED
    BY <1>3, <2>2, <2>3 DEF Execute
<1>4. CASE ListAndWrite(t)
  <2>1. /\ port[t].at = "list" /\ port[t].target \in Turns
        /\ turn[t].behavior \in Managed /\ NyrasOwn(port[t].target)
    BY <1>4 DEF ListAndWrite, IInv, AskInv, Asking, HomeInv
  <2>2. CASE Answers(t, "AMBIGUOUS") /\ UNCHANGED requests
    BY <1>4, <2>1, <2>2, PortAnswers DEF ListAndWrite, home
  <2>3. CASE Sends(t, "write") /\ UNCHANGED askedVars
    BY <1>4, <2>1, <2>3, SendsKeeps DEF ListAndWrite, Ids
  <2>4. QED
    BY <1>4, <2>2, <2>3 DEF ListAndWrite
<1>5. CASE ReadAndChange(t)
  <2>1. /\ port[t].at = "read" /\ port[t].target \in Ids
        /\ turn[t].kind = "update" => turn[t].behavior \in Managed
    BY <1>5 DEF ReadAndChange, IInv, AskInv, Asking
  <2>2. CASE (Answers(t, "NOT_FOUND") \/ Answers(t, "DENIED")) /\ UNCHANGED requests
    BY <1>5, <2>1, <2>2, PortAnswers DEF ReadAndChange, home
  <2>3. CASE /\ NyrasOwn(port[t].target)
             /\ \E op \in {"write", "delete"} :
                  Sends(t, op) /\ (op = "write" => turn[t].kind = "update")
             /\ UNCHANGED askedVars
    <3>1. PICK op \in {"write", "delete"} :
            Sends(t, op) /\ (op = "write" => turn[t].kind = "update")
      BY <2>3
    <3>2. port[t].target \in Targets \cup Turns
      BY <2>1 DEF Ids, Targets
    <3>3. UNCHANGED <<lock, file, loaded, overtaken>>
      BY <1>5 DEF ReadAndChange
    <3>4. QED
      BY <2>1, <2>3, <3>1, <3>2, <3>3, SendsKeeps
  <2>4. QED
    BY <1>5, <2>2, <2>3 DEF ReadAndChange, Controllable, NyrasOwn
<1>6. QED
  BY <1>1, <1>2, <1>3, <1>4, <1>5 DEF Router

LEMMA TimesOutKeeps ==
  ASSUME IInv, NEW t \in Turns, TimesOut(t)
  PROVE  IInv'
<1>1. "failed" \in Tellings
  BY DEF Tellings
<1>2. CASE SkillsTimesOut(t)
  <2>1. turn[t].kind # None
    BY <1>2, NoneIsNone DEF SkillsTimesOut, Kinds
  <2>2. QED
    BY <1>1, <1>2, <2>1, TurnEnds DEF SkillsTimesOut, homeVars, home
<1>3. CASE CallTimesOut(t)
  <2>1. turn[t].kind # None
    BY <1>3, NoneIsNone DEF CallTimesOut, Kinds
  <2>2. QED
    BY <1>1, <1>3, <2>1, TurnEnds DEF CallTimesOut, homeVars, home
<1>4. CASE StateRaises(t)
  <2>1. turn[t].kind # None
    BY <1>4, PortBusy DEF StateRaises, IInv
  <2>2. CASE run[t].at = "call"
    BY <1>1, <1>4, <2>1, <2>2, TurnEnds DEF StateRaises, homeVars, home
  <2>3. CASE run[t].at # "call"
    <3>1. UNCHANGED askedVars /\ port' = [port EXCEPT ![t] = NoPort] /\ UNCHANGED home
      BY <1>4, <2>3 DEF StateRaises, homeVars, home
    <3>2. /\ turn[t] \in TurnStates /\ turn' = [turn EXCEPT ![t] = turn[t]]
          /\ run[t] \in RunStates /\ run' = [run EXCEPT ![t] = run[t]]
          /\ NoPort \in PortStates /\ NoPort.at = "none"
          /\ turn[t].kind = "create" => run[t].left \in Seq(Turns)
          /\ run[t].at = "call" => run[t].left # <<>>
      BY <3>1, OfTurn DEF IInv, AskInv, Asking, askedVars
    <3>3. AskInv' /\ KindsStay
      BY <2>1, <3>1, <3>2, Continues DEF IInv
    <3>4. QED
      BY <3>1, <3>3, HomeStands DEF IInv
  <2>4. QED
    BY <2>2, <2>3
<1>5. CASE RequestTimesOut(t)
  BY <1>5, PortAnswers DEF RequestTimesOut, homeVars, home
<1>6. QED
  BY <1>2, <1>3, <1>4, <1>5 DEF TimesOut

LEMMA StartsKeep ==
  ASSUME IInv, NEW t \in Turns, Starts(t)
  PROVE  IInv'
<1>1. AskInv' /\ KindsStay
  BY CommandKeeps, CreateKeeps, PlanKeeps, ApiKeeps DEF Starts, IInv
<1>2. UNCHANGED home
  BY DEF Starts, Command, Create, Plan, Api, homeVars, home
<1>3. QED
  BY <1>1, <1>2, HomeStands DEF IInv

-----------------------------------------------------------------------------
(* Home Assistant.                                                         *)
Outcomes == {"SUCCESS", "FAILED", "NOT_FOUND", "DENIED", "AMBIGUOUS", "UNAVAILABLE"}

LEMMA Drops ==
  ASSUME IInv, NEW r \in requests, r.at = "sent", Finished(r),
         UNCHANGED <<lock, file, loaded, overtaken>>, AskInv' /\ KindsStay
  PROVE  IInv'
BY OneLess DEF Finished, IInv

LEMMA InvokeKeeps ==
  ASSUME IInv, NEW r \in requests, Invoke(r)
  PROVE  IInv'
<1>1. r.at = "sent"
  BY DEF Invoke, IInv, HomeInv, HomeTyped, Sound, Requests
<1>2. PICK outcome \in {"SUCCESS", "FAILED"} : Delivered(r, outcome)
  BY DEF Invoke
<1>3. AskInv' /\ KindsStay
  BY <1>2, DeliveredKeeps
<1>4. QED
  BY <1>1, <1>3, Drops DEF Invoke

LEMMA ReadKeeps ==
  ASSUME IInv, NEW r \in requests, Read(r)
  PROVE  IInv'
<1>1. PICK held \in Requests :
        /\ held = [r EXCEPT !.at = "holds", !.items = file]
        /\ held.by = r.by /\ held.op = r.op /\ held.id = r.id
        /\ held.at = "holds" /\ held.items = file
  <2>1. r \in Requests /\ file \in [Ids -> Managed \cup Manuals \cup {None}] \cup {None}
    BY DEF IInv, HomeInv, HomeTyped, Automations
  <2> DEFINE q == [r EXCEPT !.at = "holds", !.items = file]
  <2>2. /\ q \in Requests /\ q.by = r.by /\ q.op = r.op /\ q.id = r.id
        /\ q.at = "holds" /\ q.items = file
    BY <2>1, RequestBecomes
  <2>3. QED
    BY <2>2
<1>2. /\ requests' = (requests \ {r}) \cup {held} /\ lock' = held /\ lock = None
      /\ r.op \in {"write", "delete"} /\ r.at = "sent"
      /\ UNCHANGED <<askedVars, port, file, loaded, overtaken>>
  BY <1>1 DEF Read, Becomes
<1>3. AskInv' /\ KindsStay
  BY <1>2, AskedStands DEF IInv
<1>4. HomeTyped'
  BY <1>2 DEF IInv, HomeInv, HomeTyped
<1>5. \A q \in requests : q.at # "holds"
  BY <1>2, NoneIsNone DEF IInv, HomeInv, HomeTyped, LockIsHeld
<1>6. LockIsHeld' /\ LockHolds'
  BY <1>1, <1>2, <1>5 DEF LockIsHeld, LockHolds
<1>7. LoadedIsTheFile' /\ LoadingIsTheFile'
  BY <1>1, <1>2 DEF IInv, HomeInv, LoadedIsTheFile, LoadingIsTheFile, Fresh
<1>8. UNCHANGED <<turn, file>>
  BY <1>2 DEF askedVars
<1>9. ASSUME NEW q \in requests' PROVE Sound(q)'
  <2>1. CASE q \in requests
    BY <1>8, <2>1 DEF IInv, HomeInv, Sound, NyrasOwn
  <2>2. CASE q = held
    BY <1>1, <1>2, <1>8, <2>2 DEF IInv, HomeInv, Sound, NyrasOwn
  <2>3. QED
    BY <1>2, <2>1, <2>2
<1>10. ASSUME NEW id \in Turns PROVE NyrasOwn(id)'
  BY <1>8 DEF IInv, HomeInv, NyrasOwn
<1>11. QED
  BY <1>3, <1>4, <1>6, <1>7, <1>9, <1>10 DEF IInv, HomeInv

(* What the request that holds the lock leaves behind.                     *)
LEMMA AloneWithTheLock ==
  ASSUME IInv, NEW r \in requests, r.at = "holds"
  PROVE  /\ r = lock /\ r.items = file
         /\ \A q \in requests \ {r} : q.at # "holds"
         /\ r.id \in Ids /\ NyrasOwn(r.id)
BY DEF IInv, HomeInv, LockIsHeld, Sound

(* A change of one automation leaves what is being loaded the file's: it   *)
(* is of another, or was overtaken.                                        *)
LEMMA OthersStayFresh ==
  ASSUME IInv, NEW changed \in Ids, Overtakes(changed),
         \A id \in Ids \ {changed} : file'[id] = file[id],
         \A q \in requests' : q.at = "loading" => q \in requests
  PROVE  LoadingIsTheFile'
<1> SUFFICES ASSUME NEW q \in requests', q.at = "loading" PROVE Fresh(q)'
  BY DEF LoadingIsTheFile, Fresh
<1>1. q \in requests /\ Fresh(q) /\ q.op = "write" /\ q.id \in Ids
  BY DEF IInv, HomeInv, Sound, LoadingIsTheFile
<1>2. CASE q.id = changed
  <2>1. q.id \in overtaken'
    BY <1>1, <1>2 DEF Overtakes, Loading
  <2>2. QED
    BY <1>1, <2>1 DEF Fresh
<1>3. CASE q.id # changed
  <2>1. q.id \notin overtaken' => q.id \notin overtaken
    BY DEF Overtakes
  <2>2. QED
    BY <1>1, <1>3, <2>1 DEF Fresh
<1>4. QED
  BY <1>2, <1>3

LEMMA WriteKeeps ==
  ASSUME IInv, NEW r \in requests, Write(r)
  PROVE  IInv'
<1>1. /\ r.op = "write" /\ r.at = "holds" /\ r.items = file /\ r.id \in Ids
      /\ \A q \in requests \ {r} : q.at # "holds"
      /\ r.by \in Turns /\ turn[r.by].kind # None
  BY AloneWithTheLock DEF Write, IInv, HomeInv, Sound
<1>2. PICK b \in Managed : b = turn[r.by].behavior /\ b.managed
  <2>1. turn[r.by].behavior \in Managed
    BY <1>1 DEF IInv, HomeInv, Sound
  <2>2. \A b \in Managed : b.managed
    BY DEF Managed, Automation
  <2>3. QED
    BY <2>1, <2>2
<1>3. PICK done \in Requests :
        /\ done = [r EXCEPT !.at = "reload", !.items = None]
        /\ done.by = r.by /\ done.op = r.op /\ done.id = r.id /\ done.at = "reload"
  <2>1. r \in Requests
    BY DEF IInv, HomeInv, HomeTyped
  <2> DEFINE q == [r EXCEPT !.at = "reload", !.items = None]
  <2>2. q \in Requests /\ q.by = r.by /\ q.op = r.op /\ q.id = r.id /\ q.at = "reload"
    <3> DEFINE Items == [Ids -> Managed \cup Manuals \cup {None}] \cup {None}
    <3>1. Requests =
            [by : Turns \cup {None}, op : {"invoke", "write", "delete", "complete"},
             id : Targets \cup Turns, at : {"sent", "holds", "reload", "loading"}, items : Items]
      BY DEF Requests
    <3>2. None \in Items
      OBVIOUS
    <3> HIDE DEF Items
    <3>3. QED
      BY <2>1, <3>1, <3>2
  <2>3. QED
    BY <2>2
<1>4. /\ requests' = (requests \ {r}) \cup {done} /\ lock' = None
      /\ file' = [file EXCEPT ![r.id] = b] /\ Overtakes(r.id)
      /\ UNCHANGED <<askedVars, port, loaded>>
  BY <1>1, <1>2, <1>3 DEF Write, Becomes
<1>5. AskInv' /\ KindsStay
  BY <1>4, AskedStands DEF IInv
<1>6. HomeTyped' /\ LockIsHeld' /\ LockHolds'
  BY <1>1, <1>3, <1>4 DEF IInv, HomeInv, HomeTyped, Automations, LockIsHeld, LockHolds
<1>7. UNCHANGED turn /\ (\A id \in Ids : file'[id] = file[id] \/ file'[id].managed)
  BY <1>1, <1>2, <1>4 DEF askedVars, IInv, HomeInv, HomeTyped
<1>8. ASSUME NEW id \in Ids, NyrasOwn(id) PROVE NyrasOwn(id)'
  BY <1>7, <1>8 DEF NyrasOwn
<1>9. ASSUME NEW q \in requests' PROVE Sound(q)'
  <2>1. CASE q \in requests \ {r}
    <3>1. Sound(q) /\ q.at # "holds"
      BY <1>1, <2>1 DEF IInv, HomeInv
    <3>2. q.op \in {"write", "delete"} => q.id \in Ids /\ NyrasOwn(q.id)'
      BY <1>8, <3>1 DEF Sound
    <3>3. QED
      BY <1>7, <3>1, <3>2 DEF Sound
  <2>2. CASE q = done
    <3>1. NyrasOwn(r.id)'
      BY <1>2, <1>4, <1>1 DEF NyrasOwn, IInv, HomeInv, HomeTyped
    <3>2. q.by = r.by /\ q.op = "write" /\ q.id = r.id /\ q.at = "reload"
      BY <1>1, <1>3, <2>2
    <3>3. NyrasOwn(q.id)'
      BY <3>1, <3>2 DEF NyrasOwn
    <3>4. QED
      BY <1>1, <1>2, <1>7, <3>2, <3>3 DEF Sound
  <2>3. QED
    BY <1>4, <2>1, <2>2
<1>10. ASSUME NEW id \in Turns PROVE NyrasOwn(id)'
  BY <1>8 DEF IInv, HomeInv, Ids
<1>11. LoadedIsTheFile'
  <2> SUFFICES ASSUME NEW id \in Ids \ overtaken',
                      \A q \in requests' : ~(q.at \in {"reload", "loading"} /\ q.id = id)
               PROVE  loaded'[id] = file'[id]
    BY DEF LoadedIsTheFile
  <2>1. id # r.id
    BY <1>3, <1>4
  <2>2. \A q \in requests : ~(q.at \in {"reload", "loading"} /\ q.id = id)
    BY <1>1, <1>4
  <2>3. loaded[id] = file[id]
    BY <1>4, <2>2 DEF IInv, HomeInv, LoadedIsTheFile, Overtakes
  <2>4. QED
    BY <1>4, <2>1, <2>3 DEF IInv, HomeInv, HomeTyped
<1>12. LoadingIsTheFile'
  <2>1. \A id \in Ids \ {r.id} : file'[id] = file[id]
    BY <1>4 DEF IInv, HomeInv, HomeTyped
  <2>2. \A q \in requests' : q.at = "loading" => q \in requests
    BY <1>3, <1>4
  <2>3. QED
    BY <1>1, <1>4, <2>1, <2>2, OthersStayFresh
<1>13. QED
  BY <1>5, <1>6, <1>9, <1>10, <1>11, <1>12 DEF IInv, HomeInv

LEMMA ReloadKeeps ==
  ASSUME IInv, NEW r \in requests, Reload(r)
  PROVE  IInv'
<1>1. /\ r.at = "reload" /\ r.op = "write" /\ r.id \in Ids
      /\ UNCHANGED <<askedVars, port, lock, file, loaded, overtaken>>
  BY DEF Reload, IInv, HomeInv, Sound
<1>2. AskInv' /\ KindsStay
  BY <1>1, AskedStands DEF IInv
<1> DEFINE parsed == [id \in Ids |-> IF id = r.id THEN file[id] ELSE None]
<1>3. parsed \in [Ids -> Automations \cup {None}] /\ parsed[r.id] = file[r.id]
  BY <1>1 DEF IInv, HomeInv, HomeTyped
<1>4. PICK q \in Requests :
        /\ q = [r EXCEPT !.at = "loading", !.items = parsed]
        /\ q.by = r.by /\ q.op = r.op /\ q.id = r.id /\ q.at = "loading" /\ q.items = parsed
  <2>1. r \in Requests /\ parsed \in [Ids -> Managed \cup Manuals \cup {None}] \cup {None}
    BY <1>3 DEF IInv, HomeInv, HomeTyped, Automations
  <2> HIDE DEF parsed
  <2> DEFINE q == [r EXCEPT !.at = "loading", !.items = parsed]
  <2>2. /\ q \in Requests /\ q.by = r.by /\ q.op = r.op /\ q.id = r.id
        /\ q.at = "loading" /\ q.items = parsed
    BY <2>1, RequestBecomes
  <2>3. QED
    BY <2>2
<1>5. requests' = (requests \ {r}) \cup {q}
  BY <1>4 DEF Reload, Becomes
<1> HIDE DEF parsed
<1>6. HomeTyped' /\ LockHolds'
  BY <1>1, <1>5 DEF IInv, HomeInv, HomeTyped, LockHolds
<1>7. LockIsHeld'
  BY <1>1, <1>4, <1>5 DEF IInv, HomeInv, LockIsHeld, LockHolds
<1>8. LoadedIsTheFile'
  <2> SUFFICES ASSUME NEW id \in Ids \ overtaken,
                      \A p \in requests' : ~(p.at \in {"reload", "loading"} /\ p.id = id)
               PROVE  loaded[id] = file[id]
    BY <1>1 DEF LoadedIsTheFile
  <2>1. \A p \in requests : ~(p.at \in {"reload", "loading"} /\ p.id = id)
    BY <1>4, <1>5
  <2>2. QED
    BY <2>1 DEF IInv, HomeInv, LoadedIsTheFile
<1>9. LoadingIsTheFile'
  <2>1. Fresh(q)'
    BY <1>1, <1>3, <1>4 DEF Fresh
  <2>2. QED
    BY <1>1, <1>5, <2>1 DEF IInv, HomeInv, LoadingIsTheFile, Fresh
<1>10. ASSUME NEW p \in requests' PROVE Sound(p)'
  <2>1. CASE p \in requests
    BY <1>1, <1>2, <2>1 DEF IInv, HomeInv, Sound, NyrasOwn, KindsStay
  <2>2. CASE p = q
    BY <1>1, <1>2, <1>4, <2>2 DEF IInv, HomeInv, Sound, NyrasOwn, KindsStay
  <2>3. QED
    BY <1>5, <2>1, <2>2
<1>11. ASSUME NEW id \in Turns PROVE NyrasOwn(id)'
  BY <1>1 DEF IInv, HomeInv, NyrasOwn
<1>12. QED
  BY <1>2, <1>6, <1>7, <1>8, <1>9, <1>10, <1>11 DEF IInv, HomeInv

LEMMA LoadsKeeps ==
  ASSUME IInv, NEW r \in requests, Loads(r)
  PROVE  IInv'
<1>1. /\ r.at = "loading" /\ r.op = "write" /\ r.id \in Ids
      /\ requests' = requests \ {r} /\ loaded' = [loaded EXCEPT ![r.id] = r.items[r.id]]
      /\ Delivered(r, "SUCCESS") /\ UNCHANGED <<lock, file, overtaken>>
  BY DEF Loads, Finished, IInv, HomeInv, Sound
<1>2. AskInv' /\ KindsStay
  BY <1>1, DeliveredKeeps
<1>3. /\ r.items[r.id] \in Automations \cup {None}
      /\ r.id \notin overtaken => r.items[r.id] = file[r.id]
  BY <1>1 DEF IInv, HomeInv, LoadingIsTheFile, Fresh
<1>4. HomeTyped' /\ LockHolds'
  BY <1>1, <1>3 DEF IInv, HomeInv, HomeTyped, LockHolds
<1>5. LockIsHeld' /\ LoadingIsTheFile'
  BY <1>1 DEF IInv, HomeInv, LockIsHeld, LockHolds, LoadingIsTheFile, Fresh
<1>6. ASSUME NEW q \in requests' PROVE Sound(q)'
  BY <1>1, <1>2 DEF IInv, HomeInv, Sound, NyrasOwn, KindsStay
<1>7. ASSUME NEW id \in Turns PROVE NyrasOwn(id)'
  BY <1>1 DEF IInv, HomeInv, NyrasOwn
<1>8. LoadedIsTheFile'
  <2> SUFFICES ASSUME NEW id \in Ids \ overtaken,
                      \A q \in requests' : ~(q.at \in {"reload", "loading"} /\ q.id = id)
               PROVE  loaded'[id] = file'[id]
    BY <1>1 DEF LoadedIsTheFile
  <2>1. CASE id = r.id
    BY <1>1, <1>3, <2>1 DEF IInv, HomeInv, HomeTyped
  <2>2. CASE id # r.id
    <3>1. loaded[id] = file[id]
      BY <1>1, <2>2 DEF IInv, HomeInv, LoadedIsTheFile
    <3>2. QED
      BY <1>1, <2>2, <3>1 DEF IInv, HomeInv, HomeTyped
  <2>3. QED
    BY <2>1, <2>2
<1>9. QED
  BY <1>2, <1>4, <1>5, <1>6, <1>7, <1>8 DEF IInv, HomeInv

LEMMA DeleteKeeps ==
  ASSUME IInv, NEW r \in requests, Delete(r)
  PROVE  IInv'
<1>1. /\ r.at = "holds" /\ r.items = file /\ r.id \in Ids
      /\ \A q \in requests \ {r} : q.at # "holds"
      /\ requests' = requests \ {r} /\ lock' = None
  BY AloneWithTheLock DEF Delete, Finished
<1>2. AskInv' /\ KindsStay
  BY DeliveredKeeps DEF Delete
<1>3. \/ UNCHANGED <<file, loaded, overtaken>>
      \/ /\ file' = [file EXCEPT ![r.id] = None] /\ Overtakes(r.id)
         /\ loaded' = [loaded EXCEPT ![r.id] = None]
  BY <1>1 DEF Delete
<1>4. file' \in [Ids -> Automations \cup {None}] /\ loaded' \in [Ids -> Automations \cup {None}]
  BY <1>3 DEF IInv, HomeInv, HomeTyped
<1>5. HomeTyped' /\ LockIsHeld' /\ LockHolds'
  BY <1>1, <1>4 DEF IInv, HomeInv, HomeTyped, LockIsHeld, LockHolds
<1>6. ASSUME NEW id \in Ids, NyrasOwn(id) PROVE NyrasOwn(id)'
  BY <1>3, <1>6 DEF NyrasOwn, IInv, HomeInv, HomeTyped
<1>7. ASSUME NEW q \in requests' PROVE Sound(q)'
  <2>1. Sound(q) /\ q.at # "holds"
    BY <1>1 DEF IInv, HomeInv
  <2>2. q.op \in {"write", "delete"} => q.id \in Ids /\ NyrasOwn(q.id)'
    BY <1>6, <2>1 DEF Sound
  <2>3. QED
    BY <1>2, <2>1, <2>2 DEF Sound, KindsStay
<1>8. ASSUME NEW id \in Turns PROVE NyrasOwn(id)'
  BY <1>6 DEF IInv, HomeInv, Ids
<1>9. LoadedIsTheFile'
  <2> SUFFICES ASSUME NEW id \in Ids \ overtaken',
                      \A q \in requests' : ~(q.at \in {"reload", "loading"} /\ q.id = id)
               PROVE  loaded'[id] = file'[id]
    BY DEF LoadedIsTheFile
  <2>1. id \notin overtaken
    BY <1>3 DEF Overtakes
  <2>2. loaded[id] = file[id]
    BY <1>1, <2>1 DEF IInv, HomeInv, LoadedIsTheFile
  <2>3. QED
    BY <1>3, <2>2 DEF IInv, HomeInv, HomeTyped
<1>10. LoadingIsTheFile'
  <2>1. CASE UNCHANGED <<file, overtaken>>
    BY <1>1, <2>1 DEF IInv, HomeInv, LoadingIsTheFile, Fresh
  <2>2. CASE file' = [file EXCEPT ![r.id] = None] /\ Overtakes(r.id)
    <3>1. \A id \in Ids \ {r.id} : file'[id] = file[id]
      BY <2>2 DEF IInv, HomeInv, HomeTyped
    <3>2. QED
      BY <1>1, <2>2, <3>1, OthersStayFresh
  <2>3. QED
    BY <1>3, <2>1, <2>2
<1>11. QED
  BY <1>2, <1>5, <1>7, <1>8, <1>9, <1>10 DEF IInv, HomeInv

LEMMA CompletesKeeps ==
  ASSUME IInv, NEW r \in requests, Completes(r)
  PROVE  IInv'
<1>1. /\ r.op = "complete" /\ r.at = "sent" /\ r.id \in Ids
      /\ UNCHANGED <<askedVars, port, lock, file, loaded, overtaken>>
  BY DEF Completes, IInv, HomeInv, Sound
<1>2. AskInv' /\ KindsStay
  BY <1>1, AskedStands DEF IInv
<1>3. CASE Finished(r)
  BY <1>1, <1>2, <1>3, Drops
<1>4. CASE file[r.id] # None /\ file[r.id].managed /\ Becomes(r, [r EXCEPT !.op = "delete"])
  <2>0. PICK q \in Requests :
          /\ q = [r EXCEPT !.op = "delete"]
          /\ q.by = r.by /\ q.op = "delete" /\ q.id = r.id /\ q.at = "sent"
    <3> DEFINE q == [r EXCEPT !.op = "delete"]
               Items == [Ids -> Managed \cup Manuals \cup {None}] \cup {None}
    <3>1. r \in [by : Turns \cup {None}, op : {"invoke", "write", "delete", "complete"},
                 id : Targets \cup Turns, at : {"sent", "holds", "reload", "loading"}, items : Items]
      BY DEF IInv, HomeInv, HomeTyped, Requests
    <3> HIDE DEF Items
    <3>2. /\ q \in [by : Turns \cup {None}, op : {"invoke", "write", "delete", "complete"},
                    id : Targets \cup Turns, at : {"sent", "holds", "reload", "loading"}, items : Items]
          /\ q.by = r.by /\ q.op = "delete" /\ q.id = r.id /\ q.at = "sent"
      BY <1>1, <3>1
    <3>3. q \in Requests
      <4> HIDE DEF q
      <4>1. QED
        BY <3>2 DEF Items, Requests
    <3>4. QED
      BY <3>2, <3>3
  <2>1. requests' = (requests \ {r}) \cup {q}
    BY <1>4, <2>0 DEF Becomes
  <2>2. HomeTyped' /\ LockHolds'
    BY <1>1, <2>1 DEF IInv, HomeInv, HomeTyped, LockHolds
  <2>3. LockIsHeld'
    BY <1>1, <2>0, <2>1 DEF IInv, HomeInv, LockIsHeld, LockHolds
  <2>4. LoadedIsTheFile' /\ LoadingIsTheFile'
    BY <1>1, <2>0, <2>1 DEF IInv, HomeInv, LoadedIsTheFile, LoadingIsTheFile, Fresh
  <2>5. ASSUME NEW p \in requests' PROVE Sound(p)'
    <3>1. CASE p \in requests
      BY <1>1, <1>2, <3>1 DEF IInv, HomeInv, Sound, NyrasOwn, KindsStay
    <3>2. CASE p = q
      BY <1>1, <1>2, <1>4, <2>0, <3>2 DEF IInv, HomeInv, Sound, NyrasOwn, KindsStay
    <3>3. QED
      BY <2>1, <3>1, <3>2
  <2>6. ASSUME NEW id \in Turns PROVE NyrasOwn(id)'
    BY <1>1 DEF IInv, HomeInv, NyrasOwn
  <2>7. QED
    BY <1>2, <2>2, <2>3, <2>4, <2>5, <2>6 DEF IInv, HomeInv
<1>5. QED
  BY <1>3, <1>4 DEF Completes

LEMMA FiresKeeps ==
  ASSUME IInv, NEW id \in Ids, Fires(id)
  PROVE  IInv'
<1>1. PICK q \in Requests :
        q = Completion(id) /\ q.by = None /\ q.op = "complete" /\ q.id = id /\ q.at = "sent"
  <2>1. id \in Targets \cup Turns /\ None \in Turns \cup {None}
    BY DEF Ids, Targets
  <2>2. QED
    BY <2>1, RequestIsSent DEF Completion
<1>2. requests' = requests \cup {q} /\ UNCHANGED <<askedVars, port, lock, file, loaded, overtaken>>
  BY <1>1 DEF Fires
<1>3. AskInv' /\ KindsStay
  BY <1>2, AskedStands DEF IInv
<1>4. Sound(q)'
  BY <1>1, NoneIsNone DEF Sound
<1>5. QED
  BY <1>1, <1>2, <1>3, <1>4, OneMore DEF IInv

LEMMA RestartKeeps ==
  ASSUME IInv, Restart
  PROVE  IInv'
<1>1. /\ requests' = {} /\ lock' = None /\ loaded' = file
      /\ UNCHANGED <<askedVars, port, file>>
  BY DEF Restart
<1>2. AskInv'
  BY <1>1, AskedStands DEF IInv
<1>3. QED
  BY <1>1, <1>2 DEF IInv, HomeInv, HomeTyped, LockIsHeld, LockHolds, LoadedIsTheFile, LoadingIsTheFile,
     NyrasOwn

-----------------------------------------------------------------------------
LEMMA StepPreserves ==
  ASSUME IInv, [Next]_vars
  PROVE  IInv'
<1>1. ASSUME NEW t \in Turns, Starts(t) \/ Router(t) \/ TimesOut(t) PROVE IInv'
  BY <1>1, StartsKeep, RouterKeeps, TimesOutKeeps
<1>2. ASSUME NEW r \in requests, Home(r) PROVE IInv'
  BY <1>2, InvokeKeeps, ReadKeeps, WriteKeeps, ReloadKeeps, LoadsKeeps, DeleteKeeps,
     CompletesKeeps DEF Home
<1>3. ASSUME NEW r \in requests, Invalid(r) PROVE IInv'
  <2>1. AskInv' /\ KindsStay
    BY <1>3, DeliveredKeeps DEF Invalid
  <2>2. QED
    BY <1>3, <2>1, Drops DEF Invalid
<1>4. ASSUME NEW r \in requests, NeverArrives(r) PROVE IInv'
  <2>1. AskInv' /\ KindsStay
    BY <1>4, AskedStands DEF NeverArrives, IInv
  <2>2. QED
    BY <1>4, <2>1, Drops DEF NeverArrives
<1>5. ASSUME NEW id \in Ids, Fires(id) PROVE IInv'
  BY <1>5, FiresKeeps
<1>6. CASE Restart
  BY <1>6, RestartKeeps
<1>7. CASE UNCHANGED vars
  <2>1. AskInv' /\ KindsStay /\ UNCHANGED home
    BY <1>7, AskedStands DEF vars, homeVars, home, IInv
  <2>2. QED
    BY <2>1, HomeStands DEF IInv
<1>8. QED
  BY <1>1, <1>2, <1>3, <1>4, <1>5, <1>6, <1>7 DEF Next

LEMMA Invariant == Spec => []IInv
<1>1. Init => IInv
  BY Initially
<1>2. IInv /\ [Next]_vars => IInv'
  BY StepPreserves
<1>3. QED
  BY <1>1, <1>2, PTL DEF Spec

(* NyraAutomationBackend's lock: whoever holds it is at work, and alone.   *)
THEOREM OneHoldsTheLock == Spec => []LockIsHeld
<1>1. IInv => LockIsHeld
  BY DEF IInv, HomeInv
<1>2. QED
  BY <1>1, Invariant, PTL

(* write, delete and _reload: Home Assistant runs what is in its file, but *)
(* for what it is still to load and for what a change overtook in the      *)
(* midst of its loading, whatever fails or restarts.                       *)
THEOREM RunsWhatIsWritten == Spec => []LoadedIsTheFile
<1>1. IInv => LoadedIsTheFile
  BY DEF IInv, HomeInv
<1>2. QED
  BY <1>1, Invariant, PTL

(* The file is rewritten as a whole, under the lock, and after checks made *)
(* before it: a change is of the automation that is meant, and of Nyra's.  *)
THEOREM ChangesAreOfNyrasOwn == Spec => OthersAreKept
<1> DEFINE Kept ==
      \A id \in Ids :
        file'[id] # file[id] =>
          /\ \E r \in requests : r.id = id /\ r.at = "holds"
          /\ file[id] # None => file[id].managed
<1>1. IInv /\ [Next]_vars => [Kept]_vars
  <2> SUFFICES ASSUME IInv, Next PROVE Kept
    OBVIOUS
  <2>1. CASE UNCHANGED file
    BY <2>1
  <2>2. ASSUME NEW r \in requests, Write(r) \/ Delete(r) PROVE Kept
    <3>1. r.at = "holds" /\ r.items = file /\ r.id \in Ids /\ NyrasOwn(r.id)
      BY <2>2, AloneWithTheLock DEF Write, Delete
    <3>2. \A id \in Ids : id # r.id => file'[id] = file[id]
      BY <2>2, <3>1 DEF Write, Delete, IInv, HomeInv, HomeTyped
    <3>3. QED
      BY <3>1, <3>2 DEF NyrasOwn
  <2>3. QED
    <3>1. ASSUME NEW t \in Turns, Starts(t) PROVE UNCHANGED file
      BY <3>1 DEF Starts, Command, Create, Plan, Api, homeVars
    <3>2. ASSUME NEW t \in Turns, Router(t) PROVE UNCHANGED file
      BY <3>2 DEF Router, Step, Ends, Execute, ListAndWrite, ReadAndChange, homeVars
    <3>3. ASSUME NEW t \in Turns, TimesOut(t) PROVE UNCHANGED file
      BY <3>3 DEF TimesOut, SkillsTimesOut, CallTimesOut, StateRaises, RequestTimesOut, homeVars
    <3>4. ASSUME NEW r \in requests,
                 Invoke(r) \/ Read(r) \/ Reload(r) \/ Loads(r) \/ Completes(r)
                   \/ Invalid(r) \/ NeverArrives(r)
          PROVE  UNCHANGED file
      BY <3>4 DEF Invoke, Read, Reload, Loads, Completes, Invalid, NeverArrives
    <3>5. ASSUME NEW id \in Ids, Fires(id) PROVE UNCHANGED file
      BY <3>5 DEF Fires
    <3>6. CASE Restart
      BY <2>1, <3>6 DEF Restart
    <3>7. QED
      BY <2>1, <2>2, <3>1, <3>2, <3>3, <3>4, <3>5, <3>6 DEF Next, Home
<1>2. QED
  BY <1>1, Invariant, PTL DEF Spec, OthersAreKept

-----------------------------------------------------------------------------
(* What a turn is told.  Beside the above: a target counts as done once    *)
(* Home Assistant said so, which it does after it did it; and what asks or *)
(* refuses comes before anything was sent.                                 *)

Nothing(t) == performed[t] = {} /\ t \notin written /\ \A r \in requests : r.by # t

Honest(t) ==
  /\ turn[t].kind = None => turn[t].told = None /\ run[t].done = {} /\ Nothing(t)
  /\ turn[t].kind \in ViaApi => run[t].at = "none"
  /\ turn[t].kind = "create" /\ run[t].left # <<>> => Tail(run[t].left) = <<>>
  /\ turn[t].kind = "create" /\ run[t].at = "next" /\ run[t].left # <<>> => Nothing(t)
  /\ turn[t].kind = "create" /\ run[t].done # {} => t \in written
  /\ turn[t].kind \in {"command", "plan"} => run[t].done \subseteq performed[t]
  /\ turn[t].kind = "plan" /\ run[t].at # "none" /\ ~run[t].failed =>
       run[t].done # {} \/ run[t].left # <<>>
  /\ port[t].at # "none" => run[t].at # "next"
  /\ run[t].at = "call" /\ port[t].at # "none" => port[t].target = Target(t)
  /\ port[t].at = "state" => turn[t].kind \in {"command", "plan"}
  /\ port[t].at \in {"list", "read"} => Nothing(t)
  /\ turn[t].told = "done" =>
       /\ turn[t].kind \in {"command", "plan"} => run[t].done # {}
       /\ turn[t].kind \in {"create", "update"} => t \in written
  /\ turn[t].told \in {"refused", "asked"} =>
       Nothing(t) /\ port[t].at = "none" /\ run[t].at \in {"none", "end"}

(* What was sent is what its turn is for; a reload comes after the write.  *)
Ordered(r) ==
  /\ r.op = "complete" => r.by = None
  /\ r.op = "invoke" => r.by \in Turns
  /\ r.by \in Turns =>
       /\ r.op = "invoke" => turn[r.by].kind \in {"command", "plan"}
       /\ r.op = "write" => turn[r.by].kind \in {"create", "update"}
       /\ r.op = "delete" => turn[r.by].kind = "delete"
  /\ r.at \in {"reload", "loading"} => r.by \in written

HistoryTyped == performed \in [Turns -> SUBSET (Targets \cup Turns)] /\ written \subseteq Turns

ToldInv ==
  /\ HistoryTyped
  /\ \A t \in Turns : Honest(t)
  /\ \A r \in requests : Ordered(r)

LEMMA InitiallyHonest ==
  ASSUME Init PROVE ToldInv
<1>1. /\ NoTurn.kind = None /\ NoTurn.told = None /\ NoRun.done = {} /\ NoRun.at = "none"
      /\ NoPort.at = "none"
  BY DEF NoTurn, NoRun, NoPort
<1>2. /\ \A t \in Turns : turn[t] = NoTurn /\ run[t] = NoRun /\ port[t] = NoPort
      /\ \A t \in Turns : Nothing(t)
  BY DEF Init, Nothing
<1>3. \A t \in Turns : Honest(t)
  BY <1>1, <1>2, NoneIsNone DEF Honest, Kinds, ViaSkills, ViaApi
<1>4. HistoryTyped /\ \A r \in requests : Ordered(r)
  BY DEF Init, HistoryTyped
<1>5. QED
  BY <1>3, <1>4 DEF ToldInv

(* A turn that nothing was done for is told nothing else than before.      *)
LEMMA TurnStands ==
  ASSUME ToldInv, NEW t \in Turns,
         turn'[t] = turn[t], run'[t] = run[t], port'[t] = port[t],
         performed[t] \subseteq performed'[t], t \in written => t \in written',
         Nothing(t) => Nothing(t)'
  PROVE  Honest(t)'
BY DEF ToldInv, Honest, Target

LEMMA OrderStands ==
  ASSUME NEW r, Ordered(r), r.by \in Turns => turn[r.by].kind # None,
         \A t \in Turns : turn[t].kind \in {None, turn'[t].kind}, written \subseteq written'
  PROVE  Ordered(r)'
BY DEF Ordered

LEMMA OthersHonest ==
  ASSUME IInv, ToldInv, HistoryTyped', written \subseteq written', NEW T \in SUBSET Turns,
         \A u \in Turns \ T :
           /\ turn'[u] = turn[u] /\ run'[u] = run[u] /\ port'[u] = port[u]
           /\ performed'[u] = performed[u] /\ (u \in written' <=> u \in written),
         \A t \in T : turn[t].kind \in {None, turn'[t].kind} /\ Honest(t)',
         \A r \in requests' :
           \/ r \in requests
           \/ /\ Ordered(r)'
              /\ r.by \in T \/ r.by \notin Turns \/ \E q \in requests : q.by = r.by
  PROVE  ToldInv'
<1>1. ASSUME NEW u \in Turns \ T PROVE Honest(u)'
  <2>1. Nothing(u) => Nothing(u)'
    BY DEF Nothing
  <2>2. QED
    BY <2>1, TurnStands
<1>2. ASSUME NEW r \in requests PROVE Ordered(r)'
  <2>1. Ordered(r) /\ (r.by \in Turns => turn[r.by].kind # None)
    BY DEF ToldInv, IInv, HomeInv, Sound
  <2>2. \A t \in Turns : turn[t].kind \in {None, turn'[t].kind}
    OBVIOUS
  <2>3. QED
    BY <2>1, <2>2, OrderStands
<1>3. QED
  BY <1>1, <1>2 DEF ToldInv

LEMMA OneHonest ==
  ASSUME IInv, ToldInv, NEW t \in Turns,
         \A u \in Turns \ {t} : turn'[u] = turn[u] /\ run'[u] = run[u] /\ port'[u] = port[u],
         UNCHANGED <<performed, written>>,
         turn[t].kind \in {None, turn'[t].kind}, Honest(t)',
         \A r \in requests' : r \in requests \/ (r.by = t /\ Ordered(r)')
  PROVE  ToldInv'
<1> DEFINE T == {t}
<1>1. T \in SUBSET Turns /\ HistoryTyped' /\ written \subseteq written'
  BY DEF ToldInv, HistoryTyped
<1>2. \A u \in T : turn[u].kind \in {None, turn'[u].kind} /\ Honest(u)'
  OBVIOUS
<1>3. \A u \in Turns \ T :
        /\ turn'[u] = turn[u] /\ run'[u] = run[u] /\ port'[u] = port[u]
        /\ performed'[u] = performed[u] /\ (u \in written' <=> u \in written)
  OBVIOUS
<1>4. \A r \in requests' :
        \/ r \in requests
        \/ /\ Ordered(r)'
           /\ r.by \in T \/ r.by \notin Turns \/ \E q \in requests : q.by = r.by
  OBVIOUS
<1> HIDE DEF T
<1>5. QED
  BY <1>1, <1>2, <1>3, <1>4, OthersHonest

(* The answer of the port, when it is true and Home Assistant was not      *)
(* asked before a refusal.                                                 *)
LEMMA AnswersHonest ==
  ASSUME IInv, ToldInv, NEW t \in Turns, port[t].at # "none",
         NEW outcome \in Outcomes, Answers(t, outcome),
         performed[t] \subseteq performed'[t], t \in written' <=> t \in written,
         Nothing(t) => Nothing(t)',
         outcome = "SUCCESS" =>
           /\ turn[t].kind \in {"command", "plan"} => port[t].target \in performed'[t]
           /\ turn[t].kind \in {"create", "update"} => t \in written,
         outcome \in {"DENIED", "AMBIGUOUS"} => Nothing(t)
  PROVE  /\ Honest(t)' /\ turn'[t].kind = turn[t].kind
         /\ \A u \in Turns \ {t} : turn'[u] = turn[u] /\ run'[u] = run[u] /\ port'[u] = port[u]
<1>1. /\ Honest(t) /\ turn[t].kind # None /\ Asking(t)
      /\ turn[t] \in TurnStates /\ run[t] \in RunStates
      /\ turn \in [Turns -> TurnStates] /\ run \in [Turns -> RunStates]
      /\ port \in [Turns -> PortStates]
  BY PortBusy DEF ToldInv, IInv, AskInv, AskTyped
<1>2. port'[t] = NoPort /\ NoPort.at = "none" /\ \A u \in Turns \ {t} : port'[u] = port[u]
  BY <1>1 DEF Answers, NoPort
<1>3. turn[t].told \notin {"refused", "asked"}
  BY <1>1 DEF Honest
<1>4. CASE turn[t].kind \in ViaApi
  <2>1. PICK what \in {"done", "refused", "failed"} :
          /\ turn' = [turn EXCEPT ![t].told = what] /\ UNCHANGED run
          /\ what = "done" => outcome = "SUCCESS"
          /\ what = "refused" => outcome = "DENIED"
    BY <1>4 DEF Answers, Collect, Told
  <2>2. /\ turn'[t].kind = turn[t].kind /\ turn'[t].told = what
        /\ \A u \in Turns \ {t} : turn'[u] = turn[u]
    BY <1>1, <2>1 DEF TurnStates
  <2>3. Honest(t)'
    BY <1>1, <1>2, <1>4, <2>1, <2>2 DEF Honest, ViaApi
  <2>4. QED
    BY <1>2, <2>1, <2>2, <2>3
<1>5. CASE turn[t].kind \notin ViaApi /\ run[t].at # "call"
  <2>1. UNCHANGED <<turn, run>>
    BY <1>5 DEF Answers, Collect, askedVars
  <2>2. Honest(t)'
    BY <1>1, <1>2, <1>3, <1>5, <2>1 DEF Honest
  <2>3. QED
    BY <1>2, <2>1, <2>2
<1>6. CASE turn[t].kind \notin ViaApi /\ run[t].at = "call" /\ outcome = "AMBIGUOUS"
  <2>1. /\ run' = [run EXCEPT ![t].at = "end"]
        /\ IF turn[t].told = None THEN turn' = [turn EXCEPT ![t].told = "asked"]
           ELSE UNCHANGED turn
    BY <1>1, <1>6 DEF Answers, Collect, TellIfWaiting, Told
  <2>2. /\ turn'[t].kind = turn[t].kind
        /\ turn'[t].told = IF turn[t].told = None THEN "asked" ELSE turn[t].told
        /\ run'[t].at = "end" /\ run'[t].left = run[t].left /\ run'[t].done = run[t].done
        /\ run'[t].failed = run[t].failed
        /\ \A u \in Turns \ {t} : turn'[u] = turn[u] /\ run'[u] = run[u]
    BY <1>1, <2>1 DEF TurnStates, RunStates
  <2>3. Honest(t)'
    BY <1>1, <1>2, <1>3, <1>6, <2>2 DEF Honest
  <2>4. QED
    BY <1>2, <2>2, <2>3
<1>7. CASE turn[t].kind \notin ViaApi /\ run[t].at = "call" /\ outcome # "AMBIGUOUS"
  <2>1. /\ UNCHANGED turn
        /\ run'[t].at = "next" /\ run'[t].left = Tail(run[t].left)
        /\ run'[t].done = IF outcome = "SUCCESS" THEN run[t].done \cup {Target(t)}
                          ELSE run[t].done
        /\ run'[t].failed = (run[t].failed \/ outcome # "SUCCESS")
        /\ \A u \in Turns \ {t} : run'[u] = run[u]
    BY <1>1, <1>7 DEF Answers, Collect
  <2>2. run[t].left # <<>> /\ port[t].target = Target(t)
    BY <1>1, <1>7 DEF Asking, Honest
  <2>3. Honest(t)'
    BY <1>1, <1>2, <1>3, <1>7, <2>1, <2>2 DEF Honest
  <2>4. QED
    BY <1>2, <2>1, <2>3
<1>8. QED
  BY <1>4, <1>5, <1>6, <1>7

LEMMA StartsHonest ==
  ASSUME IInv, ToldInv, NEW t \in Turns, Starts(t)
  PROVE  ToldInv'
<1>1. /\ Idle(t) /\ Honest(t) /\ Asking(t) /\ run[t] \in RunStates
      /\ turn \in [Turns -> TurnStates] /\ run \in [Turns -> RunStates]
      /\ port \in [Turns -> PortStates]
  BY DEF Starts, Command, Create, Plan, Api, ToldInv, IInv, AskInv, AskTyped
<1>2. /\ turn[t].kind = None /\ turn[t].told = None /\ run[t].done = {} /\ Nothing(t)
      /\ run[t].at = "none" /\ port[t].at = "none"
  BY <1>1 DEF Honest, Asking, Idle
<1>3. UNCHANGED <<performed, written, requests>>
  BY DEF Starts, Command, Create, Plan, Api, homeVars
<1>4. Nothing(t)'
  BY <1>2, <1>3 DEF Nothing
<1>5. CASE Command(t)
  <2>1. PICK targets : run' = [run EXCEPT ![t] = [run[t] EXCEPT !.at = "next", !.left = targets]]
    BY <1>5 DEF Command
  <2>2. /\ turn'[t].kind = "command" /\ turn'[t].told = None /\ port' = port
        /\ run'[t].at = "next" /\ run'[t].done = {}
        /\ \A u \in Turns \ {t} : turn'[u] = turn[u] /\ run'[u] = run[u]
    BY <1>1, <1>2, <1>5, <2>1 DEF Command, Begin, NoTurn, RunStates
  <2>3. Honest(t)'
    BY <1>2, <1>4, <2>2, NoneIsNone DEF Honest, ViaApi
  <2>4. QED
    BY <1>2, <1>3, <2>2, <2>3, OneHonest
<1>6. CASE Create(t)
  <2>1. run' = [run EXCEPT ![t] = [run[t] EXCEPT !.at = "next", !.left = <<t>>]]
    BY <1>6 DEF Create
  <2>2. PICK b : turn' = [turn EXCEPT ![t] =
                   [NoTurn EXCEPT !.kind = "create", !.id = t, !.behavior = b]]
    BY <1>6 DEF Create, Begin
  <2>3. /\ turn'[t].kind = "create" /\ turn'[t].told = None /\ port' = port
        /\ run'[t].at = "next" /\ run'[t].done = {} /\ run'[t].left = <<t>>
        /\ \A u \in Turns \ {t} : turn'[u] = turn[u] /\ run'[u] = run[u]
    BY <1>1, <1>2, <1>6, <2>1, <2>2 DEF Create, NoTurn, RunStates
  <2>4. Tail(<<t>>) = <<>>
    OBVIOUS
  <2>5. Honest(t)'
    BY <1>2, <1>4, <2>3, <2>4, NoneIsNone DEF Honest, ViaApi
  <2>6. QED
    BY <1>2, <1>3, <2>3, <2>5, OneHonest
<1>7. CASE Plan(t)
  <2>1. PICK plan \in Plans :
          \/ /\ Begin(t, "plan", None, None)
             /\ run' = [run EXCEPT ![t] = [run[t] EXCEPT !.at = "next", !.left = plan]]
          \/ /\ \E told \in {"refused", "failed"} :
                  turn' = [turn EXCEPT ![t] = [NoTurn EXCEPT !.kind = "plan", !.told = told]]
             /\ UNCHANGED run
    BY <1>7 DEF Plan
  <2>2. plan # <<>>
    BY DEF Plans
  <2>3. /\ turn'[t].kind = "plan" /\ turn'[t].told \in {None, "refused", "failed"} /\ port' = port
        /\ run'[t].done = {} /\ run'[t].at # "call"
        /\ turn'[t].told # None => run'[t].at = "none"
        /\ run'[t].at # "none" => run'[t].left = plan
        /\ \A u \in Turns \ {t} : turn'[u] = turn[u] /\ run'[u] = run[u]
    <3>1. CASE /\ Begin(t, "plan", None, None)
               /\ run' = [run EXCEPT ![t] = [run[t] EXCEPT !.at = "next", !.left = plan]]
      BY <1>1, <1>2, <1>7, <3>1 DEF Plan, Begin, NoTurn, RunStates
    <3>2. CASE /\ \E told \in {"refused", "failed"} :
                    turn' = [turn EXCEPT ![t] = [NoTurn EXCEPT !.kind = "plan", !.told = told]]
               /\ UNCHANGED run
      BY <1>1, <1>2, <1>7, <3>2 DEF Plan, NoTurn
    <3>3. QED
      BY <2>1, <3>1, <3>2
  <2>4. Honest(t)'
    BY <1>2, <1>4, <2>2, <2>3, NoneIsNone DEF Honest, ViaApi, Kinds
  <2>5. QED
    BY <1>2, <1>3, <2>3, <2>4, OneHonest
<1>8. CASE Api(t)
  <2>1. PICK kind, id, behavior : kind \in ViaApi /\ Begin(t, kind, id, behavior)
    BY <1>8 DEF Api, ViaApi
  <2>2. /\ turn'[t].kind \in ViaApi /\ turn'[t].told = None /\ run' = run
        /\ port'[t].at = "read"
        /\ \A u \in Turns \ {t} : turn'[u] = turn[u] /\ port'[u] = port[u]
    BY <1>1, <1>8, <2>1 DEF Api, Begin, NoTurn
  <2>3. Honest(t)'
    BY <1>2, <1>4, <2>2, NoneIsNone DEF Honest, ViaApi, Kinds
  <2>4. QED
    BY <1>2, <1>3, <2>2, <2>3, OneHonest
<1>9. QED
  BY <1>5, <1>6, <1>7, <1>8 DEF Starts

(* A turn that gives up, or is at its end, is told so.                     *)
LEMMA EndsHonest ==
  ASSUME IInv, ToldInv, NEW t \in Turns, turn[t].kind # None,
         \/ run' = [run EXCEPT ![t].at = "end"] /\ run[t].at # "none"
         \/ UNCHANGED run,
         port' = [port EXCEPT ![t] = NoPort] \/ UNCHANGED port,
         NEW what \in {"done", "failed"}, Told(t, what) \/ TellIfWaiting(t, what),
         Told(t, what) => turn[t].told \in {None, what},
         what = "done" => turn[t].kind \notin ViaApi /\ run[t].done # {},
         UNCHANGED <<performed, written, requests>>
  PROVE  ToldInv'
<1>1. /\ Honest(t) /\ turn \in [Turns -> TurnStates] /\ run \in [Turns -> RunStates]
      /\ port \in [Turns -> PortStates] /\ NoPort.at = "none"
  BY DEF ToldInv, IInv, AskInv, AskTyped, NoPort
<1>2. /\ turn'[t].kind = turn[t].kind
      /\ turn'[t].told = IF turn[t].told = None THEN what ELSE turn[t].told
      /\ \A u \in Turns \ {t} : turn'[u] = turn[u]
  BY <1>1 DEF Told, TellIfWaiting, TurnStates
<1>3. /\ run'[t].at = run[t].at \/ (run'[t].at = "end" /\ run[t].at # "none")
      /\ run'[t].left = run[t].left /\ run'[t].done = run[t].done
      /\ run'[t].failed = run[t].failed
      /\ \A u \in Turns \ {t} : run'[u] = run[u]
  BY <1>1 DEF RunStates
<1>4. port'[t] \in {NoPort, port[t]} /\ \A u \in Turns \ {t} : port'[u] = port[u]
  BY <1>1
<1>5. Nothing(t) => Nothing(t)'
  BY DEF Nothing
<1>6. Honest(t)'
  <2>1. CASE turn'[t].told = turn[t].told
    BY <1>1, <1>2, <1>3, <1>4, <1>5, <2>1 DEF Honest, Target
  <2>2. CASE turn[t].told = None /\ turn'[t].told = what
    BY <1>1, <1>2, <1>3, <1>4, <1>5, <2>2 DEF Honest, Target, ViaApi
  <2>3. QED
    BY <1>2, <2>1, <2>2
<1>7. QED
  BY <1>2, <1>3, <1>4, <1>6, OneHonest

(* The port sends what its turn is for, and was not told otherwise.        *)
LEMMA SendsHonest ==
  ASSUME IInv, ToldInv, NEW t \in Turns, port[t].at \in {"state", "list", "read"},
         NEW op \in {"invoke", "write", "delete"},
         op = "invoke" => turn[t].kind \in {"command", "plan"},
         op = "write" => turn[t].kind \in {"create", "update"},
         op = "delete" => turn[t].kind = "delete",
         Sends(t, op), UNCHANGED <<askedVars, performed, written>>
  PROVE  ToldInv'
<1>1. /\ Honest(t) /\ Asking(t) /\ port \in [Turns -> PortStates]
      /\ turn' = turn /\ run' = run /\ turn[t].kind # None
  BY PortBusy DEF ToldInv, IInv, AskInv, AskTyped, askedVars
<1>2. /\ port'[t].at = "sent" /\ port'[t].target = port[t].target
      /\ \A u \in Turns \ {t} : port'[u] = port[u]
  BY <1>1 DEF Sends, PortStates
<1>3. PICK q : /\ requests' = requests \cup {q} /\ q.by = t /\ q.op = op /\ q.at = "sent"
  <2> DEFINE q == Request(t, op, port[t].target)
  <2>1. q.by = t /\ q.op = op /\ q.at = "sent"
    BY DEF Request
  <2>2. requests' = requests \cup {q}
    BY DEF Sends
  <2>3. QED
    BY <2>1, <2>2
<1>4. Honest(t)'
  <2>1. turn[t].told \notin {"refused", "asked"} /\ run[t].at # "next"
    BY <1>1 DEF Honest
  <2>2. QED
    BY <1>1, <1>2, <2>1 DEF Honest, Target
<1>5. Ordered(q)'
  BY <1>1, <1>3 DEF Ordered
<1>6. QED
  BY <1>1, <1>2, <1>3, <1>4, <1>5, OneHonest

LEMMA PortAnswersHonest ==
  ASSUME IInv, ToldInv, NEW t \in Turns, port[t].at # "none",
         NEW outcome \in Outcomes, outcome # "SUCCESS", Answers(t, outcome),
         outcome \in {"DENIED", "AMBIGUOUS"} => Nothing(t),
         UNCHANGED <<performed, written, requests>>
  PROVE  ToldInv'
<1>1. Nothing(t) => Nothing(t)'
  BY DEF Nothing
<1>2. /\ Honest(t)' /\ turn'[t].kind = turn[t].kind
      /\ \A u \in Turns \ {t} : turn'[u] = turn[u] /\ run'[u] = run[u] /\ port'[u] = port[u]
  BY <1>1, AnswersHonest
<1>3. QED
  BY <1>2, OneHonest
LEMMA RouterHonest ==
  ASSUME IInv, ToldInv, NEW t \in Turns, Router(t)
  PROVE  ToldInv'
<1>1. /\ Honest(t) /\ Asking(t) /\ turn[t] \in TurnStates
      /\ turn \in [Turns -> TurnStates] /\ run \in [Turns -> RunStates]
      /\ port \in [Turns -> PortStates]
      /\ UNCHANGED <<performed, written>>
  BY DEF ToldInv, IInv, AskInv, AskTyped, Router, Step, Ends, Execute, ListAndWrite,
     ReadAndChange, homeVars
<1>2. CASE Step(t)
  <2>1. /\ run[t].at = "next" /\ run[t].left # <<>> /\ UNCHANGED <<turn, requests>>
        /\ turn[t].kind \in {"command", "plan", "create"}
    BY <1>1, <1>2, PortBusy DEF Step, homeVars, IInv, Honest, TurnStates, Kinds, ViaSkills
  <2>2. /\ run'[t].at = "call" /\ run'[t].left = run[t].left /\ run'[t].done = run[t].done
        /\ run'[t].failed = run[t].failed
        /\ port'[t].at = IF turn[t].kind = "create" THEN "list" ELSE "state"
        /\ port'[t].target = Head(run[t].left)
        /\ \A u \in Turns \ {t} : run'[u] = run[u] /\ port'[u] = port[u]
    BY <1>1, <1>2 DEF Step, RunStates, Target
  <2>3. Nothing(t) => Nothing(t)'
    BY <1>1, <2>1 DEF Nothing
  <2>4. Honest(t)'
    BY <1>1, <2>1, <2>2, <2>3 DEF Honest, Target, ViaApi
  <2>5. QED
    BY <1>1, <2>1, <2>2, <2>4, OneHonest
<1>3. CASE Ends(t)
  <2>1. /\ run[t].at = "next" /\ run[t].left = <<>> /\ UNCHANGED <<port, requests>>
        /\ run' = [run EXCEPT ![t].at = "end"] /\ TellIfWaiting(t, Outcome(t))
    BY <1>3 DEF Ends, homeVars
  <2>2. turn[t].kind # None /\ turn[t].kind \notin ViaApi
    BY <1>1, <2>1, PortBusy DEF IInv, Honest
  <2>3. Outcome(t) \in {"done", "failed"} /\ (Outcome(t) = "done" => run[t].done # {})
    BY <1>1, <2>1 DEF Outcome, Honest
  <2>4. Told(t, Outcome(t)) => turn[t].told \in {None, Outcome(t)}
    <3>1. CASE turn[t].told # None /\ UNCHANGED turn /\ Told(t, Outcome(t))
      <4>1. turn'[t].told = Outcome(t)
        BY <1>1, <3>1 DEF Told, TurnStates
      <4>2. QED
        BY <3>1, <4>1
    <3>2. QED
      BY <2>1, <3>1 DEF TellIfWaiting
  <2>5. QED
    BY <1>1, <2>1, <2>2, <2>3, <2>4, EndsHonest
<1>4. CASE Execute(t)
  <2>1. port[t].at = "state" /\ turn[t].kind \in {"command", "plan"} /\ "NOT_FOUND" \in Outcomes
    BY <1>1, <1>4 DEF Execute, Honest, Outcomes
  <2>2. QED
    BY <1>1, <1>4, <2>1, PortAnswersHonest, SendsHonest DEF Execute
<1>5. CASE ListAndWrite(t)
  <2>1. /\ port[t].at = "list" /\ turn[t].kind = "create" /\ Nothing(t)
        /\ "AMBIGUOUS" \in Outcomes
    BY <1>1, <1>5 DEF ListAndWrite, Honest, Asking, Outcomes
  <2>2. QED
    BY <1>1, <1>5, <2>1, PortAnswersHonest, SendsHonest DEF ListAndWrite
<1>6. CASE ReadAndChange(t)
  <2>1. /\ port[t].at = "read" /\ turn[t].kind \in {"update", "delete"} /\ Nothing(t)
        /\ {"NOT_FOUND", "DENIED"} \subseteq Outcomes
    BY <1>1, <1>6 DEF ReadAndChange, Honest, Asking, Outcomes, ViaApi
  <2>2. CASE (Answers(t, "NOT_FOUND") \/ Answers(t, "DENIED")) /\ UNCHANGED requests
    BY <1>1, <2>1, <2>2, PortAnswersHonest
  <2>3. CASE Sends(t, IF turn[t].kind = "update" THEN "write" ELSE "delete")
               /\ UNCHANGED askedVars
    BY <1>1, <2>1, <2>3, SendsHonest
  <2>4. QED
    BY <1>6, <2>2, <2>3 DEF ReadAndChange
<1>7. QED
  BY <1>2, <1>3, <1>4, <1>5, <1>6 DEF Router

LEMMA TimesOutHonest ==
  ASSUME IInv, ToldInv, NEW t \in Turns, TimesOut(t)
  PROVE  ToldInv'
<1>1. /\ Honest(t) /\ turn[t] \in TurnStates
      /\ turn \in [Turns -> TurnStates] /\ run \in [Turns -> RunStates]
      /\ port \in [Turns -> PortStates]
      /\ UNCHANGED <<performed, written, requests>>
  BY DEF ToldInv, IInv, AskInv, AskTyped, TimesOut, SkillsTimesOut, CallTimesOut, StateRaises,
     RequestTimesOut, homeVars
<1>2. TellIfWaiting(t, "failed") /\ Told(t, "failed") => turn[t].told \in {None, "failed"}
  <2>1. CASE turn[t].told # None /\ UNCHANGED turn /\ Told(t, "failed")
    BY <1>1, <2>1 DEF Told, TurnStates
  <2>2. QED
    BY <2>1 DEF TellIfWaiting
<1>3. CASE SkillsTimesOut(t)
  <2>1. turn[t].kind # None /\ turn[t].told = None /\ Told(t, "failed") /\ UNCHANGED <<run, port>>
    BY <1>3, NoneIsNone DEF SkillsTimesOut, Kinds
  <2>2. QED
    BY <1>1, <2>1, EndsHonest
<1>4. CASE CallTimesOut(t)
  <2>1. /\ turn[t].kind # None /\ run[t].at = "call" /\ TellIfWaiting(t, "failed")
        /\ run' = [run EXCEPT ![t].at = "end"] /\ UNCHANGED port
    BY <1>4, NoneIsNone DEF CallTimesOut, Kinds
  <2>2. QED
    BY <1>1, <1>2, <2>1, EndsHonest
<1>5. CASE StateRaises(t)
  <2>1. /\ turn[t].kind # None /\ port[t].at = "state" /\ port' = [port EXCEPT ![t] = NoPort]
    BY <1>5, PortBusy DEF StateRaises, IInv
  <2>2. CASE run[t].at = "call"
    <3>1. run' = [run EXCEPT ![t].at = "end"] /\ TellIfWaiting(t, "failed")
      BY <1>5, <2>2 DEF StateRaises
    <3>2. QED
      BY <1>1, <1>2, <2>1, <2>2, <3>1, EndsHonest
  <2>3. CASE run[t].at # "call"
    <3>1. turn' = turn /\ run' = run
      BY <1>5, <2>3 DEF StateRaises, askedVars
    <3>2. port'[t].at = "none" /\ \A u \in Turns \ {t} : port'[u] = port[u]
      BY <1>1, <2>1 DEF NoPort
    <3>3. Nothing(t) => Nothing(t)'
      BY <1>1 DEF Nothing
    <3>4. Honest(t)'
      BY <1>1, <3>1, <3>2, <3>3 DEF Honest
    <3>5. QED
      BY <1>1, <3>1, <3>2, <3>4, OneHonest
  <2>4. QED
    BY <2>2, <2>3
<1>6. CASE RequestTimesOut(t)
  <2>1. /\ port[t].at # "none" /\ Answers(t, "UNAVAILABLE")
        /\ "UNAVAILABLE" \in Outcomes \ {"SUCCESS", "DENIED", "AMBIGUOUS"}
    BY <1>6 DEF RequestTimesOut, Outcomes
  <2>2. QED
    BY <1>1, <2>1, PortAnswersHonest
<1>7. QED
  BY <1>3, <1>4, <1>5, <1>6 DEF TimesOut

(* Home Assistant acts for a turn that awaits it or gave up: either way it *)
(* was sent something by it, so the turn was neither refused nor asked.    *)
LEMMA DeliveredHonest ==
  ASSUME IInv, ToldInv, NEW r \in requests, NEW outcome \in Outcomes \ {"DENIED", "AMBIGUOUS"},
         Delivered(r, outcome), HistoryTyped', UNCHANGED written,
         requests' \subseteq requests,
         \A t \in Turns : /\ performed[t] \subseteq performed'[t]
                          /\ t # r.by => performed'[t] = performed[t],
         outcome = "SUCCESS" /\ r.by \in Turns =>
           /\ turn[r.by].kind \in {"command", "plan"} => r.id \in performed'[r.by]
           /\ turn[r.by].kind \in {"create", "update"} => r.by \in written
  PROVE  ToldInv'
<1>1. \A t \in Turns : Nothing(t) => Nothing(t)'
  BY DEF Nothing
<1>2. CASE Awaited(r)
  <2>1. /\ r.by \in Turns /\ port[r.by] = [at |-> "sent", target |-> r.id]
        /\ Answers(r.by, outcome)
    BY <1>2 DEF Awaited, Delivered
  <2>2. port[r.by].at # "none" /\ port[r.by].target = r.id
    BY <2>1
  <2>3. /\ Honest(r.by)' /\ turn'[r.by].kind = turn[r.by].kind
        /\ \A u \in Turns \ {r.by} :
             turn'[u] = turn[u] /\ run'[u] = run[u] /\ port'[u] = port[u]
    BY <1>1, <2>1, <2>2, AnswersHonest
  <2> DEFINE T == {r.by}
  <2>4. /\ T \in SUBSET Turns
        /\ \A t \in T : turn[t].kind \in {None, turn'[t].kind} /\ Honest(t)'
        /\ \A u \in Turns \ T :
             /\ turn'[u] = turn[u] /\ run'[u] = run[u] /\ port'[u] = port[u]
             /\ performed'[u] = performed[u] /\ (u \in written' <=> u \in written)
    BY <2>1, <2>3
  <2> HIDE DEF T
  <2>5. QED
    BY <2>4, OthersHonest
<1>3. CASE ~Awaited(r)
  <2>1. turn' = turn /\ run' = run /\ port' = port
    BY <1>3 DEF Delivered, askedVars
  <2>2. \A t \in Turns : Honest(t)'
    BY <1>1, <2>1, TurnStands
  <2>3. \A q \in requests : Ordered(q)'
    BY <2>1 DEF ToldInv, Ordered
  <2>4. QED
    BY <2>2, <2>3 DEF ToldInv
<1>4. QED
  BY <1>2, <1>3

(* Home Assistant goes on by itself: what is new of a turn's requests is   *)
(* of one that had some.                                                   *)
LEMMA HomeHonest ==
  ASSUME IInv, ToldInv, UNCHANGED <<askedVars, port, performed>>,
         written \subseteq written', written' \subseteq Turns,
         \A t \in written' \ written : \E q \in requests : q.by = t,
         \A r \in requests' :
           \/ r \in requests
           \/ Ordered(r)' /\ (r.by \notin Turns \/ \E q \in requests : q.by = r.by)
  PROVE  ToldInv'
<1>1. turn' = turn /\ run' = run /\ port' = port /\ performed' = performed
  BY DEF askedVars
<1>2. ASSUME NEW t \in Turns PROVE Honest(t)'
  <2>1. Nothing(t) => Nothing(t)'
    BY <1>1 DEF Nothing
  <2>2. QED
    BY <1>1, <2>1, TurnStands
<1>3. \A r \in requests : Ordered(r)'
  BY <1>1 DEF ToldInv, Ordered
<1>4. HistoryTyped'
  BY <1>1 DEF ToldInv, HistoryTyped
<1>5. QED
  BY <1>2, <1>3, <1>4 DEF ToldInv

LEMMA HomeStepsHonest ==
  ASSUME IInv, ToldInv, NEW r \in requests, Home(r) \/ Invalid(r) \/ NeverArrives(r)
  PROVE  ToldInv'
<1>1. /\ Ordered(r) /\ Sound(r) /\ r \in Requests /\ HistoryTyped
      /\ r.id \in Targets \cup Turns
      /\ performed \in [Turns -> SUBSET (Targets \cup Turns)] /\ written \subseteq Turns
  BY DEF ToldInv, HistoryTyped, IInv, HomeInv, HomeTyped, Requests
<1>2. {"SUCCESS", "FAILED", "NOT_FOUND"} \subseteq Outcomes \ {"DENIED", "AMBIGUOUS"}
  BY DEF Outcomes
<1>3. CASE Invoke(r)
  <2>1. r.op = "invoke" /\ r.by \in Turns /\ turn[r.by].kind \in {"command", "plan"}
    BY <1>1, <1>3 DEF Invoke, Ordered
  <2>2. UNCHANGED written /\ requests' = requests \ {r}
    BY <1>3 DEF Invoke, Finished
  <2>3. CASE /\ performed' = [performed EXCEPT ![r.by] = @ \cup {r.id}]
             /\ \E outcome \in {"SUCCESS", "FAILED"} : Delivered(r, outcome)
    <3>1. PICK outcome \in {"SUCCESS", "FAILED"} : Delivered(r, outcome)
      BY <2>3
    <3>2. /\ HistoryTyped' /\ r.id \in performed'[r.by]
          /\ \A t \in Turns : /\ performed[t] \subseteq performed'[t]
                              /\ t # r.by => performed'[t] = performed[t]
      BY <1>1, <2>1, <2>2, <2>3 DEF HistoryTyped
    <3>3. QED
      BY <1>2, <2>1, <2>2, <3>1, <3>2, DeliveredHonest
  <2>4. CASE UNCHANGED performed /\ Delivered(r, "FAILED")
    BY <1>1, <1>2, <2>2, <2>4, DeliveredHonest DEF HistoryTyped
  <2>5. QED
    BY <1>3, <2>3, <2>4 DEF Invoke
<1>4. CASE Invalid(r)
  BY <1>1, <1>2, <1>4, DeliveredHonest DEF Invalid, Finished, HistoryTyped
<1>5. CASE NeverArrives(r)
  BY <1>1, <1>5, HomeHonest DEF NeverArrives, Finished
<1>6. CASE Read(r)
  <2>1. PICK held :
          /\ held = [r EXCEPT !.at = "holds", !.items = file]
          /\ held.by = r.by /\ held.op = r.op /\ r.op \in {"write", "delete"}
          /\ held.at = "holds"
    <3> DEFINE h == [r EXCEPT !.at = "holds", !.items = file]
    <3>1. h.by = r.by /\ h.op = r.op /\ r.op \in {"write", "delete"} /\ h.at = "holds"
      BY <1>1, <1>6 DEF Requests, Read
    <3>2. QED
      BY <3>1
  <2>2. /\ requests' = (requests \ {r}) \cup {held} /\ turn' = turn
        /\ UNCHANGED <<askedVars, port, performed, written>>
    BY <1>6, <2>1 DEF Read, Becomes, askedVars
  <2>3. Ordered(held)'
    BY <1>1, <2>1, <2>2 DEF Ordered
  <2>4. \A p \in requests' :
           \/ p \in requests
           \/ Ordered(p)' /\ (p.by \notin Turns \/ \E q \in requests : q.by = p.by)
    BY <2>1, <2>2, <2>3
  <2>5. QED
    BY <1>1, <2>2, <2>4, HomeHonest
<1>7. CASE Write(r)
  <2> DEFINE done == [r EXCEPT !.at = "reload", !.items = None]
  <2>1. /\ done.by = r.by /\ done.op = "write" /\ r.by \in Turns
        /\ turn[r.by].kind \in {"create", "update"}
    BY <1>1, <1>7 DEF Requests, Write, Sound, Ordered
  <2>2. /\ requests' = (requests \ {r}) \cup {done} /\ UNCHANGED <<askedVars, port, performed>>
        /\ written' = written \cup {r.by} /\ turn' = turn
    BY <1>7 DEF Write, Becomes, askedVars
  <2> HIDE DEF done
  <2>3. Ordered(done)'
    BY <2>1, <2>2 DEF Ordered
  <2>4. /\ written \subseteq written' /\ written' \subseteq Turns
        /\ \A t \in written' \ written : \E q \in requests : q.by = t
    BY <1>1, <2>1, <2>2
  <2>5. \A p \in requests' :
           \/ p \in requests
           \/ Ordered(p)' /\ (p.by \notin Turns \/ \E q \in requests : q.by = p.by)
    BY <2>1, <2>2, <2>3
  <2>6. QED
    BY <2>2, <2>4, <2>5, HomeHonest
<1>8. CASE Reload(r)
  <2> DEFINE parsed == [id \in Ids |-> IF id = r.id THEN file[id] ELSE None]
  <2>1. PICK next :
          /\ next = [r EXCEPT !.at = "loading", !.items = parsed]
          /\ next.by = r.by /\ next.op = "write" /\ next.at = "loading"
          /\ r.by \in written /\ r.by \in Turns /\ turn[r.by].kind \in {"create", "update"}
    <3> DEFINE n == [r EXCEPT !.at = "loading", !.items = parsed]
    <3>1. /\ n.by = r.by /\ n.op = "write" /\ n.at = "loading"
          /\ r.by \in written /\ r.by \in Turns /\ turn[r.by].kind \in {"create", "update"}
      BY <1>1, <1>8 DEF Requests, Reload, Ordered, Sound
    <3>2. QED
      BY <3>1
  <2>2. /\ requests' = (requests \ {r}) \cup {next} /\ turn' = turn
        /\ UNCHANGED <<askedVars, port, performed, written>>
    BY <1>8, <2>1 DEF Reload, Becomes, askedVars
  <2>3. Ordered(next)'
    <3>1. /\ next.by = r.by /\ next.op = "write" /\ r.by \in Turns
          /\ turn'[r.by].kind \in {"create", "update"} /\ r.by \in written'
      BY <2>1, <2>2
    <3>2. QED
      BY <3>1 DEF Ordered
  <2>4. \A p \in requests' :
           \/ p \in requests
           \/ Ordered(p)' /\ (p.by \notin Turns \/ \E q \in requests : q.by = p.by)
    BY <2>1, <2>2, <2>3
  <2>5. QED
    BY <1>1, <2>2, <2>4, HomeHonest
<1>9. CASE Loads(r)
  <2>1. r.op = "write" /\ r.by \in written /\ r.by \in Turns /\ turn[r.by].kind \in {"create", "update"}
    BY <1>1, <1>9 DEF Loads, Ordered, Sound
  <2>2. QED
    BY <1>1, <1>2, <1>9, <2>1, DeliveredHonest DEF Loads, Finished, HistoryTyped
<1>10. CASE Delete(r)
  <2>1. r.by \in Turns => turn[r.by].kind = "delete"
    BY <1>1, <1>10 DEF Delete, Ordered
  <2>2. \E outcome \in {"SUCCESS", "NOT_FOUND"} : Delivered(r, outcome)
    BY <1>10 DEF Delete
  <2>3. QED
    BY <1>1, <1>2, <1>10, <2>1, <2>2, DeliveredHonest DEF Delete, Finished, HistoryTyped
<1>11. CASE Completes(r)
  <2> DEFINE q == [r EXCEPT !.op = "delete"]
  <2>1. q.by = r.by /\ q.op = "delete" /\ q.at = r.at /\ r.by = None /\ r.at = "sent"
    BY <1>1, <1>11 DEF Requests, Completes, Ordered, Sound
  <2>2. requests' \subseteq requests \cup {q} /\ UNCHANGED <<askedVars, port, performed, written>>
    BY <1>11 DEF Completes, Becomes, Finished
  <2> HIDE DEF q
  <2>3. Ordered(q)' /\ q.by \notin Turns
    BY <2>1, NoneIsNone DEF Ordered
  <2>4. QED
    BY <1>1, <2>2, <2>3, HomeHonest
<1>12. QED
  BY <1>3, <1>4, <1>5, <1>6, <1>7, <1>8, <1>9, <1>10, <1>11 DEF Home

LEMMA StepHonest ==
  ASSUME IInv, ToldInv, [Next]_vars
  PROVE  ToldInv'
<1>1. ASSUME NEW t \in Turns, Starts(t) \/ Router(t) \/ TimesOut(t) PROVE ToldInv'
  BY <1>1, StartsHonest, RouterHonest, TimesOutHonest
<1>2. ASSUME NEW r \in requests, Home(r) \/ Invalid(r) \/ NeverArrives(r) PROVE ToldInv'
  BY <1>2, HomeStepsHonest
<1>3. written \subseteq Turns
  BY DEF ToldInv, HistoryTyped
<1>4. ASSUME NEW id \in Ids, Fires(id) PROVE ToldInv'
  <2> DEFINE q == Completion(id)
  <2>1. q.by = None /\ q.op = "complete" /\ q.at = "sent"
    BY DEF Completion, Request
  <2>2. requests' = requests \cup {q} /\ UNCHANGED <<askedVars, port, performed, written>>
    BY <1>4 DEF Fires
  <2> HIDE DEF q
  <2>3. Ordered(q)' /\ q.by \notin Turns
    BY <2>1, NoneIsNone DEF Ordered
  <2>4. QED
    BY <1>3, <2>2, <2>3, HomeHonest
<1>5. CASE Restart
  BY <1>3, <1>5, HomeHonest DEF Restart
<1>6. CASE UNCHANGED vars
  BY <1>3, <1>6, HomeHonest DEF vars, homeVars
<1>7. QED
  BY <1>1, <1>2, <1>4, <1>5, <1>6 DEF Next

(* Whatever each of the three clients gives up on and whatever Home        *)
(* Assistant still does then, a turn that was told "done" was done, and a  *)
(* plan that was refused or an automation that must be confirmed first     *)
(* leaves nothing behind that could still happen.                          *)
THEOREM TurnsAreToldTheTruth == Spec => []ToldAsDone
<1>1. Init => ToldInv
  BY InitiallyHonest
<1>2. IInv /\ ToldInv /\ [Next]_vars => ToldInv'
  BY StepHonest
<1>3. ToldInv => ToldAsDone
  BY DEF ToldInv, Honest, Nothing, ToldAsDone
<1>4. QED
  BY <1>1, <1>2, <1>3, Invariant, PTL DEF Spec

(* The conversation entity only watches: with Home Assistant's own agent   *)
(* beside it the Router does no more than without, so what is proved above *)
(* holds of the conversation as well (conversation.py, process_adapter_    *)
(* input and _async_handle_message).                                       *)
THEOREM AssistImplementsHouse == AssistSpec => Spec
<1>1. AssistInit => Init
  BY DEF AssistInit
<1>2. [AssistNext]_<<vars, assistVars>> => [Next]_vars
  BY DEF AssistNext, RouterUnavailable, Answered, Assist
<1>3. QED
  BY <1>1, <1>2, PTL DEF AssistSpec, Spec

(* What holds of the automations, and of what the Router tells, holds      *)
(* whoever else acts for the turns.                                        *)
THEOREM AssistKeepsItAll ==
  AssistSpec => []LoadedIsTheFile /\ []ToldAsDone /\ OthersAreKept
<1>1. QED
  BY AssistImplementsHouse, RunsWhatIsWritten, TurnsAreToldTheTruth, ChangesAreOfNyrasOwn
-----------------------------------------------------------------------------
(* Of the capture of wake words.  The Router's row of a session only goes  *)
(* on, and what Home Assistant holds of it, in its copy or in an answer    *)
(* still on its way, is the row as it once was: so what is over there was  *)
(* over at the Router.  A call that reports an acceptance has a recording  *)
(* that Speaker-ID accepted, and Speaker-ID writes one recording at a time *)
(* and only of a capture that nothing was accepted of: so there is one.    *)
Completing == {"press", "timeout", "result"}
Accepted(r, s) == stream[r].session = s /\ stream[r].verdict = "ACCEPTED"
Reported(r) == stream[r].stage \in {"reporting", "over"}

(* A copy of a row that is there: of its user, and the row itself if it is *)
(* over.                                                                   *)
IsPast(q, s) ==
  /\ q.status # "ABSENT" /\ row[s].status # "ABSENT" /\ q.user = row[s].user
  /\ q.status \in WakeWords!Terminal => q = row[s]

(* An answer is a past row, and who reports an acceptance has it.          *)
CallOK(c) ==
  /\ c \in WakeWords!Calls
  /\ c.stage = "answered" => IsPast(c.answer, c.session)
  /\ c.job \in Completing =>
       /\ c.verdict \in WakeWords!Terminal
       /\ c.stage = "answered" => c.answer.status \in WakeWords!Terminal
       /\ c.verdict = "ACCEPTED" => c.by \in Recordings /\ Accepted(c.by, c.session)
  /\ c.job = "start" => c.by \in Users
  /\ c.job = "result" => c.by \in Recordings /\ Reported(c.by)
CallsOK == \A c \in calls : CallOK(c)

(* A session has one start, and no row before it.                          *)
StartsAreFresh ==
  \A c \in calls : c.job = "start" =>
    /\ c.stage = "sent" => row[c.session] = WakeWords!NoRow
    /\ \A d \in calls : d.job = "start" /\ d.session = c.session => d = c

Copied ==
  /\ \A s \in Sessions : copy[s].status # "ABSENT" => IsPast(copy[s], s)
  /\ active # None => copy[active].status = "ACTIVE"

RowsOK ==
  \A s \in Sessions :
    /\ row[s].status = "ABSENT" => row[s] = WakeWords!NoRow
    /\ row[s].status = "ACCEPTED" => row[s].sample \in Recordings /\ Accepted(row[s].sample, s)

(* A recording belongs to the user of its session, and what is accepted of *)
(* it Speaker-ID has.                                                      *)
Bound == {"recording", "ending", "left", "stored", "reporting"}
StreamOK(r) ==
  /\ stream[r].stage = "idle" => stream[r] = WakeWords!NoStream
  /\ stream[r].stage \in Bound => stream[r].session \in Sessions
  /\ stream[r].stage \in {"stored", "reporting"} => stream[r].verdict # "none"
  /\ stream[r].session # None =>
       row[stream[r].session].status # "ABSENT" /\ stream[r].user = row[stream[r].session].user
  /\ stream[r].verdict = "ACCEPTED" =>
       /\ stream[r].stage \in {"stored", "reporting", "over"}
       /\ stream[r].session \in Sessions /\ captures[stream[r].session] = "ACCEPTED"
StreamsOK == \A r \in Recordings : StreamOK(r)

AcceptedOnce ==
  \A r, q \in Recordings, s \in Sessions : Accepted(r, s) /\ Accepted(q, s) => r = q

(* What is being written will be the first of its capture.                 *)
WritingOK ==
  writing # None => WakeWords!InHand(writing) /\ captures[stream[writing].session] = "none"

Streams == [stage : WakeWords!Stages, session : Sessions \cup {None}, user : Users \cup {None},
            verdict : WakeWords!Terminal \cup {"none"}]

PanelTyped ==
  /\ row \in [Sessions -> WakeWords!Rows] /\ copy \in [Sessions -> WakeWords!Rows]
  /\ active \in Sessions \cup {None} /\ timer \in Sessions \cup {None}
  /\ mode \in {"READY", "RECORDING"} \cup WakeWords!Terminal
  /\ pressing \subseteq Sessions /\ presses \in Nat
AudioTyped ==
  /\ device \in Recordings \cup {None} /\ writing \in Recordings \cup {None}
  /\ stream \in [Recordings -> Streams]
  /\ captures \in [Sessions -> {"none", "ACCEPTED", "REJECTED"}]
StoreTyped ==
  /\ samples \subseteq Recordings /\ files \subseteq Recordings
  /\ unlinking \subseteq Recordings /\ orphans \subseteq Recordings
  /\ faults \in 0 .. MaxFaults

WakeWordInv ==
  /\ PanelTyped /\ AudioTyped /\ StoreTyped
  /\ CallsOK /\ StartsAreFresh /\ Copied
  /\ RowsOK /\ StreamsOK /\ AcceptedOnce /\ WritingOK

(* A row that is there stays, with its user, and one that is over stays as *)
(* it is.                                                                  *)
Evolves(r, q) ==
  r.status # "ABSENT" =>
    q.status # "ABSENT" /\ q.user = r.user /\ (r.status \in WakeWords!Terminal => q = r)

-----------------------------------------------------------------------------
LEMMA NoneIsNobody == None \notin Users /\ None \notin Sessions /\ None \notin Recordings
BY WakeWordsAssumption DEF WakeWords!WakeWordAssumption

LEMMA RowTypes ==
  WakeWords!NoRow \in WakeWords!Rows /\ \A u \in Users : WakeWords!Opened(u) \in WakeWords!Rows
BY DEF WakeWords!NoRow, WakeWords!Opened, WakeWords!Rows

(* A new call of Home Assistant.                                           *)
LEMMA NewCall ==
  ASSUME NEW job \in {"start", "restore", "press", "timeout", "result"}, NEW s \in Sessions,
         NEW by \in Recordings \cup Users \cup {None},
         NEW verdict \in {"ACTIVE"} \cup WakeWords!Terminal
  PROVE  LET c == WakeWords!Call(job, s, by, verdict)
         IN /\ c \in WakeWords!Calls /\ c.job = job /\ c.session = s /\ c.by = by
            /\ c.verdict = verdict
            /\ c.stage = "sent"
BY RowTypes DEF WakeWords!Call, WakeWords!Calls

LEMMA Unwaited ==
  ASSUME NEW c \in WakeWords!Calls
  PROVE  LET d == [c EXCEPT !.waited = FALSE]
         IN /\ d \in WakeWords!Calls /\ d.job = c.job /\ d.session = c.session /\ d.by = c.by
            /\ d.verdict = c.verdict /\ d.stage = c.stage /\ d.answer = c.answer
            /\ d.waited = FALSE
BY DEF WakeWords!Calls

LEMMA CallKeeps ==
  ASSUME WakeWordInv, NEW c, CallOK(c),
         \A s \in Sessions : Evolves(row[s], row'[s]),
         \A r \in Recordings : /\ \A s \in Sessions : Accepted(r, s) => Accepted(r, s)'
                               /\ Reported(r) => Reported(r)'
  PROVE  CallOK(c)'
<1>1. c \in WakeWords!Calls /\ c.session \in Sessions
  BY DEF CallOK, WakeWords!Calls
<1>2. c.stage = "answered" => IsPast(c.answer, c.session)'
  BY <1>1 DEF CallOK, IsPast, Evolves, WakeWords!Terminal
<1> QED
  BY <1>1, <1>2 DEF CallOK

(* Calls that are dropped, left alone, or new.                             *)
LEMMA CallsMove ==
  ASSUME WakeWordInv, row' = row,
         \A r \in Recordings : /\ \A s \in Sessions : Accepted(r, s) => Accepted(r, s)'
                               /\ Reported(r) => Reported(r)',
         \A c \in calls' :
           \/ c \in calls
           \/ (c.job # "start" /\ CallOK(c)')
           \/ \E d \in calls : c = [d EXCEPT !.waited = FALSE] /\ (c = d \/ d \notin calls')
  PROVE  CallsOK' /\ StartsAreFresh'
<1>1. \A s \in Sessions : Evolves(row[s], row'[s])
  BY DEF Evolves
<1>2. ASSUME NEW d \in calls
      PROVE  LET c == [d EXCEPT !.waited = FALSE]
             IN CallOK(c) /\ c.job = d.job /\ c.session = d.session /\ c.stage = d.stage
  BY Unwaited DEF WakeWordInv, CallsOK, CallOK
<1>3. CallsOK'
  <2> SUFFICES ASSUME NEW c \in calls' PROVE CallOK(c)'
    BY DEF CallsOK
  <2>1. CallOK(c) \/ CallOK(c)'
    BY <1>2 DEF WakeWordInv, CallsOK
  <2> QED
    BY <1>1, <2>1, CallKeeps
<1>4. StartsAreFresh'
  <2>1. ASSUME NEW c \in calls', c.job = "start"
        PROVE  \E d \in calls : /\ d.job = "start" /\ d.session = c.session /\ d.stage = c.stage
                                /\ \/ c = d
                                   \/ c = [d EXCEPT !.waited = FALSE] /\ d \notin calls'
    BY <1>2, <2>1
  <2>2. ASSUME NEW c \in calls', c.job = "start", c.stage = "sent"
        PROVE  row[c.session] = WakeWords!NoRow
    BY <2>1, <2>2 DEF WakeWordInv, StartsAreFresh
  <2>3. ASSUME NEW c \in calls', c.job = "start", NEW e \in calls', e.job = "start",
               e.session = c.session
        PROVE  e = c
    <3>1. PICK d \in calls : /\ d.job = "start" /\ d.session = c.session
                             /\ \/ c = d
                                \/ c = [d EXCEPT !.waited = FALSE] /\ d \notin calls'
      BY <2>1, <2>3
    <3>2. PICK f \in calls : /\ f.job = "start" /\ f.session = e.session
                             /\ \/ e = f
                                \/ e = [f EXCEPT !.waited = FALSE] /\ f \notin calls'
      BY <2>1, <2>3
    <3>3. f = d
      BY <2>3, <3>1, <3>2 DEF WakeWordInv, StartsAreFresh
    <3>4. CASE c = d
      <4>1. d \in calls'
        BY <3>4
      <4> QED
        BY <3>2, <3>3, <3>4, <4>1
    <3>5. CASE c = [d EXCEPT !.waited = FALSE] /\ d \notin calls'
      <4>1. e # f
        BY <3>3, <3>5
      <4>2. e = [f EXCEPT !.waited = FALSE]
        BY <3>2, <4>1
      <4> QED
        BY <3>3, <3>5, <4>2
    <3> QED
      BY <3>1, <3>4, <3>5
  <2> QED
    BY <2>2, <2>3 DEF StartsAreFresh
<1> QED
  BY <1>3, <1>4

(* A step of the panel and the Router's callers, that neither the sessions *)
(* at the Router nor any recording's binding is changed by.                *)
LEMMA RecordingsMove ==
  ASSUME WakeWordInv, UNCHANGED <<row, captures, writing>>, AudioTyped',
         \A r \in Recordings :
           /\ stream'[r].stage = "idle" => stream'[r] = WakeWords!NoStream
           /\ stream'[r].session = stream[r].session /\ stream'[r].user = stream[r].user
           /\ stream'[r].verdict = stream[r].verdict
           /\ \/ stream'[r].stage = stream[r].stage
              \/ stream'[r].stage = "over" /\ ~(writing = r)
              \/ stream'[r].stage = "reporting" /\ stream[r].stage = "stored"
              \/ stream'[r].stage = "left" /\ stream[r].stage = "ending"
              \/ stream'[r].stage = "ending" /\ stream[r].stage = "recording"
  PROVE  RowsOK' /\ StreamsOK' /\ AcceptedOnce' /\ WritingOK'
<1>1. \A r \in Recordings, s \in Sessions : Accepted(r, s)' <=> Accepted(r, s)
  BY DEF Accepted
<1>2. RowsOK'
  BY <1>1 DEF WakeWordInv, RowsOK
<1>3. StreamsOK'
  <2> SUFFICES ASSUME NEW r \in Recordings PROVE StreamOK(r)'
    BY DEF StreamsOK
  <2>1. StreamOK(r)
    BY DEF WakeWordInv, StreamsOK
  <2> QED
    BY <2>1 DEF StreamOK, Bound
<1>4. AcceptedOnce'
  BY <1>1 DEF WakeWordInv, AcceptedOnce
<1>5. WritingOK'
  <2> SUFFICES ASSUME writing # None
               PROVE  /\ stream'[writing].stage \in {"ending", "left"}
                      /\ captures[stream'[writing].session] = "none"
    BY DEF WritingOK, WakeWords!InHand
  <2>1. writing \in Recordings /\ stream[writing].stage \in {"ending", "left"}
        /\ captures[stream[writing].session] = "none"
    BY DEF WakeWordInv, AudioTyped, WritingOK, WakeWords!InHand
  <2> QED
    BY <2>1
<1> QED
  BY <1>2, <1>3, <1>4, <1>5

-----------------------------------------------------------------------------
(* The Router opens a row that is not there and completes one that is not  *)
(* over.                                                                   *)
LEMMA WakeWordsRouter ==
  ASSUME WakeWordInv, WakeWords!Router
  PROVE  WakeWordInv'
<1>1. PICK c \in calls :
        c.stage = "sent" /\ (WakeWords!RouterStart(c) \/ WakeWords!RouterComplete(c) \/ WakeWords!RouterActive(c))
  BY DEF WakeWords!Router
<1>2. UNCHANGED <<WakeWords!coordinator, pressing, presses, WakeWords!audio, WakeWords!store,
                  faults>>
  BY DEF WakeWords!Router
<1>3. CallOK(c) /\ c \in WakeWords!Calls /\ c.session \in Sessions
  BY DEF WakeWordInv, CallsOK, CallOK, WakeWords!Calls
<1> DEFINE s == c.session
<1>4. PICK q \in WakeWords!Rows :
        /\ row' = [row EXCEPT ![s] = q]
        /\ \/ q = row[s]
           \/ c.job = "start" /\ row[s] = WakeWords!NoRow /\ q = WakeWords!Opened(c.by)
           \/ /\ c.job \in Completing /\ row[s].status = "ACTIVE"
              /\ q.status = c.verdict /\ q.user = row[s].user
              /\ c.verdict = "ACCEPTED" => q.sample = c.by
        /\ \/ /\ WakeWords!Answer(c, q) /\ q.status # "ABSENT"
              /\ c.job \in Completing => q.status \in WakeWords!Terminal
           \/ WakeWords!Refuse(c)
  <2>1. row[s] \in WakeWords!Rows /\ row = [row EXCEPT ![s] = row[s]]
    BY <1>3 DEF WakeWordInv, PanelTyped
  <2>2. CASE WakeWords!RouterStart(c)
    <3>1. CASE \E o \in Sessions : row[o].status = "ACTIVE"
      <4>1. WakeWords!Refuse(c) /\ row' = row
        BY <2>2, <3>1 DEF WakeWords!RouterStart
      <4> QED
        BY <2>1, <4>1
    <3>2. CASE ~\E o \in Sessions : row[o].status = "ACTIVE"
      <4>1. /\ row' = [row EXCEPT ![s] = WakeWords!Opened(c.by)]
            /\ WakeWords!Answer(c, WakeWords!Opened(c.by))
            /\ c.job = "start"
        BY <2>2, <3>2 DEF WakeWords!RouterStart
      <4>2. row[s] = WakeWords!NoRow /\ c.by \in Users
        BY <1>1, <1>3, <4>1 DEF WakeWordInv, StartsAreFresh, CallOK
      <4>3. WakeWords!Opened(c.by) \in WakeWords!Rows /\ WakeWords!Opened(c.by).status = "ACTIVE"
        BY <4>2, RowTypes DEF WakeWords!Opened
      <4> QED
        BY <4>1, <4>2, <4>3 DEF Completing
    <3> QED
      BY <3>1, <3>2
  <2>3. CASE WakeWords!RouterComplete(c)
    <3>0. c.job \in Completing
      BY <2>3 DEF WakeWords!RouterComplete, Completing
    <3>1. CASE row[s].status = "ACTIVE"
      <4> DEFINE r == [row[s] EXCEPT !.status = c.verdict,
                         !.sample = IF c.verdict = "ACCEPTED" THEN c.by ELSE None]
      <4>1. row' = [row EXCEPT ![s] = r] /\ WakeWords!Answer(c, r)
        BY <2>3, <3>1 DEF WakeWords!RouterComplete
      <4>2. c.verdict \in WakeWords!Terminal /\ (c.verdict = "ACCEPTED" => c.by \in Recordings)
        BY <1>3, <3>0 DEF CallOK
      <4>3. /\ r \in WakeWords!Rows /\ r.status = c.verdict /\ r.user = row[s].user
            /\ c.verdict = "ACCEPTED" => r.sample = c.by
        BY <2>1, <4>2 DEF WakeWords!Rows
      <4>4. r.status # "ABSENT"
        BY <4>2, <4>3 DEF WakeWords!Terminal
      <4> HIDE DEF r
      <4> QED
        BY <3>0, <3>1, <4>1, <4>2, <4>3, <4>4
    <3>2. CASE row[s].status # "ACTIVE"
      <4>1. WakeWords!Refuse(c) /\ row' = row
        BY <2>3, <3>2 DEF WakeWords!RouterComplete
      <4> QED
        BY <2>1, <4>1
    <3> QED
      BY <3>1, <3>2
  <2>4. CASE WakeWords!RouterActive(c)
    <3>1. row' = row /\ c.job = "restore"
      BY <2>4 DEF WakeWords!RouterActive
    <3>2. (WakeWords!Answer(c, row[s]) /\ row[s].status = "ACTIVE") \/ WakeWords!Refuse(c)
      BY <2>4 DEF WakeWords!RouterActive
    <3> QED
      BY <2>1, <3>1, <3>2 DEF Completing
  <2> QED
    BY <1>1, <2>2, <2>3, <2>4
<1>5. \A o \in Sessions : row'[o] = IF o = s THEN q ELSE row[o]
  BY <1>4 DEF WakeWordInv, PanelTyped
<1>6. \A o \in Sessions : Evolves(row[o], row'[o])
  BY <1>3, <1>4, <1>5 DEF Evolves, WakeWords!NoRow, WakeWords!Terminal, CallOK
<1>7. stream' = stream /\ captures' = captures /\ writing' = writing /\ copy' = copy
      /\ active' = active /\ device' = device
  BY <1>2 DEF WakeWords!audio, WakeWords!store, WakeWords!coordinator
<1>8. PanelTyped' /\ AudioTyped' /\ StoreTyped'
  BY <1>2, <1>3, <1>4
     DEF WakeWordInv, PanelTyped, AudioTyped, StoreTyped, WakeWords!coordinator,
         WakeWords!audio, WakeWords!store
<1>9. /\ q.status = "ABSENT" => q = WakeWords!NoRow
      /\ q.status = "ACCEPTED" => q.sample \in Recordings /\ Accepted(q.sample, s)
  <2>1. WakeWords!Opened(c.by).status = "ACTIVE"
    BY DEF WakeWords!Opened
  <2>2. c.job \in Completing => /\ c.verdict \in WakeWords!Terminal
                                /\ c.verdict = "ACCEPTED" => c.by \in Recordings /\ Accepted(c.by, s)
    BY <1>3 DEF CallOK
  <2> QED
    BY <1>3, <1>4, <2>1, <2>2 DEF WakeWordInv, RowsOK, WakeWords!Terminal
<1>10. RowsOK'
  BY <1>5, <1>7, <1>9 DEF WakeWordInv, RowsOK, Accepted
<1>11. StreamsOK'
  <2> SUFFICES ASSUME NEW r \in Recordings PROVE StreamOK(r)'
    BY DEF StreamsOK
  <2>1. StreamOK(r) /\ stream[r].session \in Sessions \cup {None}
    BY DEF WakeWordInv, StreamsOK, AudioTyped, Streams
  <2> QED
    BY <1>6, <1>7, <2>1, NoneIsNobody DEF StreamOK, Evolves
<1>12. AcceptedOnce' /\ WritingOK'
  BY <1>7 DEF WakeWordInv, AcceptedOnce, Accepted, WritingOK, WakeWords!InHand
<1>13. Copied'
  <2>1. ASSUME NEW o \in Sessions, copy[o].status # "ABSENT" PROVE IsPast(copy[o], o)'
    BY <1>6, <1>7, <2>1 DEF WakeWordInv, Copied, IsPast, Evolves, WakeWords!Terminal
  <2> QED
    BY <1>7, <2>1 DEF WakeWordInv, Copied
<1>14. PICK e : /\ e \in WakeWords!Calls /\ e.job = c.job /\ e.session = s /\ e.by = c.by
                /\ e.verdict = c.verdict /\ e.stage # "sent"
                /\ e.stage = "answered" => /\ e.answer = q /\ q.status # "ABSENT"
                                           /\ c.job \in Completing => q.status \in WakeWords!Terminal
                /\ calls' \subseteq (calls \ {c}) \cup {e}
  <2>1. CASE /\ WakeWords!Answer(c, q) /\ q.status # "ABSENT"
             /\ c.job \in Completing => q.status \in WakeWords!Terminal
    <3>1. /\ [c EXCEPT !.stage = "answered", !.answer = q] \in WakeWords!Calls
          /\ calls' \subseteq (calls \ {c}) \cup {[c EXCEPT !.stage = "answered", !.answer = q]}
      BY <1>3, <1>4, <2>1 DEF WakeWords!Answer, WakeWords!Calls
    <3> QED
      BY <1>3, <2>1, <3>1 DEF WakeWords!Calls
  <2>2. CASE WakeWords!Refuse(c)
    <3>1. /\ [c EXCEPT !.stage = "refused"] \in WakeWords!Calls
          /\ calls' \subseteq (calls \ {c}) \cup {[c EXCEPT !.stage = "refused"]}
      BY <1>3, <2>2 DEF WakeWords!Refuse, WakeWords!Calls
    <3> QED
      BY <1>3, <3>1 DEF WakeWords!Calls
  <2> QED
    BY <1>4, <2>1, <2>2
<1>15. CallsOK'
  <2> SUFFICES ASSUME NEW d \in calls' PROVE CallOK(d)'
    BY DEF CallsOK
  <2>1. CASE d = e
    <3>1. e.stage = "answered" => IsPast(e.answer, e.session)'
      BY <1>3, <1>5, <1>14 DEF IsPast
    <3> QED
      BY <1>3, <1>7, <1>14, <2>1, <3>1 DEF CallOK, Accepted, Reported
  <2>2. CASE d \in calls
    <3>1. CallOK(d)
      BY <2>2 DEF WakeWordInv, CallsOK
    <3> QED
      BY <1>6, <1>7, <3>1, CallKeeps DEF Accepted, Reported
  <2> QED
    BY <1>14, <2>1, <2>2
<1>16. StartsAreFresh'
  <2> SUFFICES ASSUME NEW d \in calls', d.job = "start"
               PROVE  /\ d.stage = "sent" => row'[d.session] = WakeWords!NoRow
                      /\ \A f \in calls' : f.job = "start" /\ f.session = d.session => f = d
    BY DEF StartsAreFresh
  <2>1. PICK d0 \in calls : d0.job = "start" /\ d0.session = d.session
                            /\ ((d = d0 /\ d # c) \/ (d = e /\ d0 = c))
    BY <1>14
  <2>2. d.stage = "sent" => row'[d.session] = WakeWords!NoRow
    <3> SUFFICES ASSUME d.stage = "sent" PROVE row'[d.session] = WakeWords!NoRow
      OBVIOUS
    <3>1. d = d0 /\ d # c
      BY <1>14, <2>1
    <3>2. row[d.session] = WakeWords!NoRow /\ d.session \in Sessions
      BY <2>1, <3>1 DEF WakeWordInv, StartsAreFresh, CallsOK, CallOK, WakeWords!Calls
    <3>3. d.session = s => q = row[s]
      <4> SUFFICES ASSUME d.session = s PROVE q = row[s]
        OBVIOUS
      <4>1. c.job # "start"
        BY <2>1, <3>1 DEF WakeWordInv, StartsAreFresh
      <4>2. row[s].status = "ABSENT"
        BY <3>2 DEF WakeWords!NoRow
      <4> QED
        BY <1>4, <4>1, <4>2
    <3> QED
      BY <1>5, <3>2, <3>3
  <2>3. ASSUME NEW f \in calls', f.job = "start", f.session = d.session PROVE f = d
    <3>1. PICK f0 \in calls : f0.job = "start" /\ f0.session = f.session
                              /\ ((f = f0 /\ f # c) \/ (f = e /\ f0 = c))
      BY <1>14, <2>3
    <3>2. f0 = d0
      BY <2>1, <2>3, <3>1 DEF WakeWordInv, StartsAreFresh
    <3> QED
      BY <2>1, <3>1, <3>2
  <2> QED
    BY <2>2, <2>3
<1> QED
  BY <1>8, <1>10, <1>11, <1>12, <1>13, <1>15, <1>16 DEF WakeWordInv

-----------------------------------------------------------------------------
(* The answer of a call replaces the copy Home Assistant has.              *)
LEMMA UpdateKeeps ==
  ASSUME WakeWordInv, NEW c \in calls, c.stage = "answered", row' = row,
         WakeWords!Update(c.session, c.answer)
  PROVE  /\ Copied' /\ copy' \in [Sessions -> WakeWords!Rows] /\ active' \in Sessions \cup {None}
         /\ c.session \in Sessions
<1>1. c.session \in Sessions /\ c.answer \in WakeWords!Rows /\ IsPast(c.answer, c.session)
  BY DEF WakeWordInv, CallsOK, CallOK, WakeWords!Calls
<1>2. /\ copy' = [copy EXCEPT ![c.session] = c.answer]
      /\ active' = IF c.answer.status = "ACTIVE" THEN c.session ELSE None
  BY DEF WakeWords!Update
<1>3. \A s \in Sessions : copy'[s] = IF s = c.session THEN c.answer ELSE copy[s]
  BY <1>2 DEF WakeWordInv, PanelTyped
<1>4. ASSUME NEW s \in Sessions, copy'[s].status # "ABSENT"
      PROVE  IsPast(copy[s], s)'
  <2>1. PICK q : q = copy'[s]
    OBVIOUS
  <2>2. IsPast(q, s)
    BY <1>1, <1>3, <1>4, <2>1 DEF WakeWordInv, Copied
  <2> QED
    BY <2>1, <2>2 DEF IsPast
<1>5. active' # None => copy'[active'].status = "ACTIVE"
  BY <1>1, <1>2, <1>3
<1>6. Copied'
  BY <1>4, <1>5 DEF Copied, IsPast
<1> QED
  BY <1>1, <1>2, <1>6 DEF WakeWordInv, PanelTyped

(* Where a recording may go without Speaker-ID.                            *)
Goes(from, to) ==
  \/ to = "over" /\ from \in {"recording", "stored", "reporting", "over"}
  \/ to = "reporting" /\ from = "stored"
  \/ to = "left" /\ from = "ending"
  \/ to = "ending" /\ from = "recording"

Walks ==
  /\ stream' \in [Recordings -> Streams]
  /\ \A r \in Recordings :
       \/ stream'[r] = stream[r]
       \/ /\ stream'[r].session = stream[r].session /\ stream'[r].user = stream[r].user
          /\ stream'[r].verdict = stream[r].verdict
          /\ Goes(stream[r].stage, stream'[r].stage)

LEMMA StageMoves ==
  ASSUME WakeWordInv, NEW r \in Recordings, NEW stage, Goes(stream[r].stage, stage),
         stream' = [stream EXCEPT ![r].stage = stage]
  PROVE  Walks
<1>1. stage \in WakeWords!Stages
  BY DEF Goes, WakeWords!Stages
<1>2. stream \in [Recordings -> Streams]
  BY DEF WakeWordInv, AudioTyped
<1>3. \A q \in Recordings : stream'[q] = IF q = r THEN [stream[q] EXCEPT !.stage = stage]
                                                  ELSE stream[q]
  BY <1>2
<1>4. \A q \in Recordings : stream'[q] \in Streams
  BY <1>1, <1>2, <1>3 DEF Streams
<1>5. stream' \in [Recordings -> Streams]
  BY <1>2, <1>4
<1>6. /\ stream'[r].stage = stage /\ stream'[r].session = stream[r].session
      /\ stream'[r].user = stream[r].user /\ stream'[r].verdict = stream[r].verdict
  BY <1>2, <1>3 DEF Streams
<1> QED
  BY <1>3, <1>5, <1>6 DEF Walks

(* A step that neither the Router nor Speaker-ID takes part in.            *)
LEMMA QuietKeeps ==
  ASSUME WakeWordInv, UNCHANGED <<row, WakeWords!store>>, faults' \in {faults} \cup 0 .. MaxFaults,
         PanelTyped', Copied', Walks,
         device' \in Recordings \cup {None},
         \A c \in calls' :
           \/ c \in calls
           \/ (c.job # "start" /\ CallOK(c)')
           \/ \E d \in calls : c = [d EXCEPT !.waited = FALSE] /\ (c = d \/ d \notin calls')
  PROVE  WakeWordInv'
<1>1. UNCHANGED <<captures, samples, writing, files, unlinking, orphans>>
  BY DEF WakeWords!store
<1>2. AudioTyped' /\ StoreTyped'
  BY <1>1 DEF WakeWordInv, AudioTyped, StoreTyped, Walks
<1>3. ASSUME NEW r \in Recordings
      PROVE  /\ stream'[r].stage = "idle" => stream'[r] = WakeWords!NoStream
             /\ stream'[r].session = stream[r].session /\ stream'[r].user = stream[r].user
             /\ stream'[r].verdict = stream[r].verdict
             /\ \/ stream'[r].stage = stream[r].stage
                \/ stream'[r].stage = "over" /\ writing # r
                \/ stream'[r].stage = "reporting" /\ stream[r].stage = "stored"
                \/ stream'[r].stage = "left" /\ stream[r].stage = "ending"
                \/ stream'[r].stage = "ending" /\ stream[r].stage = "recording"
  <2>1. StreamOK(r)
    BY DEF WakeWordInv, StreamsOK
  <2>2. CASE stream'[r] = stream[r]
    BY <2>1, <2>2 DEF StreamOK
  <2>3. CASE stream'[r] # stream[r]
    <3>1. Goes(stream[r].stage, stream'[r].stage)
      BY <2>3 DEF Walks
    <3>2. writing = r => stream[r].stage \in {"ending", "left"}
      BY NoneIsNobody DEF WakeWordInv, WritingOK, WakeWords!InHand
    <3> QED
      BY <2>3, <3>1, <3>2 DEF Walks, Goes
  <2> QED
    BY <2>2, <2>3
<1>4. RowsOK' /\ StreamsOK' /\ AcceptedOnce' /\ WritingOK'
  BY <1>1, <1>2, <1>3, RecordingsMove
<1>5. \A r \in Recordings : /\ \A s \in Sessions : Accepted(r, s) => Accepted(r, s)'
                            /\ Reported(r) => Reported(r)'
  BY <1>3 DEF Accepted, Reported
<1>6. CallsOK' /\ StartsAreFresh'
  BY <1>5, CallsMove
<1> QED
  BY <1>2, <1>4, <1>6 DEF WakeWordInv

-----------------------------------------------------------------------------
(* A session that Home Assistant opens is a new one.                       *)
LEMMA CaptureKeeps ==
  ASSUME WakeWordInv, NEW u \in Users, WakeWords!Capture(u)
  PROVE  WakeWordInv'
<1>1. PICK s \in Sessions :
        /\ row[s] = WakeWords!NoRow /\ \A c \in calls : c.session # s
        /\ calls' = calls \cup {WakeWords!Call("start", s, u, "ACTIVE")}
  BY DEF WakeWords!Capture
<1>2. UNCHANGED <<row, copy, active, mode, timer, pressing, presses, device, stream, captures,
                  samples, writing, files, unlinking, orphans, faults>>
  BY DEF WakeWords!Capture, WakeWords!coordinator, WakeWords!audio, WakeWords!store
<1> DEFINE new == WakeWords!Call("start", s, u, "ACTIVE")
<1>3. /\ new \in WakeWords!Calls /\ new.job = "start" /\ new.session = s /\ new.by = u
      /\ new.verdict = "ACTIVE" /\ new.stage = "sent"
  BY NewCall
<1> HIDE DEF new
<1>4. PanelTyped' /\ AudioTyped' /\ StoreTyped' /\ Copied' /\ RowsOK' /\ StreamsOK'
      /\ AcceptedOnce' /\ WritingOK'
  BY <1>2
     DEF WakeWordInv, PanelTyped, AudioTyped, StoreTyped, Copied, IsPast, RowsOK, Accepted,
              StreamsOK, StreamOK, AcceptedOnce, WritingOK, WakeWords!InHand
<1>5. CallOK(new)
  BY <1>3 DEF CallOK, Completing
<1>6. \A c \in calls' : CallOK(c)
  BY <1>1, <1>5 DEF WakeWordInv, CallsOK, new
<1>7. CallsOK'
  BY <1>2, <1>6 DEF CallsOK, CallOK, IsPast, Accepted, Reported
<1>8. StartsAreFresh'
  <2> SUFFICES ASSUME NEW c \in calls', c.job = "start"
               PROVE  /\ c.stage = "sent" => row[c.session] = WakeWords!NoRow
                      /\ \A d \in calls' : d.job = "start" /\ d.session = c.session => d = c
    BY <1>2 DEF StartsAreFresh
  <2>1. calls' = calls \cup {new}
    BY <1>1 DEF new
  <2> QED
    BY <1>1, <1>3, <2>1 DEF WakeWordInv, StartsAreFresh
<1> QED
  BY <1>4, <1>7, <1>8 DEF WakeWordInv

LEMMA Stands == ASSUME WakeWordInv, stream' = stream PROVE Walks
BY DEF WakeWordInv, AudioTyped, Walks

(* The panel, its presses and its timer.                                   *)
LEMMA PanelKeeps ==
  ASSUME WakeWordInv,
         \/ \E s \in Sessions : WakeWords!Pressed(s) \/ WakeWords!PressFails(s)
         \/ WakeWords!TimesOut \/ WakeWords!Restore
  PROVE  WakeWordInv'
<1>1. UNCHANGED <<row, copy, active, mode, device, stream, WakeWords!store, faults>>
  BY DEF WakeWords!Pressed, WakeWords!PressFails, WakeWords!TimesOut, WakeWords!Restore,
         WakeWords!coordinator, WakeWords!audio
<1>2. Copied' /\ Walks /\ device' \in Recordings \cup {None}
  BY <1>1, Stands DEF WakeWordInv, Copied, IsPast, AudioTyped
<1>3. PanelTyped'
  <2>1. timer' \in Sessions \cup {None} /\ pressing' \subseteq Sessions /\ presses' \in Nat
    BY DEF WakeWords!Pressed, WakeWords!PressFails, WakeWords!TimesOut, WakeWords!Restore,
           WakeWords!coordinator, WakeWordInv, PanelTyped
  <2> QED
    BY <1>1, <2>1 DEF WakeWordInv, PanelTyped
<1>4. \/ calls' = calls
      \/ \E s \in Sessions, job \in {"press", "timeout"} :
           calls' = calls \cup {WakeWords!Call(job, s, None, "FAILED")}
      \/ \E s \in Sessions : calls' = calls \cup {WakeWords!Call("restore", s, None, "ACTIVE")}
  BY DEF WakeWords!Pressed, WakeWords!PressFails, WakeWords!TimesOut, WakeWords!Restore,
         WakeWords!coordinator, WakeWordInv, PanelTyped
<1>5. ASSUME NEW s \in Sessions, NEW job \in {"press", "timeout"}
      PROVE  /\ CallOK(WakeWords!Call(job, s, None, "FAILED"))'
             /\ WakeWords!Call(job, s, None, "FAILED").job # "start"
  <2> DEFINE new == WakeWords!Call(job, s, None, "FAILED")
  <2>1. /\ new \in WakeWords!Calls /\ new.job = job /\ new.verdict = "FAILED" /\ new.stage = "sent"
    BY NewCall DEF WakeWords!Terminal
  <2> HIDE DEF new
  <2>2. CallOK(new)' /\ new.job # "start"
    BY <2>1 DEF CallOK, WakeWords!Terminal
  <2> QED
    BY <2>2 DEF new
<1>6. ASSUME NEW s \in Sessions
      PROVE  /\ CallOK(WakeWords!Call("restore", s, None, "ACTIVE"))'
             /\ WakeWords!Call("restore", s, None, "ACTIVE").job # "start"
  <2> DEFINE new == WakeWords!Call("restore", s, None, "ACTIVE")
  <2>1. new \in WakeWords!Calls /\ new.job = "restore" /\ new.stage = "sent"
    BY NewCall
  <2> HIDE DEF new
  <2>2. CallOK(new)' /\ new.job # "start"
    BY <2>1 DEF CallOK, Completing
  <2> QED
    BY <2>2 DEF new
<1>7. \A c \in calls' : c \in calls \/ (c.job # "start" /\ CallOK(c)')
  BY <1>4, <1>5, <1>6
<1> QED
  BY <1>1, <1>2, <1>3, <1>7, QuietKeeps

(* An answer arrives.                                                      *)
LEMMA AnswerKeeps ==
  ASSUME WakeWordInv, NEW c \in calls,
         WakeWords!Started(c) \/ WakeWords!Completed(c) \/ WakeWords!Restored(c)
  PROVE  WakeWordInv'
<1>1. /\ c.stage = "answered" /\ WakeWords!Update(c.session, c.answer) /\ calls' = calls \ {c}
      /\ UNCHANGED <<row, timer, presses, device, WakeWords!store, faults>>
  BY DEF WakeWords!Started, WakeWords!Completed, WakeWords!Restored, WakeWords!audio
<1>2. /\ Copied' /\ copy' \in [Sessions -> WakeWords!Rows] /\ active' \in Sessions \cup {None}
      /\ c.session \in Sessions
  BY <1>1, UpdateKeeps
<1>3. CallOK(c)
  BY DEF WakeWordInv, CallsOK
<1>4. PanelTyped'
  <2>1. mode' \in {"READY", "RECORDING"} \cup WakeWords!Terminal
    <3>1. CASE WakeWords!Completed(c)
      <4>1. c.job \in Completing /\ mode' = c.answer.status
        BY <3>1 DEF WakeWords!Completed, Completing
      <4> QED
        BY <1>1, <1>3, <4>1 DEF CallOK
    <3>2. CASE WakeWords!Started(c) \/ WakeWords!Restored(c)
      BY <3>2 DEF WakeWords!Started, WakeWords!Restored
    <3> QED
      BY <3>1, <3>2
  <2>2. pressing' \subseteq Sessions
    BY <1>2
       DEF WakeWords!Started, WakeWords!Completed, WakeWords!Restored, WakeWordInv,
           PanelTyped
  <2> QED
    BY <1>1, <1>2, <2>1, <2>2 DEF WakeWordInv, PanelTyped
<1>5. Walks
  <2>1. CASE stream' = stream
    BY <2>1, Stands
  <2>2. CASE c.job = "result" /\ stream' = [stream EXCEPT ![c.by].stage = "over"]
    <3>1. c.by \in Recordings /\ Goes(stream[c.by].stage, "over")
      BY <1>3, <2>2 DEF CallOK, Reported, Goes
    <3> QED
      BY <2>2, <3>1, StageMoves
  <2> QED
    BY <2>1, <2>2
       DEF WakeWords!Started, WakeWords!Completed, WakeWords!Restored, WakeWords!audio
<1>6. device' \in Recordings \cup {None}
  BY <1>1 DEF WakeWordInv, AudioTyped
<1> QED
  BY <1>1, <1>2, <1>4, <1>5, <1>6, QuietKeeps

(* A caller no longer waits.                                               *)
LEMMA CallerLeaves ==
  ASSUME WakeWordInv, NEW c \in calls, WakeWords!Raises(c) \/ WakeWords!Lost(c)
  PROVE  WakeWordInv'
<1>1. UNCHANGED <<row, copy, active, mode, timer, pressing, presses, device, WakeWords!store,
                  faults>>
  BY DEF WakeWords!Raises, WakeWords!Lost, WakeWords!coordinator, WakeWords!audio
<1>2. CallOK(c) /\ c \in WakeWords!Calls
  BY DEF WakeWordInv, CallsOK, CallOK
<1>3. PanelTyped' /\ Copied' /\ device' \in Recordings \cup {None}
  BY <1>1 DEF WakeWordInv, PanelTyped, Copied, IsPast, AudioTyped
<1>4. Walks
  <2>1. CASE stream' = stream
    BY <2>1, Stands
  <2>2. CASE c.job = "result" /\ stream' = [stream EXCEPT ![c.by].stage = "over"]
    <3>1. c.by \in Recordings /\ Goes(stream[c.by].stage, "over")
      BY <1>2, <2>2 DEF CallOK, Reported, Goes
    <3> QED
      BY <2>2, <3>1, StageMoves
  <2> QED
    BY <2>1, <2>2 DEF WakeWords!Raises, WakeWords!Lost, WakeWords!audio
<1>5. \/ calls' \subseteq calls
      \/ /\ c.waited /\ calls' = (calls \ {c}) \cup {[c EXCEPT !.waited = FALSE]}
  BY DEF WakeWords!Raises, WakeWords!Lost
<1>6. c.waited => [c EXCEPT !.waited = FALSE] # c
  BY <1>2, Unwaited
<1>7. \A d \in calls' :
        \/ d \in calls
        \/ \E e \in calls : d = [e EXCEPT !.waited = FALSE] /\ (d = e \/ e \notin calls')
  BY <1>5, <1>6
<1> QED
  BY <1>1, <1>3, <1>4, <1>7, QuietKeeps

-----------------------------------------------------------------------------
(* The speaker, and the handlers of its recordings.                        *)
LEMMA HandlersKeep ==
  ASSUME WakeWordInv, NEW r \in Recordings,
         \/ WakeWords!Ignored \/ WakeWords!End(r)
         \/ WakeWords!Leaves(r) \/ WakeWords!Result(r)
  PROVE  WakeWordInv'
<1>1. UNCHANGED <<row, copy, active, mode, pressing, WakeWords!store, faults>>
  BY DEF WakeWords!Ignored, WakeWords!End, WakeWords!Leaves, WakeWords!Result,
         WakeWords!coordinator, WakeWords!panel, WakeWords!audio
<1>2. PanelTyped' /\ Copied'
  <2>1. presses' \in Nat /\ timer' \in Sessions \cup {None}
    BY DEF WakeWords!Ignored, WakeWords!End, WakeWords!Leaves, WakeWords!Result,
           WakeWords!coordinator, WakeWordInv, PanelTyped
  <2> QED
    BY <1>1, <2>1 DEF WakeWordInv, PanelTyped, Copied, IsPast
<1>3. device' \in Recordings \cup {None}
  BY DEF WakeWords!Ignored, WakeWords!End, WakeWords!Leaves, WakeWords!Result,
         WakeWords!Idle, WakeWords!audio, WakeWordInv, AudioTyped
<1>4. \/ stream' = stream
      \/ \E stage \in WakeWords!Stages : /\ Goes(stream[r].stage, stage)
                               /\ stream' = [stream EXCEPT ![r].stage = stage]
  BY DEF WakeWords!Ignored, WakeWords!End, WakeWords!Leaves, WakeWords!Result,
         WakeWords!audio, Goes, WakeWords!Stages
<1>5. Walks
  BY <1>4, Stands, StageMoves
<1>6. CASE WakeWords!Ignored \/ WakeWords!End(r)
  <2>1. calls' = calls
    BY <1>6 DEF WakeWords!Ignored, WakeWords!End, WakeWords!panel
  <2> QED
    BY <1>1, <1>2, <1>3, <1>5, <2>1, QuietKeeps
<1>7. CASE WakeWords!Leaves(r)
  <2>1. \/ calls' = calls
        \/ \E c \in calls :
             c.waited /\ calls' \subseteq (calls \ {c}) \cup {[c EXCEPT !.waited = FALSE]}
    BY <1>7 DEF WakeWords!Leaves
  <2>2. \A c \in calls : c.waited => [c EXCEPT !.waited = FALSE] # c
    BY Unwaited DEF WakeWordInv, CallsOK, CallOK
  <2>3. \A d \in calls' :
          \/ d \in calls
          \/ \E e \in calls : d = [e EXCEPT !.waited = FALSE] /\ (d = e \/ e \notin calls')
    BY <2>1, <2>2
  <2> QED
    BY <1>1, <1>2, <1>3, <1>5, <2>3, QuietKeeps
<1>8. CASE WakeWords!Result(r)
  <2> DEFINE new == WakeWords!Call("result", stream[r].session, r, stream[r].verdict)
  <2>1. /\ stream[r].stage = "stored" /\ calls' = calls \cup {new}
        /\ stream' = [stream EXCEPT ![r].stage = "reporting"]
    BY <1>8 DEF WakeWords!Result
  <2>2. /\ stream[r].session \in Sessions /\ stream[r].verdict \in WakeWords!Terminal
    BY <2>1 DEF WakeWordInv, StreamsOK, StreamOK, AudioTyped, Streams, Bound
  <2>3. /\ stream'[r].session = stream[r].session /\ stream'[r].verdict = stream[r].verdict
        /\ stream'[r].stage = "reporting"
    BY <2>1 DEF WakeWordInv, AudioTyped, Streams
  <2>4. PICK c : c = new
    OBVIOUS
  <2>5. /\ c \in WakeWords!Calls /\ c.job = "result" /\ c.session = stream[r].session /\ c.by = r
        /\ c.verdict = stream[r].verdict /\ c.stage = "sent"
    BY <2>2, <2>4, NewCall
  <2>6. CallOK(c)'
    BY <2>2, <2>3, <2>5 DEF CallOK, Accepted, Reported
  <2>7. \A d \in calls' : d \in calls \/ (d.job # "start" /\ CallOK(d)')
    BY <2>1, <2>4, <2>5, <2>6
  <2> QED
    BY <1>1, <1>2, <1>3, <1>5, <2>7, QuietKeeps
<1> QED
  BY <1>6, <1>7, <1>8

(* A recording is made for the active session, and for the user of it.     *)
LEMMA RecordKeeps ==
  ASSUME WakeWordInv, NEW r \in Recordings, WakeWords!Record(r)
  PROVE  WakeWordInv'
<1>1. /\ UNCHANGED <<row, copy, active, mode, timer, calls, pressing, captures, samples, writing,
                     files, unlinking, orphans, faults>>
      /\ stream[r].stage = "idle" /\ presses > 0 /\ presses' = presses - 1
  BY DEF WakeWords!Record, WakeWords!coordinator, WakeWords!panel, WakeWords!store
<1>2. PanelTyped' /\ StoreTyped' /\ Copied'
  BY <1>1 DEF WakeWordInv, PanelTyped, StoreTyped, Copied, IsPast
<1>3. stream[r] = WakeWords!NoStream
  BY <1>1 DEF WakeWordInv, StreamsOK, StreamOK
<1>4. PICK new \in Streams :
        /\ stream' \in [Recordings -> Streams] /\ new.verdict = "none"
        /\ \A q \in Recordings : stream'[q] = IF q = r THEN new ELSE stream[q]
        /\ \/ new.stage = "over" /\ new.session = None
           \/ /\ new.stage = "recording" /\ new.session \in Sessions
              /\ row[new.session].status # "ABSENT" /\ new.user = row[new.session].user
  <2>1. stream \in [Recordings -> Streams]
    BY DEF WakeWordInv, AudioTyped
  <2>2. CASE active # None /\ mode = "RECORDING"
    <3>1. stream' = [stream EXCEPT ![r].stage = "recording", ![r].session = active,
                                   ![r].user = copy[active].user]
      BY <2>2 DEF WakeWords!Record
    <3>2. active \in Sessions /\ copy[active].status = "ACTIVE" /\ copy[active].user \in Users \cup {None}
      BY <2>2 DEF WakeWordInv, PanelTyped, Copied, WakeWords!Rows
    <3>3. row[active].status # "ABSENT" /\ copy[active].user = row[active].user
      BY <3>2 DEF WakeWordInv, Copied, IsPast
    <3> DEFINE new == [stage |-> "recording", session |-> active, user |-> copy[active].user,
                       verdict |-> "none"]
    <3>4. new \in Streams
      BY <3>2 DEF Streams, WakeWords!Stages
    <3>5. \A q \in Recordings : stream'[q] = IF q = r THEN new ELSE stream[q]
      <4>1. /\ \A q \in Recordings \ {r} : stream'[q] = stream[q]
            /\ stream'[r] = [[[stream[r] EXCEPT !.stage = "recording"]
                                  EXCEPT !.session = active] EXCEPT !.user = copy[active].user]
        BY <2>1, <3>1
      <4>2. /\ [stream[r] EXCEPT !.stage = "recording"]
                 = [stage |-> "recording", session |-> None, user |-> None, verdict |-> "none"]
            /\ [[stage |-> "recording", session |-> None, user |-> None, verdict |-> "none"]
                  EXCEPT !.session = active]
                 = [stage |-> "recording", session |-> active, user |-> None, verdict |-> "none"]
            /\ [[stage |-> "recording", session |-> active, user |-> None, verdict |-> "none"]
                  EXCEPT !.user = copy[active].user] = new
        BY <1>3 DEF WakeWords!NoStream
      <4>3. stream'[r] = new
        BY <4>1, <4>2
      <4> QED
        BY <4>1, <4>3
    <3>6. stream' \in [Recordings -> Streams]
      BY <2>1, <3>1, <3>4, <3>5
    <3> QED
      BY <3>2, <3>3, <3>4, <3>5, <3>6
  <2>3. CASE ~(active # None /\ mode = "RECORDING")
    <3>1. stream' = [stream EXCEPT ![r].stage = "over"]
      BY <2>3 DEF WakeWords!Record
    <3> DEFINE new == [stage |-> "over", session |-> None, user |-> None, verdict |-> "none"]
    <3>2. new \in Streams
      BY DEF Streams, WakeWords!Stages
    <3>3. \A q \in Recordings : stream'[q] = IF q = r THEN new ELSE stream[q]
      BY <1>3, <2>1, <3>1 DEF WakeWords!NoStream
    <3>4. stream' \in [Recordings -> Streams]
      BY <2>1, <3>1, <3>2, <3>3
    <3> QED
      BY <3>2, <3>3, <3>4
  <2> QED
    BY <2>2, <2>3
<1>5. \A q \in Recordings : stream'[q] = IF q = r THEN new ELSE stream[q]
  BY <1>4
<1>6. AudioTyped'
  <2>1. device' \in Recordings \cup {None}
    BY DEF WakeWords!Record, WakeWordInv, AudioTyped
  <2> QED
    BY <1>1, <1>4, <2>1 DEF WakeWordInv, AudioTyped
<1>7. \A q \in Recordings, s \in Sessions : Accepted(q, s)' <=> Accepted(q, s)
  BY <1>3, <1>4, <1>5 DEF Accepted, WakeWords!NoStream
<1>8. RowsOK' /\ AcceptedOnce'
  BY <1>1, <1>7 DEF WakeWordInv, RowsOK, AcceptedOnce
<1>9. StreamsOK'
  <2> SUFFICES ASSUME NEW q \in Recordings PROVE StreamOK(q)'
    BY DEF StreamsOK
  <2>1. CASE q = r
    BY <1>1, <1>4, <1>5, <2>1 DEF StreamOK, Bound
  <2>2. CASE q # r
    <3>1. stream'[q] = stream[q] /\ StreamOK(q)
      BY <1>5, <2>2 DEF WakeWordInv, StreamsOK
    <3> QED
      BY <1>1, <3>1 DEF StreamOK
  <2> QED
    BY <2>1, <2>2
<1>10. WritingOK'
  <2> SUFFICES ASSUME writing # None
               PROVE  /\ stream'[writing].stage \in {"ending", "left"}
                      /\ captures[stream'[writing].session] = "none"
    BY <1>1 DEF WritingOK, WakeWords!InHand
  <2>1. writing \in Recordings /\ writing # r
    BY <1>1 DEF WakeWordInv, AudioTyped, WritingOK, WakeWords!InHand
  <2> QED
    BY <1>5, <2>1 DEF WakeWordInv, WritingOK, WakeWords!InHand
<1>11. CallsOK' /\ StartsAreFresh'
  <2>1. \A q \in Recordings : Reported(q) => Reported(q)'
    BY <1>1, <1>5 DEF Reported
  <2> QED
    BY <1>1, <1>7, <2>1, CallsMove
<1> QED
  BY <1>2, <1>6, <1>8, <1>9, <1>10, <1>11 DEF WakeWordInv

-----------------------------------------------------------------------------
(* Speaker-ID gives its verdict on a recording in hand, or leaves it.      *)
LEMMA JudgeKeeps ==
  ASSUME WakeWordInv, NEW r \in Recordings, WakeWords!InHand(r),
         UNCHANGED <<row, WakeWords!coordinator, WakeWords!panel, presses, device>>, StoreTyped',
         NEW verdict \in WakeWords!Terminal \cup {"none"}, NEW stage \in {"stored", "over"},
         stream' = [stream EXCEPT ![r].stage = stage, ![r].verdict = verdict],
         stage = "stored" => verdict # "none",
         captures' \in [Sessions -> {"none", "ACCEPTED", "REJECTED"}],
         \A s \in Sessions : captures[s] = "ACCEPTED" => captures'[s] = "ACCEPTED",
         verdict = "ACCEPTED" => /\ captures[stream[r].session] = "none"
                                 /\ captures'[stream[r].session] = "ACCEPTED",
         \/ writing' = None
         \/ writing' = writing /\ writing # r /\ captures' = captures
  PROVE  WakeWordInv'
<1>1. UNCHANGED <<row, copy, active, mode, timer, calls, pressing, presses, device>>
  BY DEF WakeWords!coordinator, WakeWords!panel
<1>2. PanelTyped' /\ Copied'
  BY <1>1 DEF WakeWordInv, PanelTyped, Copied, IsPast
<1>3. /\ stream \in [Recordings -> Streams] /\ stream[r].stage \in {"ending", "left"}
      /\ stream[r].session \in Sessions /\ stream[r].verdict # "ACCEPTED" /\ StreamOK(r)
  BY DEF WakeWordInv, AudioTyped, StreamsOK, StreamOK, WakeWords!InHand, Bound
<1>4. /\ \A q \in Recordings \ {r} : stream'[q] = stream[q]
      /\ stream'[r] = [[stream[r] EXCEPT !.stage = stage] EXCEPT !.verdict = verdict]
  BY <1>3
<1>5. /\ stream'[r].stage = stage /\ stream'[r].verdict = verdict
      /\ stream'[r].session = stream[r].session /\ stream'[r].user = stream[r].user
      /\ stream'[r] \in Streams
  <2>1. stage \in WakeWords!Stages
    BY DEF WakeWords!Stages
  <2>2. PICK p \in Streams : p = stream[r]
    BY <1>3
  <2>3. PICK q : q = [p EXCEPT !.stage = stage]
    OBVIOUS
  <2>4. /\ q \in Streams /\ q.stage = stage /\ q.session = p.session /\ q.user = p.user
    BY <2>1, <2>3 DEF Streams
  <2>5. PICK o : o = [q EXCEPT !.verdict = verdict]
    OBVIOUS
  <2>6. /\ o \in Streams /\ o.stage = stage /\ o.session = p.session /\ o.user = p.user
        /\ o.verdict = verdict
    BY <2>4, <2>5 DEF Streams
  <2> QED
    BY <1>4, <2>2, <2>3, <2>5, <2>6
<1>6. AudioTyped'
  <2>1. stream' \in [Recordings -> Streams]
    BY <1>3, <1>4, <1>5
  <2> QED
    BY <1>1, <2>1 DEF WakeWordInv, AudioTyped
<1>7. \A q \in Recordings, s \in Sessions :
        /\ Accepted(q, s) => Accepted(q, s)'
        /\ Accepted(q, s)' => \/ Accepted(q, s)
                              \/ q = r /\ s = stream[r].session /\ verdict = "ACCEPTED"
  BY <1>3, <1>4, <1>5 DEF Accepted
<1>8. RowsOK'
  BY <1>1, <1>7 DEF WakeWordInv, RowsOK
<1>9. StreamsOK'
  <2> SUFFICES ASSUME NEW q \in Recordings PROVE StreamOK(q)'
    BY DEF StreamsOK
  <2>1. CASE q = r
    BY <1>1, <1>3, <1>5, <2>1 DEF StreamOK
  <2>2. CASE q # r
    <3>1. stream'[q] = stream[q] /\ StreamOK(q)
      BY <1>4, <2>2 DEF WakeWordInv, StreamsOK
    <3> QED
      BY <1>1, <3>1 DEF StreamOK
  <2> QED
    BY <2>1, <2>2
<1>10. AcceptedOnce'
  <2>1. ASSUME NEW q \in Recordings, Accepted(q, stream[r].session), verdict = "ACCEPTED"
        PROVE  FALSE
    <3>1. captures[stream[r].session] = "ACCEPTED"
      BY <2>1 DEF Accepted, WakeWordInv, StreamsOK, StreamOK
    <3> QED
      BY <2>1, <3>1
  <2> QED
    BY <1>3, <1>7, <2>1 DEF WakeWordInv, AcceptedOnce
<1>11. WritingOK'
  <2> SUFFICES ASSUME writing' # None
               PROVE  /\ stream'[writing'].stage \in {"ending", "left"}
                      /\ captures'[stream'[writing'].session] = "none"
    BY DEF WritingOK, WakeWords!InHand
  <2>1. writing' = writing /\ writing \in Recordings \ {r} /\ captures' = captures
    BY DEF WakeWordInv, AudioTyped
  <2> QED
    BY <1>4, <2>1, NoneIsNobody DEF WakeWordInv, WritingOK, WakeWords!InHand
<1>12. CallsOK' /\ StartsAreFresh'
  <2>1. \A q \in Recordings : Reported(q) => Reported(q)'
    BY <1>3, <1>4 DEF Reported
  <2> QED
    BY <1>1, <1>7, <2>1, CallsMove
<1> QED
  BY <1>2, <1>6, <1>8, <1>9, <1>10, <1>11, <1>12 DEF WakeWordInv

(* The files, beside the recordings.                                       *)
LEMMA FilesKeep ==
  ASSUME WakeWordInv, NEW r \in Recordings,
         WakeWords!WriteFile(r) \/ WakeWords!Delete(r) \/ WakeWords!Unlink(r)
  PROVE  WakeWordInv'
<1>1. UNCHANGED <<row, copy, active, mode, timer, calls, pressing, presses, device, stream,
                  captures>>
  BY DEF WakeWords!WriteFile, WakeWords!Delete, WakeWords!Unlink, WakeWords!coordinator,
         WakeWords!panel, WakeWords!audio
<1>2. PanelTyped' /\ Copied' /\ RowsOK' /\ StreamsOK' /\ AcceptedOnce'
  BY <1>1
     DEF WakeWordInv, PanelTyped, Copied, IsPast, RowsOK, Accepted, StreamsOK, StreamOK,
              AcceptedOnce
<1>3. CallsOK' /\ StartsAreFresh'
  BY <1>1 DEF WakeWordInv, CallsOK, CallOK, IsPast, Accepted, Reported, StartsAreFresh
<1>4. AudioTyped' /\ StoreTyped'
  BY <1>1
     DEF WakeWordInv, AudioTyped, StoreTyped, WakeWords!WriteFile, WakeWords!Delete,
         WakeWords!Unlink
<1>5. WritingOK'
  <2>1. CASE WakeWords!WriteFile(r)
    BY <1>1, <2>1 DEF WakeWords!WriteFile, WritingOK, WakeWords!InHand
  <2>2. CASE writing' = writing
    BY <1>1, <2>2 DEF WakeWordInv, WritingOK, WakeWords!InHand
  <2> QED
    BY <2>1, <2>2 DEF WakeWords!Delete, WakeWords!Unlink
<1> QED
  BY <1>2, <1>3, <1>4, <1>5 DEF WakeWordInv

LEMMA SpeakerIdKeeps ==
  ASSUME WakeWordInv, WakeWords!SpeakerId
  PROVE  WakeWordInv'
<1>0. stream \in [Recordings -> Streams]
  BY DEF WakeWordInv, AudioTyped
<1>1. ASSUME NEW r \in Recordings, NEW verdict \in WakeWords!Terminal, WakeWords!Answered(r, verdict)
      PROVE  \E stage \in {"stored", "over"} :
               stream' = [stream EXCEPT ![r].stage = stage, ![r].verdict = verdict]
  <2>1. CASE stream[r].stage = "ending"
    <3>1. stream' = [stream EXCEPT ![r].stage = "stored", ![r].verdict = verdict]
      BY <1>0, <1>1, <2>1 DEF WakeWords!Answered
    <3> QED
      BY <3>1
  <2>2. CASE stream[r].stage # "ending"
    <3>1. stream' = [stream EXCEPT ![r].stage = "over", ![r].verdict = verdict]
      BY <1>0, <1>1, <2>2 DEF WakeWords!Answered
    <3> QED
      BY <3>1
  <2> QED
    BY <2>1, <2>2
<1>2. ASSUME NEW r \in Recordings, WakeWords!Reject(r)
      PROVE  WakeWordInv'
  <2>1. /\ WakeWords!InHand(r) /\ writing = None /\ writing' = None /\ StoreTyped'
        /\ UNCHANGED <<row, WakeWords!coordinator, WakeWords!panel, presses, device>>
    BY <1>2 DEF WakeWords!Reject, WakeWordInv, StoreTyped
  <2>2. PICK verdict \in {"REJECTED", "FAILED"} :
          /\ WakeWords!Answered(r, verdict)
          /\ \/ captures' = captures
             \/ /\ captures[stream[r].session] = "none"
                /\ captures' = [captures EXCEPT ![stream[r].session] = "REJECTED"]
    BY <1>2 DEF WakeWords!Reject
  <2>3. /\ captures' \in [Sessions -> {"none", "ACCEPTED", "REJECTED"}]
        /\ \A s \in Sessions : captures[s] = "ACCEPTED" => captures'[s] = "ACCEPTED"
    BY <2>2 DEF WakeWordInv, AudioTyped
  <2>4. PICK stage \in {"stored", "over"} :
          stream' = [stream EXCEPT ![r].stage = stage, ![r].verdict = verdict]
    BY <1>1, <2>2 DEF WakeWords!Terminal
  <2> QED
    BY <2>1, <2>3, <2>4, JudgeKeeps DEF WakeWords!Terminal
<1>3. CASE WakeWords!Commit \/ WakeWords!Rollback
  <2>1. /\ writing \in Recordings /\ WakeWords!InHand(writing)
        /\ captures[stream[writing].session] = "none" /\ stream[writing].session \in Sessions
        /\ writing' = None
        /\ UNCHANGED <<row, WakeWords!coordinator, WakeWords!panel, presses, device>>
    BY <1>3
       DEF WakeWords!Commit, WakeWords!Rollback, WakeWordInv, AudioTyped, WritingOK,
           WakeWords!InHand, StreamsOK, StreamOK, Bound
  <2>2. StoreTyped'
    BY <1>3, <2>1 DEF WakeWords!Commit, WakeWords!Rollback, WakeWordInv, StoreTyped
  <2>3. PICK w \in Recordings : w = writing
    BY <2>1
  <2>4. CASE WakeWords!Commit
    <3>1. PICK stage \in {"stored", "over"} :
            stream' = [stream EXCEPT ![w].stage = stage, ![w].verdict = "ACCEPTED"]
      BY <1>1, <2>3, <2>4 DEF WakeWords!Commit, WakeWords!Terminal
    <3>2. captures' = [captures EXCEPT ![stream[w].session] = "ACCEPTED"]
      BY <2>3, <2>4 DEF WakeWords!Commit
    <3>3. /\ captures' \in [Sessions -> {"none", "ACCEPTED", "REJECTED"}]
          /\ \A s \in Sessions : captures[s] = "ACCEPTED" => captures'[s] = "ACCEPTED"
          /\ captures'[stream[w].session] = "ACCEPTED"
      BY <2>1, <2>3, <3>2 DEF WakeWordInv, AudioTyped
    <3> QED
      BY <2>1, <2>2, <2>3, <3>1, <3>3, JudgeKeeps DEF WakeWords!Terminal
  <2>5. CASE WakeWords!Rollback
    <3>1. PICK stage \in {"stored", "over"} :
            stream' = [stream EXCEPT ![w].stage = stage, ![w].verdict = "FAILED"]
      BY <1>1, <2>3, <2>5 DEF WakeWords!Rollback, WakeWords!Terminal
    <3>2. captures' = captures
      BY <2>5 DEF WakeWords!Rollback
    <3>3. /\ captures' \in [Sessions -> {"none", "ACCEPTED", "REJECTED"}]
          /\ \A s \in Sessions : captures[s] = "ACCEPTED" => captures'[s] = "ACCEPTED"
      BY <3>2 DEF WakeWordInv, AudioTyped
    <3>4. WakeWords!InHand(w) /\ "FAILED" \in WakeWords!Terminal \cup {"none"}
      BY <2>1, <2>3 DEF WakeWords!Terminal
    <3> QED
      BY <2>1, <2>2, <3>1, <3>3, <3>4, JudgeKeeps
  <2> QED
    BY <1>3, <2>4, <2>5
<1>4. ASSUME NEW r \in Recordings, WakeWords!Dropped(r)
      PROVE  WakeWordInv'
  <2>1. /\ stream[r].stage = "left" /\ writing # r /\ StoreTyped'
        /\ stream' = [stream EXCEPT ![r].stage = "over"]
        /\ UNCHANGED <<row, WakeWords!coordinator, WakeWords!panel, presses, device, captures, writing>>
    BY <1>4 DEF WakeWords!Dropped, WakeWordInv, StoreTyped, WakeWords!store
  <2>2. PICK verdict \in WakeWords!Terminal \cup {"none"} : verdict = stream[r].verdict
    BY <1>0 DEF Streams
  <2>3. stream' = [stream EXCEPT ![r].stage = "over", ![r].verdict = verdict]
    <3>1. [[stream[r] EXCEPT !.stage = "over"] EXCEPT !.verdict = verdict]
            = [stream[r] EXCEPT !.stage = "over"]
      BY <1>0, <2>2 DEF Streams
    <3> QED
      BY <1>0, <2>1, <3>1
  <2>4. verdict # "ACCEPTED" /\ WakeWords!InHand(r)
    BY <2>1, <2>2 DEF WakeWordInv, StreamsOK, StreamOK, WakeWords!InHand
  <2>5. captures' \in [Sessions -> {"none", "ACCEPTED", "REJECTED"}]
    BY <2>1 DEF WakeWordInv, AudioTyped
  <2> QED
    BY <2>1, <2>3, <2>4, <2>5, JudgeKeeps
<1> QED
  BY <1>2, <1>3, <1>4, FilesKeep DEF WakeWords!SpeakerId

-----------------------------------------------------------------------------
LEMMA WakeWordsRestart ==
  ASSUME WakeWordInv, WakeWords!Restart
  PROVE  WakeWordInv'
<1>1. /\ UNCHANGED <<row, presses, WakeWords!store>>
      /\ active' = None /\ mode' = "READY" /\ timer' = None
      /\ pressing' = {} /\ device' = None /\ copy' = [s \in Sessions |-> WakeWords!NoRow]
  BY DEF WakeWords!Restart
<1>2. faults' \in {faults} \cup 0 .. MaxFaults
  BY WakeWordsAssumption
     DEF WakeWords!WakeWordAssumption, WakeWords!Restart, WakeWordInv, StoreTyped
<1>3. PanelTyped' /\ Copied'
  <2>1. PanelTyped'
    BY <1>1, RowTypes DEF WakeWordInv, PanelTyped
  <2>2. \A s \in Sessions : copy'[s].status = "ABSENT"
    BY <1>1 DEF WakeWords!NoRow
  <2> QED
    BY <1>1, <2>1, <2>2 DEF Copied
<1>4. Walks
  <2>1. stream \in [Recordings -> Streams]
    BY DEF WakeWordInv, AudioTyped
  <2>2. stream' = [r \in Recordings |->
          IF stream[r].stage \in {"recording", "stored", "reporting"}
          THEN [stream[r] EXCEPT !.stage = "over"]
          ELSE IF stream[r].stage = "ending" THEN [stream[r] EXCEPT !.stage = "left"]
          ELSE stream[r]]
    BY DEF WakeWords!Restart
  <2>3. ASSUME NEW r \in Recordings
        PROVE  /\ stream'[r] \in Streams
               /\ \/ stream'[r] = stream[r]
                  \/ /\ stream'[r].session = stream[r].session /\ stream'[r].user = stream[r].user
                     /\ stream'[r].verdict = stream[r].verdict
                     /\ Goes(stream[r].stage, stream'[r].stage)
    <3>1. CASE stream[r].stage \in {"recording", "stored", "reporting"}
      BY <2>1, <2>2, <3>1 DEF Streams, WakeWords!Stages, Goes
    <3>2. CASE stream[r].stage = "ending"
      BY <2>1, <2>2, <3>2 DEF Streams, WakeWords!Stages, Goes
    <3>3. CASE stream[r].stage \notin {"recording", "stored", "reporting", "ending"}
      BY <2>1, <2>2, <3>3
    <3> QED
      BY <3>1, <3>2, <3>3
  <2>4. stream' \in [Recordings -> Streams]
    BY <2>2, <2>3
  <2> QED
    BY <2>3, <2>4 DEF Walks
<1>5. \A c \in calls' : \E d \in calls : c = [d EXCEPT !.waited = FALSE]
  BY DEF WakeWords!Restart
<1>6. \A d \in calls : d.waited => d \notin calls'
  <2> SUFFICES ASSUME NEW d \in calls, d.waited, d \in calls' PROVE FALSE
    OBVIOUS
  <2>1. PICK e \in calls : d = [e EXCEPT !.waited = FALSE]
    BY <1>5
  <2> QED
    BY <2>1, Unwaited DEF WakeWordInv, CallsOK, CallOK
<1>7. \A d \in calls : ~d.waited => d = [d EXCEPT !.waited = FALSE]
  <2> SUFFICES ASSUME NEW d \in calls, ~d.waited PROVE d = [d EXCEPT !.waited = FALSE]
    OBVIOUS
  <2>1. d \in WakeWords!Calls
    BY DEF WakeWordInv, CallsOK, CallOK
  <2>2. d.waited = FALSE
    BY <2>1 DEF WakeWords!Calls
  <2> QED
    BY <2>1, <2>2 DEF WakeWords!Calls
<1>8. \A c \in calls' :
        \E d \in calls : c = [d EXCEPT !.waited = FALSE] /\ (c = d \/ d \notin calls')
  BY <1>5, <1>6, <1>7
<1> QED
  BY <1>1, <1>2, <1>3, <1>4, <1>8, QuietKeeps

(* A crash is a verdict for nobody: what was in hand is over.              *)
LEMMA CrashKeeps ==
  ASSUME WakeWordInv, WakeWords!Crash
  PROVE  WakeWordInv'
<1>1. /\ UNCHANGED <<row, copy, active, mode, timer, calls, pressing, presses, captures, samples,
                     files>>
      /\ writing' = None /\ unlinking' = {}
      /\ orphans' = orphans \cup unlinking \cup ({writing} \ {None})
  BY DEF WakeWords!Crash, WakeWords!coordinator, WakeWords!panel
<1>2. PanelTyped' /\ Copied'
  BY <1>1 DEF WakeWordInv, PanelTyped, Copied, IsPast
<1>3. StoreTyped'
  <2>1. faults' \in 0 .. MaxFaults
    BY WakeWordsAssumption
       DEF WakeWords!WakeWordAssumption, WakeWords!Crash, WakeWordInv, StoreTyped
  <2> QED
    BY <1>1, <2>1 DEF WakeWordInv, StoreTyped, AudioTyped
<1>4. stream \in [Recordings -> Streams]
  BY DEF WakeWordInv, AudioTyped
<1>5. stream' = [r \in Recordings |->
        IF WakeWords!InHand(r) THEN [stream[r] EXCEPT !.stage = "over"] ELSE stream[r]]
  BY DEF WakeWords!Crash
<1>6. ASSUME NEW r \in Recordings
      PROVE  /\ stream'[r] \in Streams
             /\ stream'[r].session = stream[r].session /\ stream'[r].user = stream[r].user
             /\ stream'[r].verdict = stream[r].verdict
             /\ \/ stream'[r] = stream[r]
                \/ stream'[r].stage = "over" /\ stream[r].stage \in {"ending", "left"}
  <2>1. CASE WakeWords!InHand(r)
    BY <1>4, <1>5, <2>1 DEF Streams, WakeWords!Stages, WakeWords!InHand
  <2>2. CASE ~WakeWords!InHand(r)
    BY <1>4, <1>5, <2>2
  <2> QED
    BY <2>1, <2>2
<1>7. AudioTyped'
  <2>1. stream' \in [Recordings -> Streams]
    BY <1>5, <1>6
  <2>2. device' \in Recordings \cup {None}
    BY DEF WakeWords!Crash, WakeWordInv, AudioTyped
  <2> QED
    BY <1>1, <2>1, <2>2 DEF WakeWordInv, AudioTyped
<1>8. \A r \in Recordings, s \in Sessions : Accepted(r, s)' <=> Accepted(r, s)
  BY <1>6 DEF Accepted
<1>9. RowsOK' /\ AcceptedOnce' /\ WritingOK'
  BY <1>1, <1>8 DEF WakeWordInv, RowsOK, AcceptedOnce, WritingOK
<1>10. StreamsOK'
  <2> SUFFICES ASSUME NEW r \in Recordings PROVE StreamOK(r)'
    BY DEF StreamsOK
  <2>1. StreamOK(r)
    BY DEF WakeWordInv, StreamsOK
  <2> QED
    BY <1>1, <1>6, <2>1 DEF StreamOK, Bound
<1>11. CallsOK' /\ StartsAreFresh'
  <2>1. \A q \in Recordings : Reported(q) => Reported(q)'
    BY <1>6 DEF Reported
  <2> QED
    BY <1>1, <1>8, <2>1, CallsMove
<1> QED
  BY <1>2, <1>3, <1>7, <1>9, <1>10, <1>11 DEF WakeWordInv

-----------------------------------------------------------------------------
LEMMA WakeWordInit == WakeWords!Init => WakeWordInv
<1> SUFFICES ASSUME WakeWords!Init PROVE WakeWordInv
  OBVIOUS
<1>1. PanelTyped
  BY RowTypes DEF WakeWords!Init, PanelTyped
<1>2. AudioTyped /\ StoreTyped
  BY WakeWordsAssumption
     DEF WakeWords!WakeWordAssumption, WakeWords!Init, AudioTyped, StoreTyped,
         WakeWords!NoStream, Streams,
         WakeWords!Stages
<1>3. CallsOK /\ StartsAreFresh /\ Copied /\ RowsOK /\ WritingOK
  BY DEF WakeWords!Init, CallsOK, StartsAreFresh, Copied, RowsOK, WritingOK, WakeWords!NoRow
<1>4. StreamsOK /\ AcceptedOnce
  BY DEF WakeWords!Init, StreamsOK, StreamOK, AcceptedOnce, Accepted, WakeWords!NoStream,
         Bound
<1> QED
  BY <1>1, <1>2, <1>3, <1>4 DEF WakeWordInv

LEMMA WakeWordNext == WakeWordInv /\ [WakeWords!Next]_WakeWords!vars => WakeWordInv'
<1> SUFFICES ASSUME WakeWordInv, [WakeWords!Next]_WakeWords!vars PROVE WakeWordInv'
  OBVIOUS
<1>1. CASE WakeWords!HomeAssistant
  BY <1>1, CaptureKeeps, PanelKeeps, AnswerKeeps, CallerLeaves DEF WakeWords!HomeAssistant
<1>2. CASE WakeWords!Audio
  <2>1. CASE WakeWords!Ignored
    <3>1. Walks /\ PanelTyped' /\ Copied' /\ device' \in Recordings \cup {None}
      BY <2>1, Stands
         DEF WakeWords!Ignored, WakeWords!coordinator, WakeWords!panel, WakeWords!audio,
             WakeWordInv, PanelTyped, Copied, IsPast,
                          AudioTyped
    <3> QED
      BY <2>1, <3>1, QuietKeeps DEF WakeWords!Ignored, WakeWords!panel
  <2>2. CASE \E r \in Recordings :
                 \/ WakeWords!Record(r) \/ WakeWords!End(r)
                 \/ WakeWords!Leaves(r) \/ WakeWords!Result(r)
    BY <2>2, RecordKeeps, HandlersKeep
  <2> QED
    BY <1>2, <2>1, <2>2 DEF WakeWords!Audio
<1>3. CASE UNCHANGED WakeWords!vars
  BY <1>3
     DEF WakeWords!vars, WakeWords!coordinator, WakeWords!panel, WakeWords!audio,
         WakeWords!store, WakeWordInv, PanelTyped, AudioTyped, StoreTyped,
              CallsOK, CallOK, IsPast, Accepted, Reported, StartsAreFresh, Copied, RowsOK,
              StreamsOK, StreamOK, AcceptedOnce, WritingOK, WakeWords!InHand
<1> QED
  BY <1>1, <1>2, <1>3, WakeWordsRouter, SpeakerIdKeeps, WakeWordsRestart, CrashKeeps
     DEF WakeWords!Next

LEMMA WakeWordInvHolds == WakeWords!Spec => []WakeWordInv
BY WakeWordInit, WakeWordNext, PTL DEF WakeWords!Spec

(* Every row, call, recording and sample keeps its form.                   *)
THEOREM WakeWordsTypeCorrect == WakeWords!Spec => []WakeWords!TypeOK
<1>1. WakeWordInv => WakeWords!TypeOK
  BY DEF WakeWordInv, PanelTyped, AudioTyped, StoreTyped, CallsOK, CallOK, Streams,
         WakeWords!TypeOK
<1> QED
  BY <1>1, WakeWordInvHolds, PTL

(* Speaker-ID accepts one recording of a capture at most, and a session    *)
(* that is accepted at the Router names it, and its user recorded it.      *)
THEOREM AcceptedIsOne == WakeWords!Spec => []OneSamplePerCapture
<1>1. ASSUME WakeWordInv, NEW s \in Sessions, NEW r \in Recordings, NEW q \in Recordings,
             Accepted(r, s), Accepted(q, s)
      PROVE  r = q
  BY <1>1 DEF WakeWordInv, AcceptedOnce
<1>2. ASSUME WakeWordInv, NEW s \in Sessions, row[s].status = "ACCEPTED"
      PROVE  /\ row[s].sample \in Recordings /\ Accepted(row[s].sample, s)
             /\ stream[row[s].sample].user = row[s].user
  <2>1. row[s].sample \in Recordings /\ Accepted(row[s].sample, s)
    BY <1>2 DEF WakeWordInv, RowsOK
  <2>2. StreamOK(row[s].sample) /\ stream[row[s].sample].session = s
    BY <1>2, <2>1 DEF WakeWordInv, StreamsOK, Accepted
  <2> QED
    BY <2>1, <2>2, NoneIsNobody DEF StreamOK
<1>3. WakeWordInv => OneSamplePerCapture
  <2> SUFFICES ASSUME WakeWordInv PROVE OneSamplePerCapture
    OBVIOUS
  <2> QED
    BY <1>1, <1>2 DEF OneSamplePerCapture, WakeWords!OneSamplePerCapture, Accepted
<1> QED
  BY <1>3, WakeWordInvHolds, PTL

(* Home Assistant's copy of a session holds no outcome that the Router     *)
(* does not have (wake_word_capture.py, _update).                          *)
THEOREM ShownIsSettled == WakeWords!Spec => []OutcomesAreTheRouters
<1>1. WakeWordInv => OutcomesAreTheRouters
  BY DEF WakeWordInv, Copied, IsPast, OutcomesAreTheRouters, WakeWords!OutcomesAreTheRouters,
         WakeWords!Terminal
<1> QED
  BY <1>1, WakeWordInvHolds, PTL
=============================================================================
