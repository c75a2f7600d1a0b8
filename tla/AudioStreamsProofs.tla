-------------------------- MODULE AudioStreamsProofs --------------------------
(***************************************************************************)
(* What the two hops guarantee for any number of recordings, any limits of *)
(* the registries and any restarts.                                        *)
(***************************************************************************)
EXTENDS AudioStreams, SequenceTheorems, FiniteSetTheorems, TLAPS

Frames == Requests \cup Replies \cup {"none"}
Places == Calling \cup {"none", "receiving", "open", "returned", "ended", "over"}
Buffers == [of : Streams \cup {None}, chunks : Seq(Streams)]
Workers == [stage : {"none", "computing", "computed"}, chunks : Seq(Streams)]

(* The threads at work, each with a slot of its own.                       *)
Computing == {s \in Streams : worker[s].stage = "computing"}

RegistryTyped ==
  /\ active \in [Hops -> [Ids -> Streams \cup {None}]]
  /\ closed \in [Hops -> Seq(Ids)] /\ \A h \in Hops : Len(closed[h]) <= ClosedCapacity
  /\ size \in [Hops -> [Streams -> 0 .. MaxChunks]]

SinkTyped ==
  /\ linked \in [Ids -> Streams \cup {None}]
  /\ buffer \in [Ids -> Buffers]
  /\ hungup \in [Hops -> [Streams -> BOOLEAN]]

LoopTyped ==
  /\ loop \in [Hops -> [Streams -> Places]]
  /\ wire \in [Hops -> [Streams -> Frames]]
  /\ due \in [Hops -> [Streams -> BOOLEAN]]

ClientTyped ==
  /\ id \in [Streams -> Ids]
  /\ sender \in [Streams -> {"idle", "sending", "ending", "result", "failed"}]
  /\ sent \in [Streams -> 0 .. MaxChunks + 1]
  /\ restarts \in 0 .. MaxRestarts

WorkTyped ==
  /\ worker \in [Streams -> Workers]
  /\ kept \in [Streams -> {None} \cup Seq(Streams)]
  /\ permits \in Nat /\ permits + Cardinality(Computing) = Slots

(* A thread, and what is stored, belong to the end of a recording: a       *)
(* socket that is in it has not answered with an error yet.                *)
AfterTheEnd ==
  \A s \in Streams :
    /\ worker[s].stage # "none" => loop["speaker"][s] \in {"ending", "over"}
    /\ kept[s] # None => loop["speaker"][s] \in {"returned", "ended", "over"}
    /\ loop["speaker"][s] \in {"ending", "returned", "ended"} => wire["speaker"][s] # "ERROR"

Shape == RegistryTyped /\ SinkTyped /\ LoopTyped /\ ClientTyped /\ WorkTyped /\ AfterTheEnd

-----------------------------------------------------------------------------
LEMMA Constants ==
  /\ MaxStreams \in Nat /\ MaxActive \in Nat /\ MaxChunks \in Nat /\ Slots \in Nat
  /\ ClosedCapacity \in Nat /\ ClosedCapacity >= 1 /\ MaxRestarts \in Nat
  /\ Streams \subseteq Nat /\ None \notin Streams /\ None \notin Seq(Streams)
  /\ IsFiniteSet(Streams) /\ Ids = Streams
<1>1. /\ MaxStreams \in Nat /\ MaxActive \in Nat /\ MaxChunks \in Nat /\ Slots \in Nat
      /\ ClosedCapacity \in Nat /\ ClosedCapacity >= 1 /\ MaxRestarts \in Nat
  BY StreamsAssumption
<1>2. Streams \subseteq Nat /\ None \notin Nat /\ None \notin Seq(Nat)
  BY StreamsAssumption DEF Streams
<1>3. \A q \in Seq(Streams) : q \in Seq(Nat)
  <2> SUFFICES ASSUME NEW q \in Seq(Streams) PROVE q \in Seq(Nat)
    OBVIOUS
  <2>1. \A k \in 1 .. Len(q) : q[k] \in Nat
    BY <1>2, ElementOfSeq
  <2> QED
    BY <2>1, SeqDef
<1>4. IsFiniteSet(Streams)
  BY <1>1, FS_Interval DEF Streams
<1> QED
  BY <1>1, <1>2, <1>3, <1>4 DEF Ids

(* The closed ids stay ids, and as many as the capacity.                   *)
LEMMA ClosedTyped ==
  ASSUME RegistryTyped, NEW h \in Hops, NEW i \in Ids
  PROVE  Closed(h, i) \in Seq(Ids) /\ Len(Closed(h, i)) <= ClosedCapacity
<1> DEFINE added == IF InClosed(h, i) THEN closed[h] ELSE Append(closed[h], i)
<1>1. closed[h] \in Seq(Ids) /\ Len(closed[h]) \in Nat /\ Len(closed[h]) <= ClosedCapacity
  BY LenProperties DEF RegistryTyped
<1>2. added \in Seq(Ids) /\ Len(added) \in Nat /\ Len(added) <= ClosedCapacity + 1
  BY <1>1, AppendProperties, Constants
<1>3. CASE Len(added) <= ClosedCapacity
  <2>1. Closed(h, i) = added
    BY <1>2, <1>3, Constants DEF Closed
  <2> QED
    BY <1>2, <1>3, <2>1
<1>4. CASE ~(Len(added) <= ClosedCapacity)
  <2>1. Closed(h, i) = Tail(added) /\ added # <<>>
    BY <1>2, <1>4, Constants DEF Closed
  <2>2. Tail(added) \in Seq(Ids) /\ Len(Tail(added)) = Len(added) - 1
    BY <1>2, <2>1, HeadTailProperties
  <2> QED
    BY <1>2, <2>1, <2>2, Constants
<1> QED
  BY <1>3, <1>4

LEMMA EmptyTyped == NoBuffer \in Buffers /\ NoWorker \in Workers
BY EmptySeq DEF NoBuffer, Buffers, NoWorker, Workers

LEMMA FinishTyped ==
  ASSUME Shape, NEW h \in Hops, NEW t \in Streams, Finish(h, t)
  PROVE  RegistryTyped'
<1>1. id[t] \in Ids
  BY DEF Shape, ClientTyped
<1>2. Closed(h, id[t]) \in Seq(Ids) /\ Len(Closed(h, id[t])) <= ClosedCapacity
  BY <1>1, ClosedTyped DEF Shape
<1>3. active' \in [Hops -> [Ids -> Streams \cup {None}]]
  BY <1>1 DEF Finish, Shape, RegistryTyped
<1>4. size' \in [Hops -> [Streams -> 0 .. MaxChunks]]
  BY Constants DEF Finish, Shape, RegistryTyped
<1>5. closed' \in [Hops -> Seq(Ids)] /\ \A g \in Hops : Len(closed'[g]) <= ClosedCapacity
  BY <1>2 DEF Finish, Shape, RegistryTyped
<1> QED
  BY <1>3, <1>4, <1>5 DEF RegistryTyped

LEMMA SinkAbortTyped ==
  ASSUME Shape, NEW h \in Hops, NEW i \in Ids, SinkAbort(h, i)
  PROVE  SinkTyped'
<1>1. NoBuffer \in Buffers
  BY EmptyTyped
<1>2. CASE h = "router" /\ linked[i] # None
  <2>1. linked[i] \in Streams
    BY <1>2 DEF Shape, SinkTyped
  <2>2. hungup' \in [Hops -> [Streams -> BOOLEAN]]
    <3>1. hungup' = [hungup EXCEPT !["speaker"][linked[i]] = TRUE] /\ "speaker" \in Hops
      BY <1>2 DEF SinkAbort, Hops
    <3> QED
      BY <2>1, <3>1 DEF Shape, SinkTyped
  <2>3. linked' \in [Ids -> Streams \cup {None}] /\ buffer' = buffer
    BY <1>2 DEF Shape, SinkTyped, SinkAbort
  <2> QED
    BY <2>2, <2>3 DEF Shape, SinkTyped
<1>3. CASE h = "speaker"
  BY <1>1, <1>3 DEF Shape, SinkTyped, SinkAbort
<1>4. CASE h = "router" /\ linked[i] = None
  BY <1>4 DEF Shape, SinkTyped, SinkAbort
<1> QED
  BY <1>2, <1>3, <1>4 DEF Hops

LEMMA AbortTyped ==
  ASSUME Shape, NEW h \in Hops, NEW t \in Streams, Abort(h, t)
  PROVE  RegistryTyped' /\ SinkTyped'
<1>1. id[t] \in Ids
  BY DEF Shape, ClientTyped
<1>2. CASE Holds(h, t) /\ Finish(h, t) /\ SinkAbort(h, id[t])
  BY <1>1, <1>2, FinishTyped, SinkAbortTyped
<1>3. CASE UNCHANGED <<active, closed, size, linked, buffer, hungup>>
  BY <1>3 DEF Shape, RegistryTyped, SinkTyped
<1> QED
  BY <1>2, <1>3 DEF Abort

LEMMA LeaveTyped ==
  ASSUME Shape, NEW h \in Hops, NEW s \in Streams, NEW t \in Streams, NEW reply \in Frames,
         Leave(h, s, t, reply)
  PROVE  RegistryTyped' /\ SinkTyped' /\ LoopTyped'
<1>1. LoopTyped'
  BY DEF Shape, LoopTyped, Leave, Places
<1> QED
  BY <1>1, AbortTyped DEF Leave

LEMMA OffersTyped ==
  ASSUME Shape, NEW h \in Hops, NEW s \in Streams, NEW frame \in Requests,
         Offers(h, s, frame), UNCHANGED <<id, restarts>>
  PROVE  ClientTyped'
<1>1. sent[s] \in Nat /\ MaxChunks \in Nat
  BY Constants DEF Shape, ClientTyped
<1>2. sent' \in [Streams -> 0 .. MaxChunks + 1]
  BY <1>1 DEF Offers, Shape, ClientTyped
<1>3. sender' \in [Streams -> {"idle", "sending", "ending", "result", "failed"}]
  BY DEF Offers, Shape, ClientTyped
<1> QED
  BY <1>2, <1>3 DEF Shape, ClientTyped

LEMMA WorkStays ==
  ASSUME Shape, UNCHANGED <<permits, worker, kept>>
  PROVE  WorkTyped'
<1>1. Computing' = Computing
  BY DEF Computing
<1> QED
  BY <1>1 DEF Shape, WorkTyped

(* A socket that is left is over, whatever it was answered.                *)
LEMMA LeaveAfter ==
  ASSUME Shape, NEW h \in Hops, NEW s \in Streams, NEW t \in Streams, NEW reply \in Frames,
         Leave(h, s, t, reply), kept' = kept,
         worker' = worker \/ worker' = [worker EXCEPT ![s] = NoWorker]
  PROVE  AfterTheEnd'
<1> SUFFICES ASSUME NEW o \in Streams
             PROVE  /\ worker'[o].stage # "none" => loop'["speaker"][o] \in {"ending", "over"}
                    /\ kept[o] # None => loop'["speaker"][o] \in {"returned", "ended", "over"}
                    /\ loop'["speaker"][o] \in {"ending", "returned", "ended"} =>
                         wire'["speaker"][o] # "ERROR"
  BY DEF AfterTheEnd
<1>1. worker'[o].stage = "none" \/ worker'[o] = worker[o]
  BY DEF Shape, WorkTyped, NoWorker
<1>2. CASE h = "speaker" /\ o = s
  <2>1. loop'["speaker"][o] = "over" /\ wire'["speaker"][o] = reply
    BY <1>2 DEF Leave, Shape, LoopTyped
  <2> QED
    BY <1>2, <2>1
<1>3. CASE ~(h = "speaker" /\ o = s)
  <2>1. loop'["speaker"][o] = loop["speaker"][o] /\ wire'["speaker"][o] = wire["speaker"][o]
    BY <1>3 DEF Leave, Shape, LoopTyped, Hops
  <2> QED
    BY <1>1, <2>1 DEF Shape, AfterTheEnd
<1> QED
  BY <1>2, <1>3

LEMMA FailShape ==
  ASSUME Shape, NEW h \in Hops, NEW s \in Streams, NEW t \in Streams, NEW reply \in Frames,
         Leave(h, s, t, reply), ClientTyped', UNCHANGED <<permits, worker, kept>>
  PROVE  Shape'
BY LeaveTyped, LeaveAfter, WorkStays DEF Shape

(* Where a socket goes on, or only the frame on its way changes.           *)
LEMMA MoveAfter ==
  ASSUME Shape, LoopTyped', UNCHANGED <<worker, kept>>,
         \A s \in Streams :
           \/ /\ loop'["speaker"][s] = loop["speaker"][s]
              /\ wire'["speaker"][s] = "ERROR" => wire["speaker"][s] = "ERROR"
           \/ /\ worker[s].stage = "none" /\ kept[s] = None
              /\ wire'["speaker"][s] # "ERROR"
           \/ /\ loop["speaker"][s] = "returned" /\ loop'["speaker"][s] = "ended"
              /\ wire'["speaker"][s] # "ERROR"
  PROVE  AfterTheEnd'
BY DEF Shape, AfterTheEnd

(* A socket whose recording is not ended has no thread, and nothing kept.  *)
LEMMA BeforeTheEnd ==
  ASSUME Shape, NEW s \in Streams, loop["speaker"][s] \in {"none", "receiving", "open"}
  PROVE  worker[s].stage = "none" /\ kept[s] = None
BY DEF Shape, AfterTheEnd

LEMMA ReceiveStartTyped ==
  ASSUME Shape, NEW h \in Hops, NEW s \in Streams, ReceiveStart(h, s)
  PROVE  Shape'
<1>1. ClientTyped'
  BY OffersTyped DEF ReceiveStart, Requests
<1>2. UNCHANGED <<permits, worker, kept>> /\ id[s] \in Ids
  BY DEF ReceiveStart, Shape, ClientTyped
<1>3. h = "speaker" => loop[h][s] \in {"receiving", "open"}
  BY DEF ReceiveStart, Offers
<1>4. h = "speaker" => kept[s] = None /\ worker[s].stage = "none"
  BY <1>3, BeforeTheEnd
<1>5. CASE Fail(h, s)
  BY <1>1, <1>2, <1>4, <1>5, FailShape DEF Fail, Frames, Replies
<1>6. ASSUME NEW at \in {"starting", "open"}, NEW reply \in {"none", "STARTED"},
             active' = [active EXCEPT ![h][id[s]] = s], UNCHANGED <<closed, size, due, hungup, linked>>,
             Reply(h, s, at, reply), SinkTyped', h = "router" \/ h = "speaker"
      PROVE  Shape'
  <2>1. RegistryTyped'
    BY <1>2, <1>6 DEF Shape, RegistryTyped
  <2>2. LoopTyped'
    BY <1>6 DEF Shape, LoopTyped, Reply, Places, Calling, Frames, Replies
  <2>3. AfterTheEnd'
    <3>1. \A o \in Streams : ~(h = "speaker" /\ o = s) =>
            loop'["speaker"][o] = loop["speaker"][o] /\ wire'["speaker"][o] = wire["speaker"][o]
      BY <1>6 DEF Reply, Shape, LoopTyped, Hops
    <3>2. h = "speaker" => wire'["speaker"][s] # "ERROR"
      BY <1>6 DEF Reply, Shape, LoopTyped, Hops
    <3> QED
      BY <1>2, <1>4, <2>2, <3>1, <3>2, MoveAfter
  <2> QED
    BY <1>1, <1>2, <1>6, <2>1, <2>2, <2>3, WorkStays DEF Shape
<1>7. CASE /\ h = "router" /\ active' = [active EXCEPT ![h][id[s]] = s]
           /\ Reply(h, s, "starting", "none")
           /\ UNCHANGED <<closed, size, due, linked, buffer, hungup>>
  BY <1>6, <1>7 DEF Shape, SinkTyped
<1>8. CASE /\ h = "speaker" /\ active' = [active EXCEPT ![h][id[s]] = s]
           /\ buffer' = [buffer EXCEPT ![id[s]] = [of |-> s, chunks |-> <<>>]]
           /\ Reply(h, s, "open", "STARTED")
           /\ UNCHANGED <<closed, size, due, linked, hungup>>
  <2>1. [of |-> s, chunks |-> <<>>] \in Buffers
    BY EmptySeq DEF Buffers
  <2> QED
    BY <1>2, <1>6, <1>8, <2>1 DEF Shape, SinkTyped
<1> QED
  BY <1>5, <1>7, <1>8 DEF ReceiveStart

LEMMA ReceiveChunkTyped ==
  ASSUME Shape, NEW h \in Hops, NEW s \in Streams, ReceiveChunk(h, s)
  PROVE  Shape'
<1> DEFINE i == id[s]
           t == active[h][i]
<1>1. ClientTyped'
  BY OffersTyped DEF ReceiveChunk, Requests
<1>2. UNCHANGED <<permits, worker, kept>> /\ i \in Ids /\ t \in Streams \cup {None}
  BY DEF ReceiveChunk, Shape, ClientTyped, RegistryTyped
<1>3. h = "speaker" => loop[h][s] \in {"receiving", "open"}
  BY DEF ReceiveChunk, Offers
<1>4. h = "speaker" => kept[s] = None /\ worker[s].stage = "none"
  BY <1>3, BeforeTheEnd
<1>5. CASE Fail(h, s)
  BY <1>1, <1>2, <1>4, <1>5, FailShape DEF Fail, Frames, Replies
<1>6. CASE t # None /\ Leave(h, s, t, "ERROR")
  BY <1>1, <1>2, <1>4, <1>6, FailShape DEF Frames, Replies
<1>7. CASE t # None /\ size[h][t] < MaxChunks /\ size' = [size EXCEPT ![h][t] = @ + 1]
           /\ UNCHANGED <<active, closed, due, linked, hungup>>
  <2>1. size[h][t] \in 0 .. MaxChunks /\ MaxChunks \in Nat
    BY <1>2, <1>7, Constants DEF Shape, RegistryTyped
  <2>2. RegistryTyped'
    BY <1>2, <1>7, <2>1 DEF Shape, RegistryTyped
  <2>3. CASE /\ h = "speaker" /\ buffer' = [buffer EXCEPT ![i].chunks = Append(@, s)]
             /\ Reply(h, s, "open", "ACK")
    <3>1. Append(buffer[i].chunks, s) \in Seq(Streams)
      BY <1>2, AppendProperties DEF Shape, SinkTyped, Buffers
    <3>2. SinkTyped'
      BY <1>2, <1>7, <2>3, <3>1 DEF Shape, SinkTyped, Buffers
    <3>3. LoopTyped'
      BY <1>7, <2>3 DEF Shape, LoopTyped, Reply, Places, Frames, Replies
    <3>4. /\ wire'["speaker"][s] # "ERROR"
          /\ \A o \in Streams \ {s} : /\ loop'["speaker"][o] = loop["speaker"][o]
                                     /\ wire'["speaker"][o] = wire["speaker"][o]
      BY <2>3 DEF Reply, Shape, LoopTyped
    <3>5. AfterTheEnd'
      BY <1>2, <1>4, <2>3, <3>3, <3>4, MoveAfter
    <3> QED
      BY <1>1, <1>2, <2>2, <3>2, <3>3, <3>5, WorkStays DEF Shape
  <2>4. CASE /\ h = "router" /\ linked[i] # None
             /\ loop' = [loop EXCEPT ![h][s] = "chunking"]
             /\ wire' = [wire EXCEPT ![h][s] = "none", !["speaker"][linked[i]] = "CHUNK"]
             /\ UNCHANGED buffer
    <3>1. linked[i] \in Streams
      BY <1>2, <2>4 DEF Shape, SinkTyped
    <3>2. SinkTyped'
      BY <1>7, <2>4 DEF Shape, SinkTyped
    <3>3. LoopTyped'
      BY <1>7, <2>4, <3>1 DEF Shape, LoopTyped, Places, Calling, Frames, Requests
    <3>4. \A o \in Streams : /\ loop'["speaker"][o] = loop["speaker"][o]
                             /\ wire'["speaker"][o] = "ERROR" => wire["speaker"][o] = "ERROR"
      BY <2>4, <3>1 DEF Shape, LoopTyped, Hops
    <3>5. AfterTheEnd'
      BY <1>2, <3>3, <3>4, MoveAfter
    <3> QED
      BY <1>1, <1>2, <2>2, <3>2, <3>3, <3>5, WorkStays DEF Shape
  <2> QED
    BY <1>7, <2>1, <2>3, <2>4 DEF ReceiveChunk
<1> QED
  BY <1>2, <1>5, <1>6, <1>7 DEF ReceiveChunk

LEMMA ReceiveEndTyped ==
  ASSUME Shape, NEW h \in Hops, NEW s \in Streams, ReceiveEnd(h, s)
  PROVE  Shape'
<1> DEFINE i == id[s]
           t == active[h][i]
<1>1. ClientTyped'
  BY OffersTyped DEF ReceiveEnd, Requests
<1>2. kept' = kept /\ i \in Ids /\ t \in Streams \cup {None}
  BY DEF ReceiveEnd, Shape, ClientTyped, RegistryTyped
<1>3. h = "speaker" => loop[h][s] \in {"receiving", "open"}
  BY DEF ReceiveEnd, Offers
<1>4. h = "speaker" => kept[s] = None /\ worker[s].stage = "none"
  BY <1>3, BeforeTheEnd
<1>5. CASE Fail(h, s) /\ UNCHANGED <<permits, worker>>
  BY <1>1, <1>2, <1>4, <1>5, FailShape DEF Fail, Frames, Replies
<1>6. CASE t # None /\ Leave(h, s, t, "ERROR") /\ UNCHANGED <<permits, worker>>
  BY <1>1, <1>2, <1>4, <1>6, FailShape DEF Frames, Replies
<1>7. CASE /\ h = "router" /\ linked[i] # None
           /\ loop' = [loop EXCEPT ![h][s] = "ending"]
           /\ wire' = [wire EXCEPT ![h][s] = "none", !["speaker"][linked[i]] = "END"]
           /\ UNCHANGED <<registryVars, linked, buffer, hungup, permits, worker>>
  <2>1. linked[i] \in Streams
    BY <1>2, <1>7 DEF Shape, SinkTyped
  <2>2. RegistryTyped' /\ SinkTyped'
    BY <1>7 DEF Shape, RegistryTyped, SinkTyped, registryVars
  <2>3. LoopTyped'
    BY <1>7, <2>1 DEF Shape, LoopTyped, Places, Calling, Frames, Requests, registryVars
  <2>4. \A o \in Streams : /\ loop'["speaker"][o] = loop["speaker"][o]
                           /\ wire'["speaker"][o] = "ERROR" => wire["speaker"][o] = "ERROR"
    BY <1>7, <2>1 DEF Shape, LoopTyped, Hops
  <2>5. AfterTheEnd'
    BY <1>2, <1>7, <2>3, <2>4, MoveAfter
  <2> QED
    BY <1>1, <1>2, <1>7, <2>2, <2>3, <2>5, WorkStays DEF Shape
<1>8. CASE /\ h = "speaker" /\ permits > 0
           /\ buffer' = [buffer EXCEPT ![i] = NoBuffer]
           /\ permits' = permits - 1
           /\ worker' = [worker EXCEPT ![s] = [stage |-> "computing", chunks |-> buffer[i].chunks]]
           /\ Reply(h, s, "ending", "none")
           /\ UNCHANGED <<registryVars, linked, hungup>>
  <2>1. NoBuffer \in Buffers /\ buffer[i].chunks \in Seq(Streams)
    BY <1>2, EmptySeq DEF NoBuffer, Buffers, Shape, SinkTyped
  <2>2. RegistryTyped' /\ SinkTyped'
    BY <1>2, <1>8, <2>1 DEF Shape, RegistryTyped, SinkTyped, registryVars
  <2>3. LoopTyped'
    BY <1>8 DEF Shape, LoopTyped, Reply, Places, Calling, Frames, registryVars
  <2>4. WorkTyped'
    <3>1. worker' \in [Streams -> Workers]
      BY <1>8, <2>1 DEF Shape, WorkTyped, Workers
    <3>2. Computing' = Computing \cup {s} /\ s \notin Computing
      BY <1>4, <1>8 DEF Computing, Shape, WorkTyped
    <3>3. IsFiniteSet(Computing)
      BY Constants, FS_Subset DEF Computing
    <3>4. Cardinality(Computing') = Cardinality(Computing) + 1 /\ Cardinality(Computing) \in Nat
      BY <3>2, <3>3, FS_AddElement, FS_CardinalityType
    <3> QED
      BY <1>2, <1>8, <3>1, <3>4, Constants DEF Shape, WorkTyped
  <2>5. AfterTheEnd'
    <3>1. /\ loop'["speaker"][s] = "ending" /\ wire'["speaker"][s] = "none" /\ kept[s] = None
          /\ \A o \in Streams \ {s} : /\ loop'["speaker"][o] = loop["speaker"][o]
                                     /\ wire'["speaker"][o] = wire["speaker"][o]
                                     /\ worker'[o] = worker[o]
      BY <1>4, <1>8 DEF Reply, Shape, LoopTyped, WorkTyped
    <3> QED
      BY <1>2, <3>1 DEF Shape, AfterTheEnd
  <2> QED
    BY <1>1, <2>2, <2>3, <2>4, <2>5 DEF Shape
<1> QED
  BY <1>2, <1>5, <1>6, <1>7, <1>8 DEF ReceiveEnd

(* Only an answer of a call leaves it: no thread of it remains.            *)
LEMMA CallFailsTyped ==
  ASSUME Shape, NEW h \in Hops, NEW s \in Streams, CallFails(h, s)
  PROVE  Shape'
<1>1. /\ UNCHANGED <<clientVars, permits, kept>> /\ id[s] \in Ids
      /\ \/ worker' = worker
         \/ worker[s].stage = "computed" /\ worker' = [worker EXCEPT ![s] = NoWorker]
  <2>1. /\ UNCHANGED <<clientVars, permits, kept>>
        /\ worker' = IF h = "speaker" /\ worker[s].stage = "computed"
                     THEN [worker EXCEPT ![s] = NoWorker] ELSE worker
    BY DEF CallFails
  <2>2. id[s] \in Ids
    BY DEF Shape, ClientTyped
  <2>3. CASE h = "speaker" /\ worker[s].stage = "computed"
    BY <2>1, <2>2, <2>3
  <2>4. CASE ~(h = "speaker" /\ worker[s].stage = "computed")
    BY <2>1, <2>2, <2>4
  <2> QED
    BY <2>3, <2>4
<1>2. ClientTyped'
  BY <1>1 DEF Shape, ClientTyped, clientVars
<1>3. WorkTyped'
  <2>1. worker' \in [Streams -> Workers]
    BY <1>1, EmptyTyped DEF Shape, WorkTyped
  <2>2. Computing' = Computing
    BY <1>1 DEF Computing, Shape, WorkTyped, NoWorker
  <2> QED
    BY <1>1, <2>1, <2>2 DEF Shape, WorkTyped
<1>4. h = "speaker" => kept[s] = None
  BY DEF CallFails, Shape, AfterTheEnd, Calling
<1>5. "ERROR" \in Frames
  BY DEF Frames, Replies
<1>6. CASE Fail(h, s)
  BY <1>1, <1>2, <1>3, <1>4, <1>5, <1>6, LeaveTyped, LeaveAfter DEF Fail, Shape
<1>7. CASE /\ h = "router" /\ SinkAbort(h, id[s])
           /\ Reply(h, s, "over", "ERROR")
           /\ due' = [due EXCEPT ![h][s] = FALSE]
           /\ UNCHANGED <<active, closed, size>> /\ worker' = worker
  <2>1. RegistryTyped' /\ SinkTyped'
    BY <1>1, <1>7, SinkAbortTyped DEF Shape, RegistryTyped
  <2>2. LoopTyped'
    BY <1>5, <1>7 DEF Shape, LoopTyped, Reply, Places
  <2>3. \A o \in Streams : /\ loop'["speaker"][o] = loop["speaker"][o]
                           /\ wire'["speaker"][o] = wire["speaker"][o]
    BY <1>7 DEF Shape, LoopTyped, Reply, Hops
  <2>4. AfterTheEnd'
    BY <1>1, <1>7, <2>2, <2>3, MoveAfter
  <2> QED
    BY <1>2, <1>3, <2>1, <2>2, <2>4 DEF Shape
<1> QED
  BY <1>6, <1>7 DEF CallFails

(* A thread that is done gives its slot back, whatever becomes of what it  *)
(* computed.                                                               *)
LEMMA ComputeTyped ==
  ASSUME Shape, NEW s \in Streams, Compute(s)
  PROVE  Shape'
<1>1. /\ UNCHANGED <<clientVars, registryVars, wire, hungup, loop, linked, buffer, kept>>
      /\ worker[s].stage = "computing" /\ permits' = permits + 1
  BY DEF Compute
<1>2. RegistryTyped' /\ SinkTyped' /\ LoopTyped' /\ ClientTyped'
  BY <1>1 DEF Shape, RegistryTyped, SinkTyped, LoopTyped, ClientTyped, clientVars, registryVars
<1>3. worker' \in [Streams -> Workers] /\ worker'[s].stage \in {"none", "computed"}
  <2>1. CASE worker' = [worker EXCEPT ![s].stage = "computed"]
    BY <2>1 DEF Shape, WorkTyped, Workers
  <2>2. CASE worker' = [worker EXCEPT ![s] = NoWorker]
    BY <2>2, EmptyTyped DEF Shape, WorkTyped, NoWorker
  <2> QED
    BY <2>1, <2>2 DEF Compute
<1>4. \A o \in Streams \ {s} : worker'[o] = worker[o]
  BY DEF Compute, Shape, WorkTyped
<1>5. WorkTyped'
  <2>1. Computing' = Computing \ {s} /\ s \in Computing
    BY <1>1, <1>3, <1>4 DEF Computing
  <2>2. IsFiniteSet(Computing)
    BY Constants, FS_Subset DEF Computing
  <2>3. Cardinality(Computing') = Cardinality(Computing) - 1 /\ Cardinality(Computing) \in Nat
    BY <2>1, <2>2, FS_RemoveElement, FS_CardinalityType
  <2> QED
    BY <1>1, <1>3, <2>3, Constants DEF Shape, WorkTyped
<1>6. AfterTheEnd'
  BY <1>1, <1>4 DEF Shape, AfterTheEnd
<1> QED
  BY <1>2, <1>5, <1>6 DEF Shape

LEMMA StoreTyped ==
  ASSUME Shape, NEW s \in Streams, Store(s)
  PROVE  Shape'
<1>1. /\ UNCHANGED <<clientVars, due, wire, hungup, linked, buffer, permits>>
      /\ worker[s].stage = "computed" /\ loop["speaker"][s] = "ending"
      /\ worker' = [worker EXCEPT ![s] = NoWorker]
      /\ kept' = [kept EXCEPT ![s] = worker[s].chunks]
      /\ loop' = [loop EXCEPT !["speaker"][s] = "returned"] /\ Finish("speaker", s)
  BY DEF Store, Returns
<1>2. RegistryTyped'
  BY <1>1, FinishTyped DEF Hops
<1>3. SinkTyped' /\ ClientTyped' /\ LoopTyped'
  BY <1>1 DEF Shape, SinkTyped, ClientTyped, LoopTyped, clientVars, Places
<1>4. WorkTyped'
  <2>1. worker' \in [Streams -> Workers]
    BY <1>1, EmptyTyped DEF Shape, WorkTyped
  <2>2. kept' \in [Streams -> {None} \cup Seq(Streams)]
    BY <1>1 DEF Shape, WorkTyped, Workers
  <2>3. Computing' = Computing
    BY <1>1 DEF Computing, Shape, WorkTyped, NoWorker
  <2> QED
    BY <1>1, <2>1, <2>2, <2>3 DEF Shape, WorkTyped
<1>5. AfterTheEnd'
  <2>1. /\ worker'[s].stage = "none" /\ loop'["speaker"][s] = "returned"
        /\ \A o \in Streams \ {s} : /\ loop'["speaker"][o] = loop["speaker"][o]
                                   /\ worker'[o] = worker[o] /\ kept'[o] = kept[o]
    BY <1>1 DEF Shape, LoopTyped, WorkTyped, NoWorker, Hops
  <2>2. wire' = wire
    BY <1>1
  <2> QED
    BY <1>1, <2>1, <2>2 DEF Shape, AfterTheEnd
<1> QED
  BY <1>2, <1>3, <1>4, <1>5 DEF Shape

LEMMA RelayTyped ==
  ASSUME Shape, NEW s \in Streams, Relay(s)
  PROVE  Shape'
<1>1. /\ UNCHANGED <<clientVars, due, permits, worker, kept>> /\ id[s] \in Ids
      /\ ClientTyped' /\ WorkTyped' /\ "router" \in Hops /\ "speaker" \in Hops
  <2>1. UNCHANGED <<clientVars, due, permits, worker, kept>>
    BY DEF Relay, RelayConnect, RelayAnswer, RelayResult, registryVars, sinkVars
  <2> QED
    BY <2>1, WorkStays DEF Shape, ClientTyped, clientVars, Hops
<1>2. CASE RelayConnect(s)
  <2>1. RegistryTyped' /\ SinkTyped'
    BY <1>1, <1>2 DEF RelayConnect, Shape, RegistryTyped, SinkTyped, registryVars
  <2>2. LoopTyped'
    BY <1>1, <1>2 DEF RelayConnect, Shape, LoopTyped, Places, Frames, Requests
  <2>3. \A o \in Streams \ {s} : /\ loop'["speaker"][o] = loop["speaker"][o]
                                 /\ wire'["speaker"][o] = wire["speaker"][o]
    BY <1>1, <1>2 DEF RelayConnect, Shape, LoopTyped
  <2>4. worker[s].stage = "none" /\ kept[s] = None /\ wire'["speaker"][s] # "ERROR"
    BY <1>1, <1>2, BeforeTheEnd DEF RelayConnect, Shape, LoopTyped
  <2>5. AfterTheEnd'
    BY <1>1, <2>2, <2>3, <2>4, MoveAfter
  <2> QED
    BY <1>1, <2>1, <2>2, <2>5 DEF Shape
<1>3. CASE RelayAnswer(s) \/ RelayResult(s)
  <2>1. PICK t \in Streams, frame \in {"STARTED", "ACK", "RESULT"} :
           t = linked[id[s]] /\ wire["speaker"][t] = frame
    BY <1>1, <1>3 DEF RelayAnswer, RelayResult, Received, Shape, SinkTyped
  <2>2. /\ \/ loop' = [loop EXCEPT !["router"][s] = "open"]
           \/ loop' = [loop EXCEPT !["router"][s] = "returned"]
        /\ \/ wire' = [wire EXCEPT !["router"][s] = frame, !["speaker"][t] = "none"]
           \/ wire' = [wire EXCEPT !["speaker"][t] = "none"]
    BY <1>3, <2>1 DEF RelayAnswer, RelayResult, Returns
  <2>3. RegistryTyped' /\ SinkTyped'
    <3>1. CASE RelayAnswer(s)
      BY <3>1 DEF RelayAnswer, Shape, RegistryTyped, SinkTyped, registryVars, sinkVars
    <3>2. CASE RelayResult(s)
      BY <1>1, <3>2, FinishTyped, SinkAbortTyped DEF RelayResult, Returns
    <3> QED
      BY <1>3, <3>1, <3>2
  <2>4. LoopTyped'
    <3>1. loop' \in [Hops -> [Streams -> Places]]
      <4>1. "open" \in Places /\ "returned" \in Places
        BY DEF Places
      <4>2. CASE loop' = [loop EXCEPT !["router"][s] = "open"]
        BY <1>1, <4>1, <4>2 DEF Shape, LoopTyped
      <4>3. CASE loop' = [loop EXCEPT !["router"][s] = "returned"]
        BY <1>1, <4>1, <4>3 DEF Shape, LoopTyped
      <4> QED
        BY <2>2, <4>2, <4>3
    <3>2. frame \in Frames /\ "none" \in Frames
      BY DEF Frames, Replies
    <3>3. wire' \in [Hops -> [Streams -> Frames]]
      <4>1. CASE wire' = [wire EXCEPT !["router"][s] = frame, !["speaker"][t] = "none"]
        BY <1>1, <3>2, <4>1 DEF Shape, LoopTyped
      <4>2. CASE wire' = [wire EXCEPT !["speaker"][t] = "none"]
        BY <1>1, <3>2, <4>2 DEF Shape, LoopTyped
      <4> QED
        BY <2>2, <4>1, <4>2
    <3> QED
      BY <1>1, <3>1, <3>3 DEF Shape, LoopTyped
  <2>5. \A o \in Streams : /\ loop'["speaker"][o] = loop["speaker"][o]
                           /\ wire'["speaker"][o] = "ERROR" => wire["speaker"][o] = "ERROR"
    BY <1>1, <2>1, <2>2 DEF Shape, LoopTyped
  <2>6. AfterTheEnd'
    BY <1>1, <2>4, <2>5, MoveAfter
  <2> QED
    BY <1>1, <2>3, <2>4, <2>6 DEF Shape
<1> QED
  BY <1>2, <1>3 DEF Relay

LEMMA ClientTypedStep ==
  ASSUME Shape, NEW s \in Streams, Client(s)
  PROVE  Shape'
<1>1. /\ sender' = [sender EXCEPT ![s] = "result"] \/ sender' = [sender EXCEPT ![s] = "failed"]
      /\ hungup' = [hungup EXCEPT !["router"][s] = TRUE]
      /\ wire' = IF wire["router"][s] \in Replies
                 THEN [wire EXCEPT !["router"][s] = "none"] ELSE wire
      /\ UNCHANGED <<id, sent, restarts, registryVars, sinkVars, loop>>
  BY DEF Client, TakeResult, GiveUp, HangUp
<1>2. ClientTyped' /\ RegistryTyped' /\ SinkTyped' /\ WorkTyped'
  BY <1>1, WorkStays
     DEF Shape, ClientTyped, RegistryTyped, SinkTyped, registryVars, sinkVars, Hops
<1>3. LoopTyped' /\ \A o \in Streams : wire'["speaker"][o] = wire["speaker"][o]
  BY <1>1 DEF Shape, LoopTyped, registryVars, Frames, Hops
<1>4. AfterTheEnd'
  BY <1>1, <1>3, MoveAfter DEF sinkVars
<1> QED
  BY <1>2, <1>3, <1>4 DEF Shape

LEMMA RestartTyped ==
  ASSUME Shape, NEW h \in Hops, Restart(h)
  PROVE  Shape'
<1>1. restarts' \in 0 .. MaxRestarts /\ UNCHANGED <<id, sender, sent, kept>>
  BY Constants DEF Restart, Shape, ClientTyped
<1>2. ClientTyped'
  BY <1>1 DEF Shape, ClientTyped
<1>3. RegistryTyped'
  <2>1. active' \in [Hops -> [Ids -> Streams \cup {None}]]
    BY DEF Restart, Shape, RegistryTyped
  <2>2. size' \in [Hops -> [Streams -> 0 .. MaxChunks]]
    BY Constants DEF Restart, Shape, RegistryTyped
  <2>3. closed' \in [Hops -> Seq(Ids)] /\ \A g \in Hops : Len(closed'[g]) <= ClosedCapacity
    <3>1. <<>> \in Seq(Ids) /\ Len(<<>>) = 0
      BY EmptySeq
    <3> QED
      BY <3>1, Constants DEF Restart, Shape, RegistryTyped
  <2> QED
    BY <2>1, <2>2, <2>3 DEF RegistryTyped
<1>4. SinkTyped'
  <2>1. linked' \in [Ids -> Streams \cup {None}]
    BY DEF Restart, Shape, SinkTyped
  <2>2. buffer' \in [Ids -> Buffers]
    BY EmptyTyped DEF Restart, Shape, SinkTyped
  <2>3. hungup' \in [Hops -> [Streams -> BOOLEAN]]
    BY DEF Restart, Shape, SinkTyped
  <2> QED
    BY <2>1, <2>2, <2>3 DEF SinkTyped
<1>5. /\ loop' = [loop EXCEPT ![h] = [s \in Streams |->
                    IF loop[h][s] = "none" THEN loop[h][s] ELSE "over"]]
      /\ wire' = [wire EXCEPT ![h] = [s \in Streams |->
                    IF loop[h][s] = "none" THEN wire[h][s] ELSE "none"]]
      /\ due' = [due EXCEPT ![h] = [s \in Streams |-> FALSE]]
  BY DEF Restart
<1>6. LoopTyped'
  BY <1>5 DEF Shape, LoopTyped, Places, Frames
<1>7. /\ permits' = permits /\ worker' = worker
      \/ /\ h = "speaker" /\ permits' = Slots
         /\ worker' = [s \in Streams |-> NoWorker]
  BY DEF Restart
<1>8. WorkTyped'
  <2>1. CASE permits' = permits /\ worker' = worker
    BY <1>1, <2>1, WorkStays DEF Shape
  <2>2. CASE permits' = Slots /\ worker' = [s \in Streams |-> NoWorker]
    <3>1. Computing' = {} /\ Cardinality({}) = 0
      BY <2>2, FS_EmptySet DEF Computing, NoWorker
    <3> QED
      BY <1>1, <2>2, <3>1, EmptyTyped, Constants DEF Shape, WorkTyped
  <2> QED
    BY <1>7, <2>1, <2>2
<1>9. AfterTheEnd'
  <2> SUFFICES ASSUME NEW s \in Streams
               PROVE  /\ worker'[s].stage # "none" => loop'["speaker"][s] \in {"ending", "over"}
                      /\ kept[s] # None => loop'["speaker"][s] \in {"returned", "ended", "over"}
                      /\ loop'["speaker"][s] \in {"ending", "returned", "ended"} =>
                           wire'["speaker"][s] # "ERROR"
    BY <1>1 DEF AfterTheEnd
  <2>1. worker'[s].stage = "none" \/ worker'[s] = worker[s]
    BY <1>7 DEF NoWorker
  <2>2. \/ loop'["speaker"][s] = loop["speaker"][s] /\ wire'["speaker"][s] = wire["speaker"][s]
        \/ loop'["speaker"][s] = "over" /\ wire'["speaker"][s] = "none"
    BY <1>5 DEF Shape, LoopTyped, Hops
  <2> QED
    BY <2>1, <2>2 DEF Shape, AfterTheEnd
<1> QED
  BY <1>2, <1>3, <1>4, <1>6, <1>8, <1>9 DEF Shape

LEMMA AnswerTyped ==
  ASSUME Shape, NEW h \in Hops, NEW s \in Streams, Answer(h, s)
  PROVE  Shape'
<1>1. CASE SendResult(h, s)
  <2>1. /\ UNCHANGED <<clientVars, registryVars, sinkVars, hungup>>
        /\ loop[h][s] = "returned" /\ loop' = [loop EXCEPT ![h][s] = "ended"]
        /\ wire' = [wire EXCEPT ![h][s] = "RESULT"]
    BY <1>1 DEF SendResult, Reply
  <2>2. RegistryTyped' /\ SinkTyped' /\ ClientTyped' /\ WorkTyped'
    BY <2>1, WorkStays DEF Shape, RegistryTyped, SinkTyped, ClientTyped, registryVars,
                           sinkVars, clientVars
  <2>3. LoopTyped'
    BY <2>1 DEF Shape, LoopTyped, registryVars, Places, Frames, Replies
  <2>4. \A o \in Streams :
          \/ /\ loop'["speaker"][o] = loop["speaker"][o]
             /\ wire'["speaker"][o] = wire["speaker"][o]
          \/ /\ loop["speaker"][o] = "returned" /\ loop'["speaker"][o] = "ended"
             /\ wire'["speaker"][o] # "ERROR"
    BY <2>1 DEF Shape, LoopTyped, Hops
  <2>5. AfterTheEnd'
    BY <2>1, <2>3, <2>4, MoveAfter DEF sinkVars
  <2> QED
    BY <2>2, <2>3, <2>5 DEF Shape
<1>2. CASE CallFails(h, s)
  BY <1>2, CallFailsTyped
<1>3. CASE Disconnected(h, s)
  <2>1. ClientTyped'
    BY <1>3 DEF Disconnected, clientVars, Shape, ClientTyped
  <2> QED
    BY <1>3, <2>1, FailShape DEF Disconnected, Frames
<1>4. CASE LoopTimesOut(h, s)
  <2>1. ClientTyped'
    BY <1>4 DEF LoopTimesOut, clientVars, Shape, ClientTyped
  <2> DEFINE reply == IF loop[h][s] = "ended" THEN wire[h][s] ELSE "ERROR"
  <2>2. reply \in Frames /\ Leave(h, s, s, reply) /\ UNCHANGED <<permits, worker, kept>>
    BY <1>4 DEF LoopTimesOut, Shape, LoopTyped, Frames, Replies
  <2> QED
    BY <2>1, <2>2, FailShape
<1> QED
  BY <1>1, <1>2, <1>3, <1>4 DEF Answer

LEMMA ClockTyped ==
  ASSUME Shape, NEW h \in Hops, NEW s \in Streams, Clock(h, s)
  PROVE  Shape'
<1>1. /\ UNCHANGED <<clientVars, wire, loop, permits, worker, kept>>
      /\ RegistryTyped' /\ SinkTyped' /\ due' \in [Hops -> [Streams -> BOOLEAN]]
  <2>1. CASE Deadline(h, s)
    BY <2>1 DEF Deadline, Shape, RegistryTyped, SinkTyped, LoopTyped, clientVars, sinkVars
  <2>2. CASE Expire(h, s)
    <3>1. Abort(h, s) /\ due' = [due EXCEPT ![h][s] = loop[h][s] \in Calling]
          /\ UNCHANGED <<clientVars, wire, loop, permits, worker, kept>>
      BY <2>2 DEF Expire
    <3>2. due' \in [Hops -> [Streams -> BOOLEAN]]
      BY <3>1 DEF Shape, LoopTyped
    <3> QED
      BY <3>1, <3>2, AbortTyped
  <2> QED
    BY <2>1, <2>2 DEF Clock
<1>2. ClientTyped' /\ WorkTyped' /\ LoopTyped'
  BY <1>1, WorkStays DEF Shape, ClientTyped, LoopTyped, clientVars
<1>3. AfterTheEnd'
  BY <1>1, <1>2, MoveAfter
<1> QED
  BY <1>1, <1>2, <1>3 DEF Shape

LEMMA NextShape == Shape /\ [Next]_vars => Shape'
<1> SUFFICES ASSUME Shape, [Next]_vars PROVE Shape'
  OBVIOUS
<1>1. CASE UNCHANGED vars
  BY <1>1 DEF vars, Shape, RegistryTyped, SinkTyped, LoopTyped, ClientTyped, WorkTyped,
              Computing, AfterTheEnd
<1>2. CASE Next
  BY <1>2, ClientTypedStep, RelayTyped, ComputeTyped, StoreTyped, ReceiveStartTyped,
     ReceiveChunkTyped, ReceiveEndTyped, AnswerTyped, ClockTyped, RestartTyped
     DEF Next, Sink, Receive
<1> QED
  BY <1>1, <1>2

LEMMA InitShape == Init => Shape
<1> SUFFICES ASSUME Init PROVE Shape
  OBVIOUS
<1>1. RegistryTyped
  BY EmptySeq, Constants DEF Init, RegistryTyped
<1>2. SinkTyped
  BY EmptyTyped DEF Init, SinkTyped
<1>3. LoopTyped /\ ClientTyped
  BY Constants DEF Init, LoopTyped, ClientTyped, Places, Frames
<1>4. WorkTyped
  <2>1. Computing = {} /\ Cardinality({}) = 0
    BY FS_EmptySet DEF Computing, Init, NoWorker
  <2> QED
    BY <2>1, EmptyTyped, Constants DEF Init, WorkTyped
<1>5. AfterTheEnd
  BY DEF Init, AfterTheEnd, NoWorker
<1> QED
  BY <1>1, <1>2, <1>3, <1>4, <1>5 DEF Shape

LEMMA ShapeHolds == Spec => []Shape
BY InitShape, NextShape, PTL DEF Spec

(* Frames, streams, sinks and threads keep their form on both hops, the    *)
(* closed ids stay within their capacity, a stream within its limit, and   *)
(* the slots are never more than were there (speaker-id/audio_streaming.py:83). *)
THEOREM TypeCorrect == Spec => []TypeOK
<1>1. Shape => TypeOK
  <2> SUFFICES ASSUME Shape PROVE TypeOK
    OBVIOUS
  <2>1. permits \in 0 .. Slots
    BY Constants, FS_Subset, FS_CardinalityType DEF Shape, WorkTyped, Computing
  <2>2. \A h \in Hops : closed[h] \in Seq(Ids) /\ Len(closed[h]) <= ClosedCapacity
    BY DEF Shape, RegistryTyped
  <2> QED
    BY <2>1, <2>2 DEF TypeOK, Shape, RegistryTyped, SinkTyped, LoopTyped, ClientTyped,
       WorkTyped, Frames, Places, Buffers, Workers
<1> QED
  BY <1>1, ShapeHolds, PTL

(* Who puts an ERROR on its way to the Router: nobody, for a recording     *)
(* that is stored, but a deadline that finds it between store and answer.  *)
LEMMA AnsweredWithError ==
  ASSUME Shape, Next, NEW s \in Streams, kept[s] # None,
         wire["speaker"][s] # "ERROR", wire'["speaker"][s] = "ERROR"
  PROVE  loop["speaker"][s] = "returned"
<1>1. /\ loop["speaker"][s] \in {"returned", "ended", "over"}
      /\ wire \in [Hops -> [Streams -> Frames]] /\ "speaker" \in Hops
      /\ linked \in [Ids -> Streams \cup {None}]
      /\ \A o \in Streams : id[o] \in Ids
  BY DEF Shape, AfterTheEnd, LoopTyped, SinkTyped, ClientTyped, Hops
<1>2. ASSUME NEW h \in Hops, NEW o \in Streams, NEW t, NEW reply, Leave(h, o, t, reply)
      PROVE  h = "speaker" /\ o = s /\ reply = "ERROR"
  BY <1>1, <1>2 DEF Leave
<1>3. ASSUME NEW h \in Hops, NEW o \in Streams, NEW at, NEW reply,
             Reply(h, o, at, reply)
      PROVE  h = "speaker" /\ o = s /\ reply = "ERROR"
  BY <1>1, <1>3 DEF Reply
<1>4. ASSUME NEW h \in Hops, NEW o \in Streams, Receive(h, o)
      PROVE  FALSE
  <2>1. h = "speaker" => loop[h][o] \in {"receiving", "open"}
    BY <1>4 DEF Receive, ReceiveStart, ReceiveChunk, ReceiveEnd, Offers
  <2>2. ~(h = "speaker" /\ o = s)
    BY <1>1, <2>1
  <2>3. \A t, reply : ~Leave(h, o, t, reply)
    BY <1>2, <2>2
  <2>4. \A at, reply : ~Reply(h, o, at, reply)
    BY <1>3, <2>2
  <2>5. PICK frame \in {"CHUNK", "END"} :
          /\ h = "router" /\ linked[id[o]] # None
          /\ wire' = [wire EXCEPT ![h][o] = "none", !["speaker"][linked[id[o]]] = frame]
    <3>1. CASE ReceiveStart(h, o)
      BY <2>3, <2>4, <3>1 DEF ReceiveStart, Fail
    <3>2. CASE ReceiveChunk(h, o)
      BY <2>3, <2>4, <3>2 DEF ReceiveChunk, Fail
    <3>3. CASE ReceiveEnd(h, o)
      BY <2>3, <2>4, <3>3 DEF ReceiveEnd, Fail
    <3> QED
      BY <1>4, <3>1, <3>2, <3>3 DEF Receive
  <2> QED
    BY <1>1, <2>5
<1>5. ASSUME NEW h \in Hops, NEW o \in Streams, Answer(h, o)
      PROVE  loop["speaker"][s] = "returned"
  <2>1. CASE SendResult(h, o)
    BY <1>3, <2>1 DEF SendResult
  <2>2. CASE CallFails(h, o)
    <3>1. h = "speaker" /\ o = s
      BY <1>2, <1>3, <2>2 DEF CallFails, Fail
    <3> QED
      BY <1>1, <2>2, <3>1 DEF CallFails, Calling
  <2>3. CASE Disconnected(h, o)
    BY <1>2, <2>3 DEF Disconnected
  <2>4. CASE LoopTimesOut(h, o)
    <3> DEFINE reply == IF loop[h][o] = "ended" THEN wire[h][o] ELSE "ERROR"
    <3>1. Leave(h, o, o, reply) /\ loop[h][o] \in {"receiving", "open", "returned", "ended"}
      BY <2>4 DEF LoopTimesOut
    <3>2. h = "speaker" /\ o = s /\ reply = "ERROR"
      BY <1>2, <3>1
    <3> QED
      BY <1>1, <3>1, <3>2
  <2> QED
    BY <1>5, <2>1, <2>2, <2>3, <2>4 DEF Answer
<1>6. ASSUME NEW h \in Hops, NEW o \in Streams, Clock(h, o)
      PROVE  FALSE
  BY <1>6 DEF Clock, Deadline, Expire
<1>7. ASSUME NEW o \in Streams, Relay(o)
      PROVE  FALSE
  BY <1>1, <1>7 DEF Relay, RelayConnect, RelayAnswer, RelayResult, Received, Hops
<1>8. ASSUME NEW o \in Streams, Sink(o)
      PROVE  FALSE
  BY <1>8 DEF Sink, Compute, Store
<1>9. ASSUME NEW o \in Streams, Client(o)
      PROVE  FALSE
  BY <1>1, <1>9 DEF Client, TakeResult, GiveUp, HangUp
<1>10. ASSUME NEW h \in Hops, Restart(h)
       PROVE  FALSE
  BY <1>1, <1>10 DEF Restart
<1> QED
  BY <1>4, <1>5, <1>6, <1>7, <1>8, <1>9, <1>10 DEF Next

(* Speaker-ID stores nothing for a recording whose socket it has left, and *)
(* answers with an error for what it has stored only when the deadline     *)
(* comes between the two: the thread that outlives its caller is for       *)
(* nobody (speaker-id/audio_streaming.py:83-97).                           *)
THEOREM NothingIsStoredLate == Spec => LateResultsAreDropped
<1> DEFINE Dropped ==
      \A s \in Streams :
        /\ loop["speaker"][s] = "over" => kept'[s] = kept[s]
        /\ kept[s] # None /\ wire["speaker"][s] # "ERROR" /\ wire'["speaker"][s] = "ERROR"
             => loop["speaker"][s] = "returned"
<1>1. Shape /\ [Next]_vars => [Dropped]_vars
  <2> SUFFICES ASSUME Shape, Next PROVE Dropped
    OBVIOUS
  <2>1. ASSUME NEW s \in Streams, loop["speaker"][s] = "over"
        PROVE  kept'[s] = kept[s]
    <3>1. CASE UNCHANGED kept
      BY <3>1
    <3>2. ASSUME NEW o \in Streams, Store(o)
          PROVE  kept'[s] = kept[s]
      <4>1. o # s
        BY <2>1, <3>2 DEF Store
      <4> QED
        BY <3>2, <4>1 DEF Store, Shape, WorkTyped
    <3>3. UNCHANGED kept \/ \E o \in Streams : Store(o)
      <4>1. ASSUME NEW o \in Streams, Client(o) \/ Relay(o) \/ Compute(o)
            PROVE  UNCHANGED kept
        BY <4>1 DEF Client, TakeResult, GiveUp, HangUp, Relay, RelayConnect, RelayAnswer,
                    RelayResult, Compute, sinkVars
      <4>2. ASSUME NEW o \in Streams, NEW h \in Hops,
                   Receive(h, o) \/ Answer(h, o) \/ Clock(h, o)
            PROVE  UNCHANGED kept
        BY <4>2 DEF Receive, ReceiveStart, ReceiveChunk, ReceiveEnd, Answer, SendResult,
                    CallFails, Disconnected, LoopTimesOut, Clock, Deadline, Expire, sinkVars
      <4>3. ASSUME NEW h \in Hops, Restart(h)
            PROVE  UNCHANGED kept
        BY <4>3 DEF Restart
      <4> QED
        BY <4>1, <4>2, <4>3 DEF Next, Sink
    <3> QED
      BY <3>1, <3>2, <3>3
  <2> QED
    BY <2>1, AnsweredWithError
<1> QED
  BY <1>1, ShapeHolds, PTL DEF Spec, LateResultsAreDropped

-----------------------------------------------------------------------------
(***************************************************************************)
(* Why a recording arrives whole although chunks are routed by an id.  A   *)
(* hop that has started a recording has its id active for it, or the id is *)
(* shut: it is among the closed ones, or no other recording has it.  So    *)
(* whatever the registry finds under the id of a started recording is that *)
(* recording.  It takes that the closed ids are not forgotten: that there  *)
(* are no more ids than a registry remembers, or that no id is used twice. *)
(***************************************************************************)
Unshared == \A s, o \in Streams : id[s] = id[o] => s = o
IdsAreKept == ClosedCapacity >= MaxStreams \/ Unshared

Started == Calling \cup {"open"}
Shut(h, i) == InClosed(h, i) \/ Unshared

Distinct == \A h \in Hops : \A j, k \in 1 .. Len(closed[h]) :
              closed[h][j] = closed[h][k] => j = k

HoldersStarted == \A h \in Hops, i \in Ids : active[h][i] # None =>
                    id[active[h][i]] = i /\ loop[h][active[h][i]] \in Started

StartedHold == \A h \in Hops, s \in Streams : loop[h][s] \in Started =>
                 \/ active[h][id[s]] = s
                 \/ active[h][id[s]] = None /\ Shut(h, id[s])

(* A call whose stream was taken from it is past its deadline.             *)
TakenAreDue == \A h \in Hops, s \in Streams :
                 loop[h][s] \in Calling /\ active[h][id[s]] # s => due[h][s]

Registry == Distinct /\ HoldersStarted /\ StartedHold /\ TakenAreDue

(* The relay has a socket for the recording that is active, and Speaker-ID *)
(* a buffer for the one that is open.                                      *)
Linked == \A i \in Ids : linked[i] # None =>
            active["router"][i] = linked[i] /\ loop["speaker"][linked[i]] # "none"
Buffered == \A i \in Ids : buffer[i].of # None =>
              active["speaker"][i] = buffer[i].of /\ loop["speaker"][buffer[i].of] = "open"

(* What is on its way between the hops, and how many chunks the buffer has *)
(* of those that were sent.                                                *)
Own(s, n) == [k \in 1 .. n |-> s]
Unended(s) == sender[s] \in {"idle", "sending"}

InStep(s) ==
  /\ loop["speaker"][s] \in {"none", "receiving"} =>
       sent[s] = 0 /\ loop["router"][s] \in {"none", "starting", "over"}
  /\ loop["speaker"][s] = "none" => wire["speaker"][s] = "none"
  /\ loop["speaker"][s] = "receiving" => wire["speaker"][s] = "START"
  /\ wire["speaker"][s] = "START" => loop["speaker"][s] = "receiving"
  /\ loop["router"][s] = "open" =>
       wire["speaker"][s] \notin {"START", "CHUNK", "STARTED", "ACK", "END"}

Count(s) == Len(buffer[id[s]].chunks)
Whole(s) ==
  loop["speaker"][s] = "open" /\ active["speaker"][id[s]] = s =>
    /\ buffer[id[s]].of = s
    /\ buffer[id[s]].chunks = Own(s, Count(s))
    /\ wire["speaker"][s] = "CHUNK" => sent[s] = Count(s) + 1
    /\ wire["speaker"][s] \in {"STARTED", "ACK", "END"} \/ loop["router"][s] = "open" =>
         sent[s] = Count(s)

Ended(s) ==
  /\ worker[s].stage # "none" => worker[s].chunks = Own(s, sent[s]) /\ ~Unended(s)
  /\ kept[s] # None => kept[s] = Own(s, sent[s]) /\ ~Unended(s)
  /\ wire["speaker"][s] = "END" => ~Unended(s)

Told(s) ==
  /\ sender[s] = "result" => kept[s] # None
  /\ \A h \in Hops : wire[h][s] = "RESULT" \/ loop[h][s] \in {"returned", "ended"} =>
                       kept[s] # None

Carried(s) == InStep(s) /\ Whole(s) /\ Ended(s) /\ Told(s)

Routing == Shape /\ Registry /\ Linked /\ Buffered /\ \A s \in Streams : Carried(s)

-----------------------------------------------------------------------------
(* Distinct ids are no more than there are.                                *)
LEMMA DistinctAreFew ==
  ASSUME NEW q \in Seq(Ids), \A j, k \in 1 .. Len(q) : q[j] = q[k] => j = k
  PROVE  Len(q) <= MaxStreams
<1>1. Len(q) \in Nat /\ q \in [1 .. Len(q) -> Ids]
  BY LenProperties
<1>2. q \in Injection(1 .. Len(q), Ids)
  BY <1>1 DEF Injection, IsInjective
<1>3. IsFiniteSet(Ids) /\ Cardinality(Ids) = MaxStreams
  BY Constants, FS_Interval DEF Ids, Streams
<1>4. Cardinality(1 .. Len(q)) <= MaxStreams
  BY <1>2, <1>3, FS_Injection
<1>5. Cardinality(1 .. Len(q)) = Len(q)
  BY <1>1, FS_Interval
<1> QED
  BY <1>4, <1>5

(* What closing an id does to the closed ones: it is one of them, and as   *)
(* long as there are no more ids than capacity, none is dropped.           *)
LEMMA ClosedAdds ==
  ASSUME Shape, Distinct, NEW h \in Hops, NEW i \in Ids
  PROVE  LET q == Closed(h, i)
         IN /\ \A j, k \in 1 .. Len(q) : q[j] = q[k] => j = k
            /\ \E k \in 1 .. Len(q) : q[k] = i
            /\ ClosedCapacity >= MaxStreams =>
                 \A j \in Ids : InClosed(h, j) => \E k \in 1 .. Len(q) : q[k] = j
<1> DEFINE q == Closed(h, i)
           old == closed[h]
           added == IF InClosed(h, i) THEN old ELSE Append(old, i)
<1>1. /\ old \in Seq(Ids) /\ Len(old) \in Nat /\ Len(old) <= ClosedCapacity
      /\ \A j, k \in 1 .. Len(old) : old[j] = old[k] => j = k
  BY LenProperties DEF Shape, RegistryTyped, Distinct
<1>2. CASE InClosed(h, i)
  <2>1. q = old
    BY <1>1, <1>2, Constants DEF Closed
  <2> QED
    BY <1>1, <1>2, <2>1 DEF InClosed
<1>3. CASE ~InClosed(h, i)
  <2> DEFINE new == Append(old, i)
  <2>1. /\ new \in Seq(Ids) /\ Len(new) = Len(old) + 1 /\ new[Len(old) + 1] = i
        /\ \A k \in 1 .. Len(old) : new[k] = old[k]
    BY <1>1, AppendProperties
  <2>2. q = IF Len(new) > ClosedCapacity THEN Tail(new) ELSE new
    BY <1>3 DEF Closed
  <2> HIDE DEF new, q
  <2>3. \A k \in 1 .. Len(new) : k \in 1 .. Len(old) \/ k = Len(old) + 1
    BY <1>1, <2>1
  <2>4. \A j, k \in 1 .. Len(new) : new[j] = new[k] => j = k
    <3> SUFFICES ASSUME NEW j \in 1 .. Len(new), NEW k \in 1 .. Len(new), new[j] = new[k]
                 PROVE  j = k
      OBVIOUS
    <3>1. \A l \in 1 .. Len(old) : new[l] # i
      BY <1>3, <2>1 DEF InClosed
    <3>2. CASE j \in 1 .. Len(old) /\ k \in 1 .. Len(old)
      BY <1>1, <2>1, <3>2
    <3>3. CASE j = Len(old) + 1 \/ k = Len(old) + 1
      BY <2>1, <2>3, <3>1, <3>3
    <3> QED
      BY <2>3, <3>2, <3>3
  <2>5. CASE ~(Len(new) > ClosedCapacity)
    <3>1. q = new /\ Len(old) + 1 \in 1 .. Len(new)
      BY <1>1, <2>1, <2>2, <2>5
    <3>2. \A j \in Ids : InClosed(h, j) => \E k \in 1 .. Len(new) : new[k] = j
      BY <1>1, <2>1 DEF InClosed
    <3> QED
      BY <2>1, <2>4, <3>1, <3>2 DEF q
  <2>6. CASE Len(new) > ClosedCapacity
    <3>1. ~(ClosedCapacity >= MaxStreams)
      <4>1. new \in Seq(Ids)
        BY <2>1
      <4>2. Len(new) <= MaxStreams /\ Len(new) \in Nat
        BY <2>4, <4>1, DistinctAreFew, LenProperties
      <4> QED
        BY <2>6, <4>2, Constants
    <3>2. q = Tail(new) /\ new # <<>>
      BY <1>1, <2>1, <2>2, <2>6, Constants
    <3>3. /\ q \in Seq(Ids) /\ Len(q) = Len(old)
          /\ \A k \in 1 .. Len(q) : q[k] = new[k + 1] /\ k + 1 \in 1 .. Len(new)
      BY <1>1, <2>1, <3>2, HeadTailProperties
    <3>4. Len(old) \in 1 .. Len(q) /\ q[Len(old)] = i
      BY <1>1, <2>1, <2>6, <3>3, Constants
    <3>5. ASSUME NEW j \in 1 .. Len(q), NEW k \in 1 .. Len(q), q[j] = q[k]
          PROVE  j = k
      <4>1. j + 1 = k + 1
        BY <2>4, <3>3, <3>5
      <4> QED
        BY <1>1, <3>3, <4>1
    <3> QED
      BY <3>1, <3>4, <3>5 DEF q
  <2> QED
    BY <2>5, <2>6 DEF q
<1> QED
  BY <1>2, <1>3

(* What a stream that is finished leaves: its id is shut, and nothing that *)
(* was shut is opened.                                                     *)
LEMMA FinishEffect ==
  ASSUME Shape, Registry, IdsAreKept, id' = id, NEW h \in Hops, NEW t \in Streams, Finish(h, t)
  PROVE  /\ Distinct' /\ Shut(h, id[t])'
         /\ \A g \in Hops, i \in Ids : Shut(g, i) => Shut(g, i)'
         /\ \A g \in Hops, i \in Ids :
              active'[g][i] = IF g = h /\ i = id[t] THEN None ELSE active[g][i]
<1>1. PICK i \in Ids : i = id[t]
  BY DEF Shape, ClientTyped
<1>2. /\ active' = [active EXCEPT ![h][i] = None]
      /\ closed' = [closed EXCEPT ![h] = Closed(h, i)]
  BY <1>1 DEF Finish
<1>3. \A g \in Hops : closed'[g] = IF g = h THEN Closed(h, i) ELSE closed[g]
  BY <1>2 DEF Shape, RegistryTyped
<1>4. /\ \A j, k \in 1 .. Len(Closed(h, i)) : Closed(h, i)[j] = Closed(h, i)[k] => j = k
      /\ \E k \in 1 .. Len(Closed(h, i)) : Closed(h, i)[k] = i
      /\ ClosedCapacity >= MaxStreams =>
           \A j \in Ids : InClosed(h, j) => \E k \in 1 .. Len(Closed(h, i)) : Closed(h, i)[k] = j
  BY ClosedAdds DEF Registry
<1>5. Distinct'
  BY <1>3, <1>4 DEF Distinct, Registry
<1>6. Unshared' = Unshared /\ id'[t] = i
  BY <1>1 DEF Unshared
<1>7. Shut(h, id[t])'
  BY <1>3, <1>4, <1>6 DEF Shut, InClosed
<1>8. ASSUME NEW g \in Hops, NEW j \in Ids, Shut(g, j)
      PROVE  Shut(g, j)'
  <2>1. CASE Unshared
    BY <1>6, <2>1 DEF Shut
  <2>2. CASE ~Unshared
    BY <1>3, <1>4, <1>8, <2>2 DEF Shut, InClosed, IdsAreKept
  <2> QED
    BY <2>1, <2>2
<1>9. \A g \in Hops, j \in Ids :
        active'[g][j] = IF g = h /\ j = id[t] THEN None ELSE active[g][j]
  BY <1>1, <1>2 DEF Shape, RegistryTyped
<1> QED
  BY <1>5, <1>7, <1>8, <1>9

(* What aborting a recording does, on each hop.                            *)
LEMMA AbortEffect ==
  ASSUME Shape, Registry, IdsAreKept, id' = id, NEW h \in Hops, NEW t \in Streams, Abort(h, t)
  PROVE  /\ Distinct' /\ \A g \in Hops, i \in Ids : Shut(g, i) => Shut(g, i)'
         /\ active[h][id[t]] = t => Shut(h, id[t])'
         /\ \A g \in Hops, i \in Ids :
              active'[g][i] = IF g = h /\ i = id[t] /\ active[h][i] = t
                              THEN None ELSE active[g][i]
         /\ \A i \in Ids :
              /\ linked'[i] = IF h = "router" /\ i = id[t] /\ active[h][i] = t
                              THEN None ELSE linked[i]
              /\ buffer'[i] = IF h = "speaker" /\ i = id[t] /\ active[h][i] = t
                              THEN NoBuffer ELSE buffer[i]
<1>0. id[t] \in Ids
  BY DEF Shape, ClientTyped
<1>1. CASE active[h][id[t]] = t
  <2>1. Finish(h, t) /\ SinkAbort(h, id[t])
    BY <1>1 DEF Abort, Holds
  <2>2. \A i \in Ids :
          /\ linked'[i] = IF h = "router" /\ i = id[t] THEN None ELSE linked[i]
          /\ buffer'[i] = IF h = "speaker" /\ i = id[t] THEN NoBuffer ELSE buffer[i]
    BY <1>0, <2>1 DEF SinkAbort, Shape, SinkTyped
  <2> QED
    BY <1>0, <1>1, <2>1, <2>2, FinishEffect
<1>2. CASE active[h][id[t]] # t
  <2>1. UNCHANGED <<active, closed, linked, buffer>>
    BY <1>2 DEF Abort, Holds
  <2>2. \A g \in Hops, i \in Ids : Shut(g, i) => Shut(g, i)'
    BY <2>1 DEF Shut, InClosed, Unshared
  <2>3. Distinct'
    BY <2>1 DEF Distinct, Registry
  <2> QED
    BY <1>2, <2>1, <2>2, <2>3
<1> QED
  BY <1>1, <1>2

(* What a step may do to the registries.                                   *)
LEMMA RegistryKeeps ==
  ASSUME Shape, Shape', Registry, IdsAreKept, id' = id, Distinct',
         \A g \in Hops, i \in Ids : Shut(g, i) => Shut(g, i)',
         \A g \in Hops, i \in Ids :
           \/ active'[g][i] = active[g][i]
           \/ active'[g][i] = None /\ Shut(g, i)'
           \/ /\ active[g][i] = None /\ ~InClosed(g, i)
              /\ \E s \in Streams : active'[g][i] = s /\ id[s] = i /\ loop'[g][s] \in Started,
         \A g \in Hops, s \in Streams :
           \/ loop'[g][s] \notin Started /\ active'[g][id[s]] # s
           \/ loop'[g][s] \in Started /\ (loop[g][s] \in Started \/ active'[g][id[s]] = s),
         \A g \in Hops, s \in Streams :
           loop'[g][s] \in Calling /\ active'[g][id[s]] # s => due'[g][s]
  PROVE  Registry'
<1>0. \A s \in Streams : id[s] \in Ids
  BY DEF Shape, ClientTyped
<1>1. ASSUME NEW g \in Hops, NEW i \in Ids, active'[g][i] # None
      PROVE  id'[active'[g][i]] = i /\ loop'[g][active'[g][i]] \in Started
  <2>1. PICK x \in Streams : x = active'[g][i]
    BY <1>1 DEF Shape, RegistryTyped
  <2>2. id[x] = i
    BY <1>1, <2>1 DEF Registry, HoldersStarted
  <2> QED
    BY <2>1, <2>2
<1>2. ASSUME NEW g \in Hops, NEW s \in Streams, loop'[g][s] \in Started
      PROVE  \/ active'[g][id'[s]] = s
             \/ active'[g][id'[s]] = None /\ Shut(g, id[s])'
  <2>1. PICK i \in Ids : i = id[s]
    BY <1>0
  <2>2. CASE active'[g][i] = s
    BY <2>1, <2>2
  <2>3. CASE active'[g][i] # s
    <3>1. \/ active[g][i] = s
          \/ active[g][i] = None /\ Shut(g, i)
      BY <1>2, <2>1, <2>3 DEF Registry, StartedHold
    <3>2. ASSUME active[g][i] = None, Shut(g, i), ~InClosed(g, i),
                 NEW o \in Streams, active'[g][i] = o, id[o] = i
          PROVE  FALSE
      BY <2>1, <2>3, <3>2 DEF Shut, Unshared
    <3>3. active'[g][i] = None /\ Shut(g, i)'
      BY <2>3, <3>1, <3>2, Constants
    <3> QED
      BY <2>1, <3>3 DEF Shut, InClosed
  <2> QED
    BY <2>2, <2>3
<1>3. HoldersStarted'
  BY <1>1 DEF HoldersStarted
<1>4. StartedHold'
  BY <1>2 DEF StartedHold, Shut, InClosed
<1>5. TakenAreDue'
  BY DEF TakenAreDue
<1> QED
  BY <1>3, <1>4, <1>5 DEF Registry

(* A recording that a step is not about stays as it is.                    *)
LEMMA OthersStay ==
  ASSUME Routing, id' = id, NEW o \in Streams,
         \A g \in Hops : loop'[g][o] = loop[g][o] /\ wire'[g][o] = wire[g][o],
         sent'[o] = sent[o], sender'[o] = sender[o], worker'[o] = worker[o], kept'[o] = kept[o],
         loop["speaker"][o] = "open" /\ active'["speaker"][id[o]] = o =>
           active["speaker"][id[o]] = o /\ buffer'[id[o]] = buffer[id[o]]
  PROVE  Carried(o)'
<1>0. Carried(o) /\ "router" \in Hops /\ "speaker" \in Hops
  BY DEF Routing, Hops
<1>1. InStep(o)'
  BY <1>0 DEF Carried, InStep
<1>3. Ended(o)'
  BY <1>0 DEF Carried, Ended, Unended, Own
<1>4. Told(o)'
  BY <1>0 DEF Carried, Told
<1>2. Whole(o)'
  BY <1>0 DEF Carried, Whole, Count, Own
<1> QED
  BY <1>1, <1>2, <1>3, <1>4 DEF Carried

(* A socket is left, and the recording with it.                            *)
LEMMA LeaveRouting ==
  ASSUME Routing, Shape', IdsAreKept, id' = id, NEW h \in Hops, NEW s \in Streams,
         NEW reply, Leave(h, s, s, reply),
         reply \in {"ERROR", "none"} \/ (loop[h][s] = "ended" /\ reply = wire[h][s]),
         kept' = kept, worker' = worker \/ worker' = [worker EXCEPT ![s] = NoWorker],
         \A o \in Streams \ {s} : sent'[o] = sent[o] /\ sender'[o] = sender[o],
         \/ sender'[s] = sender[s]
         \/ sender[s] = "idle" /\ sender'[s] = "sending"
         \/ sender[s] = "sending" /\ sender'[s] = "ending",
         \/ sent'[s] = sent[s]
         \/ h = "router" /\ sender[s] = "sending" /\ loop["router"][s] = "open"
  PROVE  Routing'
<1>1. /\ Distinct' /\ \A g \in Hops, i \in Ids : Shut(g, i) => Shut(g, i)'
      /\ active[h][id[s]] = s => Shut(h, id[s])'
      /\ \A g \in Hops, i \in Ids :
           active'[g][i] = IF g = h /\ i = id[s] /\ active[h][i] = s THEN None ELSE active[g][i]
      /\ \A i \in Ids :
           /\ linked'[i] = IF h = "router" /\ i = id[s] /\ active[h][i] = s
                           THEN None ELSE linked[i]
           /\ buffer'[i] = IF h = "speaker" /\ i = id[s] /\ active[h][i] = s
                           THEN NoBuffer ELSE buffer[i]
  BY AbortEffect DEF Leave, Routing
<1>2. \A g \in Hops, o \in Streams :
        /\ loop'[g][o] = IF g = h /\ o = s THEN "over" ELSE loop[g][o]
        /\ wire'[g][o] = IF g = h /\ o = s THEN reply ELSE wire[g][o]
        /\ due'[g][o] = IF g = h /\ o = s THEN FALSE ELSE due[g][o]
  BY DEF Leave, Routing, Shape, LoopTyped
<1>3. /\ "router" \in Hops /\ "speaker" \in Hops /\ "over" \notin Started /\ "over" \notin Calling
      /\ \A o \in Streams : id[o] \in Ids /\ o # None
  BY Constants DEF Routing, Shape, ClientTyped, Hops, Started, Calling
<1>4. Registry'
  <2>1. ASSUME NEW g \in Hops, NEW i \in Ids
        PROVE  active'[g][i] = active[g][i] \/ (active'[g][i] = None /\ Shut(g, i)')
    <3>1. CASE g = h /\ i = id[s] /\ active[h][i] = s
      <4>1. PICK j \in Ids : j = id[s] /\ id'[s] = j
        BY <1>3
      <4>2. Shut(h, j)'
        BY <1>1, <3>1, <4>1 DEF Shut, InClosed
      <4> QED
        BY <1>1, <3>1, <4>1, <4>2
    <3>2. CASE ~(g = h /\ i = id[s] /\ active[h][i] = s)
      BY <1>1, <3>2
    <3> QED
      BY <3>1, <3>2
  <2>2. ASSUME NEW g \in Hops, NEW o \in Streams
        PROVE  \/ loop'[g][o] \notin Started /\ active'[g][id[o]] # o
               \/ loop'[g][o] \in Started /\ loop[g][o] \in Started
    <3>1. id[o] \in Ids /\ o # None
      BY <1>3
    <3>2. active[g][id[o]] = o => loop[g][o] \in Started
      BY <3>1 DEF Routing, Registry, HoldersStarted
    <3>3. active'[g][id[o]] = o => active[g][id[o]] = o /\ ~(g = h /\ o = s)
      BY <1>1, <3>1
    <3> QED
      BY <1>2, <1>3, <3>2, <3>3
  <2>3. ASSUME NEW g \in Hops, NEW o \in Streams,
               loop'[g][o] \in Calling, active'[g][id[o]] # o
        PROVE  due'[g][o]
    <3>1. ~(g = h /\ o = s) /\ loop[g][o] \in Calling /\ due'[g][o] = due[g][o]
      BY <1>2, <1>3, <2>3
    <3>2. active[g][id[o]] # o
      BY <1>1, <1>3, <2>3, <3>1
    <3> QED
      BY <3>1, <3>2 DEF Routing, Registry, TakenAreDue
  <2> QED
    BY <1>1, <2>1, <2>2, <2>3, RegistryKeeps DEF Routing
<1>5. Linked'
  <2> SUFFICES ASSUME NEW i \in Ids, linked'[i] # None
               PROVE  active'["router"][i] = linked'[i] /\ loop'["speaker"][linked'[i]] # "none"
    BY DEF Linked
  <2>1. PICK x \in Streams : x = linked[i]
    BY <1>1 DEF Routing, Shape, SinkTyped
  <2>2. active["router"][i] = x /\ loop["speaker"][x] # "none" /\ id[x] = i
    BY <1>3, <2>1 DEF Routing, Linked, Registry, HoldersStarted
  <2>3. linked'[i] = x /\ active'["router"][i] = x
    BY <1>1, <1>3, <2>1, <2>2
  <2> QED
    BY <1>2, <1>3, <2>1, <2>2, <2>3
<1>6. Buffered'
  <2> SUFFICES ASSUME NEW i \in Ids, buffer'[i].of # None
               PROVE  /\ active'["speaker"][i] = buffer'[i].of
                      /\ loop'["speaker"][buffer'[i].of] = "open"
    BY DEF Buffered
  <2>1. ~(h = "speaker" /\ i = id[s] /\ active[h][i] = s) /\ buffer'[i] = buffer[i]
    BY <1>1 DEF NoBuffer
  <2>2. PICK x \in Streams : x = buffer[i].of
    BY <2>1 DEF Routing, Shape, SinkTyped, Buffers
  <2>3. active["speaker"][i] = x /\ loop["speaker"][x] = "open" /\ id[x] = i
    BY <1>3, <2>1, <2>2 DEF Routing, Buffered, Registry, HoldersStarted
  <2>4. active'["speaker"][i] = x /\ ~(h = "speaker" /\ x = s)
    BY <1>1, <1>3, <2>1, <2>3
  <2>5. loop'["speaker"][x] = "open"
    BY <1>2, <1>3, <2>2, <2>3, <2>4
  <2> QED
    BY <2>1, <2>2, <2>4, <2>5
<1>7. ASSUME NEW o \in Streams \ {s}
      PROVE  Carried(o)'
  <2>1. worker'[o] = worker[o]
    BY DEF Routing, Shape, WorkTyped
  <2>2. loop["speaker"][o] = "open" /\ active'["speaker"][id[o]] = o =>
          active["speaker"][id[o]] = o /\ buffer'[id[o]] = buffer[id[o]]
    BY <1>1, <1>3
  <2>3. kept'[o] = kept[o] /\ \A g \in Hops : loop'[g][o] = loop[g][o] /\ wire'[g][o] = wire[g][o]
    BY <1>2
  <2> QED
    BY <2>1, <2>2, <2>3, OthersStay
<1>8. Carried(s)'
  <2>1. worker'[s] = worker[s] \/ worker'[s].stage = "none"
    BY DEF Routing, Shape, WorkTyped, NoWorker
  <2>2. Carried(s)
    BY DEF Routing
  <2>3. InStep(s)'
    BY <1>2, <1>3, <2>2 DEF Carried, InStep, Hops
  <2>4. Whole(s)'
    <3>1. CASE h = "speaker"
      BY <1>2, <1>3, <3>1 DEF Whole
    <3>2. CASE h = "router"
      <4>1. /\ active'["speaker"][id[s]] = active["speaker"][id[s]] /\ buffer'[id[s]] = buffer[id[s]]
            /\ loop'["speaker"][s] = loop["speaker"][s] /\ wire'["speaker"][s] = wire["speaker"][s]
            /\ loop'["router"][s] = "over"
        BY <1>1, <1>2, <1>3, <3>2
      <4>2. loop["router"][s] = "open" => wire["speaker"][s] \notin {"CHUNK", "STARTED", "ACK", "END"}
        BY <2>2 DEF Carried, InStep
      <4>3. sent'[s] = sent[s] \/ loop["router"][s] = "open"
        OBVIOUS
      <4> QED
        BY <2>2, <4>1, <4>2, <4>3 DEF Carried, Whole, Count, Own
    <3> QED
      BY <3>1, <3>2 DEF Hops
  <2>5. Ended(s)'
    <3>1. ~Unended(s) => sent'[s] = sent[s] /\ ~Unended(s)'
      BY DEF Unended
    <3>2. wire'["speaker"][s] = "END" => wire["speaker"][s] = "END"
      BY <1>2, <1>3
    <3> QED
      BY <2>1, <2>2, <3>1, <3>2 DEF Carried, Ended, Own
  <2>6. Told(s)'
    BY <1>2, <1>3, <2>2 DEF Carried, Told
  <2> QED
    BY <2>3, <2>4, <2>5, <2>6 DEF Carried
<1> QED
  BY <1>4, <1>5, <1>6, <1>7, <1>8 DEF Routing

(* A step between which the registries are the same.                       *)
LEMMA RegistryStays ==
  ASSUME Shape, Shape', Registry, IdsAreKept, UNCHANGED <<id, active, closed>>,
         \A g \in Hops, o \in Streams :
           /\ loop'[g][o] \in Started <=> loop[g][o] \in Started
           /\ loop'[g][o] \in Calling /\ active[g][id[o]] # o => due'[g][o]
  PROVE  Registry'
<1>1. Distinct'
  BY DEF Registry, Distinct
<1>2. HoldersStarted'
  <2> SUFFICES ASSUME NEW g \in Hops, NEW i \in Ids, active[g][i] # None
               PROVE  id[active[g][i]] = i /\ loop'[g][active[g][i]] \in Started
    BY DEF HoldersStarted
  <2>1. active[g][i] \in Streams
    BY DEF Shape, RegistryTyped
  <2> QED
    BY <2>1 DEF Registry, HoldersStarted
<1>3. StartedHold'
  BY DEF Registry, StartedHold, Shut, InClosed, Unshared
<1>4. TakenAreDue'
  BY DEF TakenAreDue
<1> QED
  BY <1>1, <1>2, <1>3, <1>4 DEF Registry

(* What a registry finds under the id of a started recording is it.        *)
LEMMA FindsItself ==
  ASSUME Routing, NEW h \in Hops, NEW s \in Streams, loop[h][s] \in Started,
         active[h][id[s]] # None
  PROVE  active[h][id[s]] = s
BY DEF Routing, Registry, StartedHold

LEMMA RelaysItself ==
  ASSUME Routing, NEW s \in Streams, loop["router"][s] \in Started, linked[id[s]] # None
  PROVE  linked[id[s]] = s /\ active["router"][id[s]] = s
<1>1. id[s] \in Ids /\ "router" \in Hops
  BY DEF Routing, Shape, ClientTyped, Hops
<1>2. active["router"][id[s]] = linked[id[s]]
  BY <1>1 DEF Routing, Linked
<1> QED
  BY <1>1, <1>2, FindsItself

(* A recording is added at its end.                                        *)
LEMMA OwnGrows ==
  ASSUME NEW s \in Streams, NEW n \in Nat
  PROVE  /\ Append(Own(s, n), s) = Own(s, n + 1)
         /\ Own(s, n) \in Seq(Streams) /\ Len(Own(s, n)) = n /\ Own(s, n) # None
         /\ <<>> = Own(s, 0)
<1>1. Own(s, n) \in Seq(Streams) /\ Len(Own(s, n)) = n
  BY SeqDef, LenProperties DEF Own
<1>2. Own(s, 0) = <<>>
  <2>1. Own(s, 0) \in Seq(Streams) /\ Len(Own(s, 0)) = 0
    BY SeqDef, LenProperties DEF Own
  <2> QED
    BY <2>1, EmptySeq
<1>3. Append(Own(s, n), s) = Own(s, n + 1)
  <2>1. /\ Append(Own(s, n), s) \in Seq(Streams) /\ Len(Append(Own(s, n), s)) = n + 1
        /\ \A k \in 1 .. n : Append(Own(s, n), s)[k] = Own(s, n)[k]
        /\ Append(Own(s, n), s)[n + 1] = s
    BY <1>1, AppendProperties
  <2>2. Own(s, n + 1) \in Seq(Streams) /\ Len(Own(s, n + 1)) = n + 1
    BY SeqDef, LenProperties DEF Own
  <2>3. \A k \in 1 .. n + 1 : Append(Own(s, n), s)[k] = Own(s, n + 1)[k]
    <3> SUFFICES ASSUME NEW k \in 1 .. n + 1
                 PROVE  Append(Own(s, n), s)[k] = s
      BY DEF Own
    <3>1. k \in 1 .. n \/ k = n + 1
      OBVIOUS
    <3>2. k \in 1 .. n => Own(s, n)[k] = s
      BY DEF Own
    <3> QED
      BY <2>1, <3>1, <3>2
  <2> QED
    BY <2>1, <2>2, <2>3, SeqEqual
<1> QED
  BY <1>1, <1>2, <1>3, Constants

-----------------------------------------------------------------------------
LEMMA StartRouting ==
  ASSUME Routing, Shape', IdsAreKept, NEW h \in Hops, NEW s \in Streams, ReceiveStart(h, s)
  PROVE  Routing'
<1>1. /\ id' = id /\ kept' = kept /\ worker' = worker /\ Offers(h, s, "START")
      /\ id[s] \in Ids /\ "router" \in Hops /\ "speaker" \in Hops
      /\ \A o \in Streams : id[o] \in Ids /\ o # None
  BY Constants DEF ReceiveStart, Routing, Shape, ClientTyped, Hops
<1>2. /\ sent' = sent /\ \A o \in Streams \ {s} : sender'[o] = sender[o]
      /\ sender'[s] = sender[s] \/ (sender[s] = "idle" /\ sender'[s] = "sending")
      /\ h = "speaker" => sender' = sender /\ wire["speaker"][s] = "START"
  BY <1>1 DEF Offers, Routing, Shape, ClientTyped
<1>3. Carried(s)
  BY DEF Routing
<1>4. CASE Fail(h, s)
  BY <1>1, <1>2, <1>4, LeaveRouting DEF Fail
<1>5. ASSUME Startable(h, s), active' = [active EXCEPT ![h][id[s]] = s],
             NEW at \in {"starting", "open"}, NEW reply \in {"none", "STARTED"},
             Reply(h, s, at, reply), UNCHANGED <<closed, due>>
      PROVE  /\ Registry'
             /\ \A g \in Hops, o \in Streams :
                  /\ loop'[g][o] = IF g = h /\ o = s THEN at ELSE loop[g][o]
                  /\ wire'[g][o] = IF g = h /\ o = s THEN reply ELSE wire[g][o]
             /\ \A g \in Hops, i \in Ids :
                  active'[g][i] = IF g = h /\ i = id[s] THEN s ELSE active[g][i]
             /\ active[h][id[s]] = None
  <2>1. active[h][id[s]] = None /\ ~InClosed(h, id[s])
    BY <1>5 DEF Startable
  <2>2. \A g \in Hops, o \in Streams :
          /\ loop'[g][o] = IF g = h /\ o = s THEN at ELSE loop[g][o]
          /\ wire'[g][o] = IF g = h /\ o = s THEN reply ELSE wire[g][o]
    BY <1>5 DEF Reply, Routing, Shape, LoopTyped
  <2>3. \A g \in Hops, i \in Ids :
          active'[g][i] = IF g = h /\ i = id[s] THEN s ELSE active[g][i]
    BY <1>1, <1>5 DEF Routing, Shape, RegistryTyped
  <2>4. at \in Started
    BY DEF Started, Calling
  <2>5. Distinct' /\ \A g \in Hops, i \in Ids : Shut(g, i) => Shut(g, i)'
    BY <1>1, <1>5 DEF Routing, Registry, Distinct, Shut, InClosed, Unshared
  <2>6. ASSUME NEW g \in Hops, NEW i \in Ids
        PROVE  \/ active'[g][i] = active[g][i]
               \/ /\ active[g][i] = None /\ ~InClosed(g, i)
                  /\ \E o \in Streams : active'[g][i] = o /\ id[o] = i /\ loop'[g][o] \in Started
    <3>1. PICK j \in Ids : j = id[s]
      BY <1>1
    <3>2. ~InClosed(h, j)
      BY <2>1, <3>1
    <3>3. loop'[h][s] \in Started
      BY <2>2, <2>4
    <3> QED
      BY <2>1, <2>3, <3>1, <3>2, <3>3
  <2>7. ASSUME NEW g \in Hops, NEW o \in Streams
        PROVE  /\ \/ loop'[g][o] \notin Started /\ active'[g][id[o]] # o
                  \/ loop'[g][o] \in Started /\ (loop[g][o] \in Started \/ active'[g][id[o]] = o)
               /\ loop'[g][o] \in Calling /\ active'[g][id[o]] # o => due'[g][o]
    <3>1. CASE g = h /\ o = s
      BY <1>1, <2>2, <2>3, <2>4, <3>1
    <3>2. CASE ~(g = h /\ o = s)
      <4>1. loop'[g][o] = loop[g][o] /\ due'[g][o] = due[g][o] /\ id[o] \in Ids /\ o # None
        BY <1>1, <1>5, <2>2, <3>2
      <4>2. active'[g][id[o]] = o <=> active[g][id[o]] = o
        BY <2>1, <2>3, <3>2, <4>1
      <4>3. active[g][id[o]] = o => loop[g][o] \in Started
        BY <4>1 DEF Routing, Registry, HoldersStarted
      <4> QED
        BY <4>1, <4>2, <4>3 DEF Routing, Registry, TakenAreDue
    <3> QED
      BY <3>1, <3>2
  <2>8. Registry'
    BY <1>1, <2>5, <2>6, <2>7, RegistryKeeps DEF Routing
  <2> QED
    BY <2>1, <2>2, <2>3, <2>8
<1>6. CASE /\ h = "router" /\ Startable(h, s) /\ active' = [active EXCEPT ![h][id[s]] = s]
           /\ Reply(h, s, "starting", "none")
           /\ UNCHANGED <<closed, due, linked, buffer>>
  <2>1. /\ Registry'
        /\ \A g \in Hops, o \in Streams :
             /\ loop'[g][o] = IF g = h /\ o = s THEN "starting" ELSE loop[g][o]
             /\ wire'[g][o] = IF g = h /\ o = s THEN "none" ELSE wire[g][o]
        /\ \A g \in Hops, i \in Ids :
             active'[g][i] = IF g = h /\ i = id[s] THEN s ELSE active[g][i]
        /\ active[h][id[s]] = None
    BY <1>5, <1>6
  <2>2. Linked'
    BY <1>1, <1>6, <2>1 DEF Routing, Linked, Shape, SinkTyped
  <2>3. Buffered'
    <3> SUFFICES ASSUME NEW i \in Ids, buffer[i].of # None
                 PROVE  /\ active'["speaker"][i] = buffer[i].of
                        /\ loop'["speaker"][buffer[i].of] = "open"
      BY <1>6 DEF Buffered
    <3>1. PICK x \in Streams : x = buffer[i].of
      BY DEF Routing, Shape, SinkTyped, Buffers
    <3>2. active["speaker"][i] = x /\ loop["speaker"][x] = "open"
      BY <3>1 DEF Routing, Buffered
    <3> QED
      BY <1>1, <1>6, <2>1, <3>1, <3>2
  <2>4. \A o \in Streams \ {s} : Carried(o)'
    BY <1>1, <1>2, <1>6, <2>1, OthersStay
  <2>5. InStep(s)' /\ Ended(s)' /\ Told(s)'
    BY <1>1, <1>2, <1>3, <1>6, <2>1 DEF Carried, InStep, Ended, Told, Unended, Own
  <2>6. Whole(s)'
    BY <1>1, <1>2, <1>3, <1>6, <2>1 DEF Carried, Whole, Count, Own
  <2> QED
    BY <2>1, <2>2, <2>3, <2>4, <2>5, <2>6 DEF Routing, Carried
<1>7. CASE /\ h = "speaker" /\ Startable(h, s) /\ active' = [active EXCEPT ![h][id[s]] = s]
           /\ buffer' = [buffer EXCEPT ![id[s]] = [of |-> s, chunks |-> <<>>]]
           /\ Reply(h, s, "open", "STARTED")
           /\ UNCHANGED <<closed, due, linked>>
  <2>1. /\ Registry'
        /\ \A g \in Hops, o \in Streams :
             /\ loop'[g][o] = IF g = h /\ o = s THEN "open" ELSE loop[g][o]
             /\ wire'[g][o] = IF g = h /\ o = s THEN "STARTED" ELSE wire[g][o]
        /\ \A g \in Hops, i \in Ids :
             active'[g][i] = IF g = h /\ i = id[s] THEN s ELSE active[g][i]
        /\ active[h][id[s]] = None
    BY <1>5, <1>7
  <2>2. Linked'
    <3>1. \A i \in Ids : linked[i] \in Streams \cup {None}
      BY DEF Routing, Shape, SinkTyped
    <3> QED
      BY <1>1, <1>7, <2>1, <3>1 DEF Routing, Linked
  <2>3. buffer'[id[s]] = [of |-> s, chunks |-> <<>>]
        /\ \A i \in Ids : i # id[s] => buffer'[i] = buffer[i]
    BY <1>1, <1>7 DEF Routing, Shape, SinkTyped
  <2>4. Buffered'
    <3> SUFFICES ASSUME NEW i \in Ids, buffer'[i].of # None
                 PROVE  /\ active'["speaker"][i] = buffer'[i].of
                        /\ loop'["speaker"][buffer'[i].of] = "open"
      BY DEF Buffered
    <3>1. CASE i = id[s]
      BY <1>1, <1>7, <2>1, <2>3, <3>1
    <3>2. CASE i # id[s]
      <4>1. PICK x \in Streams : x = buffer[i].of
        BY <2>3, <3>2 DEF Routing, Shape, SinkTyped, Buffers
      <4>2. active["speaker"][i] = x /\ loop["speaker"][x] = "open"
        BY <1>1, <4>1 DEF Routing, Buffered
      <4> QED
        BY <1>1, <1>7, <2>1, <2>3, <3>2, <4>1, <4>2
    <3> QED
      BY <3>1, <3>2
  <2>5. \A o \in Streams \ {s} : Carried(o)'
    BY <1>1, <1>2, <1>7, <2>1, <2>3, OthersStay
  <2>6. /\ sent[s] = 0 /\ loop["router"][s] # "open" /\ loop["speaker"][s] = "receiving"
    BY <1>2, <1>3, <1>7 DEF Carried, InStep
  <2>7. InStep(s)' /\ Ended(s)' /\ Told(s)'
    BY <1>1, <1>2, <1>3, <1>7, <2>1, <2>6 DEF Carried, InStep, Ended, Told, Unended, Own
  <2>8. Whole(s)'
    <3>1. buffer'[id'[s]].of = s /\ buffer'[id'[s]].chunks = Own(s, 0) /\ Count(s)' = 0
      BY <1>1, <2>3, OwnGrows DEF Count
    <3>2. wire'["speaker"][s] = "STARTED" /\ sent'[s] = 0
      BY <1>1, <1>2, <1>7, <2>1, <2>6
    <3> QED
      BY <3>1, <3>2 DEF Whole, Own
  <2> QED
    BY <2>1, <2>2, <2>4, <2>5, <2>7, <2>8 DEF Routing, Carried
<1> QED
  BY <1>4, <1>6, <1>7 DEF ReceiveStart

(* What a step that leaves the registries, the links and the buffers alone *)
(* has to show: only s is moved, and stays carried.                        *)
LEMMA MoveRouting ==
  ASSUME Routing, Shape', IdsAreKept, UNCHANGED <<id, active, closed, linked, buffer>>,
         NEW s \in Streams, Carried(s)',
         \A g \in Hops, o \in Streams :
           /\ loop'[g][o] \in Started <=> loop[g][o] \in Started
           /\ loop'[g][o] \in Calling /\ active[g][id[o]] # o => due'[g][o],
         \A o \in Streams :
           /\ loop["speaker"][o] = "open" => loop'["speaker"][o] = "open"
           /\ loop["speaker"][o] # "none" => loop'["speaker"][o] # "none",
         \A o \in Streams \ {s} :
           /\ \A g \in Hops : loop'[g][o] = loop[g][o] /\ wire'[g][o] = wire[g][o]
           /\ sent'[o] = sent[o] /\ sender'[o] = sender[o]
           /\ worker'[o] = worker[o] /\ kept'[o] = kept[o]
  PROVE  Routing'
<1>1. Registry'
  BY RegistryStays DEF Routing
<1>2. Linked'
  <2>1. \A i \in Ids : linked[i] \in Streams \cup {None}
    BY DEF Routing, Shape, SinkTyped
  <2> QED
    BY <2>1 DEF Routing, Linked
<1>3. Buffered'
  <2>1. \A i \in Ids : buffer[i].of \in Streams \cup {None}
    BY DEF Routing, Shape, SinkTyped, Buffers
  <2> QED
    BY <2>1 DEF Routing, Buffered
<1>4. \A o \in Streams \ {s} : Carried(o)'
  BY OthersStay
<1> QED
  BY <1>1, <1>2, <1>3, <1>4 DEF Routing

(* A chunk, wherever it comes, is the recording's own: the frame can only  *)
(* have come to a socket that is open, and the registry finds it.          *)
LEMMA ChunkRouting ==
  ASSUME Routing, Shape', IdsAreKept, NEW h \in Hops, NEW s \in Streams, ReceiveChunk(h, s)
  PROVE  Routing'
<1> DEFINE i == id[s]
           t == active[h][i]
<1>1. /\ id' = id /\ kept' = kept /\ worker' = worker /\ Offers(h, s, "CHUNK")
      /\ i \in Ids /\ "router" \in Hops /\ "speaker" \in Hops
      /\ s # None /\ Carried(s)
  BY Constants DEF ReceiveChunk, Routing, Shape, ClientTyped, Hops
<1>2. /\ sender' = sender /\ \A o \in Streams \ {s} : sent'[o] = sent[o]
      /\ h = "speaker" => sent' = sent /\ wire["speaker"][s] = "CHUNK"
      /\ h = "router" => /\ sender[s] = "sending" /\ loop["router"][s] = "open"
                         /\ sent'[s] = sent[s] + 1
  BY <1>1 DEF Offers, Routing, Shape, ClientTyped
<1>3. loop[h][s] = "open" /\ loop[h][s] \in Started
  <2>1. h = "speaker" => loop[h][s] \in {"receiving", "open"}
    BY <1>1 DEF Offers
  <2> QED
    BY <1>1, <1>2, <2>1 DEF Carried, InStep, Started, Hops
<1>4. t # None => t = s
  BY <1>3, FindsItself
<1>5. CASE Leave(h, s, s, "ERROR")
  <2>1. sent'[s] = sent[s] \/ (h = "router" /\ sender[s] = "sending" /\ loop["router"][s] = "open")
    BY <1>2 DEF Hops
  <2> QED
    BY <1>1, <1>2, <1>5, <2>1, LeaveRouting
<1>6. CASE /\ t # None /\ h = "speaker"
           /\ buffer' = [buffer EXCEPT ![i].chunks = Append(@, s)]
           /\ Reply(h, s, "open", "ACK")
           /\ UNCHANGED <<active, closed, due, linked>>
  <2>1. /\ \A g \in Hops, o \in Streams :
             /\ loop'[g][o] = loop[g][o]
             /\ wire'[g][o] = IF g = h /\ o = s THEN "ACK" ELSE wire[g][o]
    BY <1>3, <1>6 DEF Reply, Routing, Shape, LoopTyped
  <2>2. /\ buffer'[i].of = buffer[i].of /\ buffer'[i].chunks = Append(buffer[i].chunks, s)
        /\ \A j \in Ids : j # i => buffer'[j] = buffer[j]
        /\ \A j \in Ids : buffer'[j].of = buffer[j].of
    BY <1>1, <1>6 DEF Routing, Shape, SinkTyped, Buffers
  <2>3. Registry'
    BY <1>1, <1>6, <2>1, RegistryStays DEF Routing, Registry, TakenAreDue
  <2>4. Linked'
    <3>1. \A j \in Ids : linked[j] \in Streams \cup {None}
      BY DEF Routing, Shape, SinkTyped
    <3> QED
      BY <1>1, <1>6, <2>1, <3>1 DEF Routing, Linked
  <2>5. Buffered'
    <3>1. \A j \in Ids : buffer[j].of \in Streams \cup {None}
      BY DEF Routing, Shape, SinkTyped, Buffers
    <3> QED
      BY <1>1, <1>6, <2>1, <2>2, <3>1 DEF Routing, Buffered
  <2>6. ASSUME NEW o \in Streams \ {s} PROVE Carried(o)'
    <3>1. id[o] \in Ids
      BY DEF Routing, Shape, ClientTyped
    <3>2. active'["speaker"][id[o]] = o => active["speaker"][id[o]] = o /\ id[o] # i
      BY <1>4, <1>6
    <3> QED
      BY <1>1, <1>2, <2>1, <2>2, <3>1, <3>2, OthersStay
  <2>7. InStep(s)' /\ Ended(s)' /\ Told(s)'
    BY <1>1, <1>2, <1>3, <1>6, <2>1 DEF Carried, InStep, Ended, Told, Unended, Own
  <2>8. Whole(s)'
    <3> DEFINE n == Len(buffer[i].chunks)
    <3>1. n \in Nat /\ buffer[i].of = s /\ buffer[i].chunks = Own(s, n) /\ sent[s] = n + 1
      <4>1. buffer[i].chunks \in Seq(Streams)
        BY <1>1 DEF Routing, Shape, SinkTyped, Buffers
      <4> QED
        BY <1>1, <1>2, <1>3, <1>4, <1>6, <4>1, LenProperties DEF Carried, Whole, Count
    <3> HIDE DEF n
    <3>2. buffer'[id'[s]].chunks = Own(s, n + 1) /\ Count(s)' = n + 1 /\ buffer'[id'[s]].of = s
      <4>1. id'[s] = i /\ buffer'[i].chunks = Append(Own(s, n), s) /\ buffer'[i].of = s
        BY <1>1, <2>2, <3>1
      <4>2. Append(Own(s, n), s) = Own(s, n + 1) /\ Len(Own(s, n + 1)) = n + 1
        <5>1. n + 1 \in Nat
          BY <3>1
        <5> QED
          BY <3>1, <5>1, OwnGrows
      <4> HIDE DEF i
      <4> QED
        BY <4>1, <4>2 DEF Count
    <3>3. wire'["speaker"][s] = "ACK" /\ sent'[s] = n + 1
      BY <1>1, <1>2, <1>6, <2>1, <3>1
    <3> QED
      BY <3>2, <3>3 DEF Whole, Own
  <2> QED
    BY <2>3, <2>4, <2>5, <2>6, <2>7, <2>8 DEF Routing, Carried
<1>7. CASE /\ t # None /\ h = "router" /\ linked[i] # None
           /\ loop' = [loop EXCEPT ![h][s] = "chunking"]
           /\ wire' = [wire EXCEPT ![h][s] = "none", !["speaker"][linked[i]] = "CHUNK"]
           /\ UNCHANGED <<active, closed, due, linked, buffer>>
  <2>1. linked[i] = s /\ active["router"][i] = s
    BY <1>3, <1>7, RelaysItself
  <2>2. \A g \in Hops, o \in Streams :
          /\ loop'[g][o] = IF g = "router" /\ o = s THEN "chunking" ELSE loop[g][o]
          /\ wire'[g][o] = IF o # s THEN wire[g][o] ELSE IF g = "router" THEN "none" ELSE "CHUNK"
    BY <1>1, <1>7, <2>1 DEF Routing, Shape, LoopTyped, Hops
  <2>3. /\ loop["speaker"][s] \notin {"none", "receiving"}
        /\ worker[s].stage = "none" /\ kept[s] = None
    BY <1>1, <1>2, <1>7 DEF Carried, InStep, Ended, Unended
  <2>4. InStep(s)' /\ Ended(s)' /\ Told(s)'
    BY <1>1, <1>2, <2>2, <2>3 DEF Carried, InStep, Ended, Told, Unended, Own
  <2>5. Whole(s)'
    <3>1. /\ loop'["speaker"][s] = loop["speaker"][s] /\ loop'["router"][s] = "chunking"
          /\ wire'["speaker"][s] = "CHUNK"
      BY <1>1, <2>2
    <3>2. /\ loop["router"][s] = "open" /\ sent'[s] = sent[s] + 1
          /\ UNCHANGED <<id, active, buffer>>
      BY <1>1, <1>2, <1>7
    <3> QED
      BY <1>1, <3>1, <3>2 DEF Carried, Whole, Count, Own
  <2>6. \A g \in Hops, o \in Streams :
          /\ loop'[g][o] \in Started <=> loop[g][o] \in Started
          /\ loop'[g][o] \in Calling /\ active[g][id[o]] # o => due'[g][o]
    BY <1>3, <1>7, <2>1, <2>2 DEF Routing, Registry, TakenAreDue, Started, Calling
  <2>7. Carried(s)'
    BY <2>4, <2>5 DEF Carried
  <2>8. \A o \in Streams :
          /\ loop["speaker"][o] = "open" => loop'["speaker"][o] = "open"
          /\ loop["speaker"][o] # "none" => loop'["speaker"][o] # "none"
    BY <1>1, <2>2
  <2>9. \A o \in Streams \ {s} :
          /\ \A g \in Hops : loop'[g][o] = loop[g][o] /\ wire'[g][o] = wire[g][o]
          /\ sent'[o] = sent[o] /\ sender'[o] = sender[o]
          /\ worker'[o] = worker[o] /\ kept'[o] = kept[o]
    BY <1>1, <1>2, <2>2
  <2> QED
    BY <1>1, <1>7, <2>6, <2>7, <2>8, <2>9, MoveRouting
<1> QED
  <2>1. CASE t = None
    BY <1>5, <2>1 DEF ReceiveChunk, Fail
  <2>2. CASE t # None
    BY <1>1, <1>4, <1>5, <1>6, <1>7, <2>2 DEF ReceiveChunk
  <2> QED
    BY <2>1, <2>2

LEMMA EndRouting ==
  ASSUME Routing, Shape', IdsAreKept, NEW h \in Hops, NEW s \in Streams, ReceiveEnd(h, s)
  PROVE  Routing'
<1> DEFINE i == id[s]
           t == active[h][i]
<1>1. /\ id' = id /\ kept' = kept /\ Offers(h, s, "END")
      /\ i \in Ids /\ "router" \in Hops /\ "speaker" \in Hops
      /\ s # None /\ Carried(s)
  BY Constants DEF ReceiveEnd, Routing, Shape, ClientTyped, Hops
<1>2. /\ sent' = sent /\ \A o \in Streams \ {s} : sender'[o] = sender[o]
      /\ h = "speaker" => sender' = sender /\ wire["speaker"][s] = "END"
      /\ h = "router" => /\ sender[s] = "sending" /\ loop["router"][s] = "open"
                         /\ sender'[s] = "ending"
  BY <1>1 DEF Offers, Routing, Shape, ClientTyped
<1>3. loop[h][s] = "open" /\ loop[h][s] \in Started
  <2>1. h = "speaker" => loop[h][s] \in {"receiving", "open"}
    BY <1>1 DEF Offers
  <2> QED
    BY <1>1, <1>2, <2>1 DEF Carried, InStep, Started, Hops
<1>4. t # None => t = s
  BY <1>3, FindsItself
<1>5. CASE Leave(h, s, s, "ERROR") /\ worker' = worker
  <2>1. sender'[s] = sender[s] \/ (sender[s] = "sending" /\ sender'[s] = "ending")
    BY <1>2 DEF Hops
  <2> QED
    BY <1>1, <1>2, <1>5, <2>1, LeaveRouting
<1>6. CASE /\ t # None /\ h = "router" /\ linked[i] # None
           /\ loop' = [loop EXCEPT ![h][s] = "ending"]
           /\ wire' = [wire EXCEPT ![h][s] = "none", !["speaker"][linked[i]] = "END"]
           /\ UNCHANGED <<active, closed, due, linked, buffer, worker>>
  <2>1. linked[i] = s /\ active["router"][i] = s
    BY <1>3, <1>6, RelaysItself
  <2>2. \A g \in Hops, o \in Streams :
          /\ loop'[g][o] = IF g = "router" /\ o = s THEN "ending" ELSE loop[g][o]
          /\ wire'[g][o] = IF o # s THEN wire[g][o] ELSE IF g = "router" THEN "none" ELSE "END"
    BY <1>1, <1>6, <2>1 DEF Routing, Shape, LoopTyped, Hops
  <2>3. /\ loop["speaker"][s] \notin {"none", "receiving"}
        /\ worker[s].stage = "none" /\ kept[s] = None
    BY <1>1, <1>2, <1>6 DEF Carried, InStep, Ended, Unended
  <2>4. InStep(s)' /\ Ended(s)' /\ Told(s)'
    <3>1. /\ loop'["speaker"][s] = loop["speaker"][s] /\ loop'["router"][s] = "ending"
          /\ wire'["speaker"][s] = "END" /\ wire'["router"][s] = "none"
      BY <1>1, <2>2
    <3>2. /\ worker'[s].stage = "none" /\ kept'[s] = None
          /\ sender'[s] = "ending" /\ sent'[s] = sent[s]
      BY <1>1, <1>2, <1>6, <2>3
    <3>3. InStep(s)'
      BY <2>3, <3>1 DEF InStep
    <3>4. Ended(s)'
      BY <3>1, <3>2 DEF Ended, Unended
    <3>5. Told(s)'
      BY <1>1, <2>3, <3>1, <3>2 DEF Carried, Told, Hops
    <3> QED
      BY <3>3, <3>4, <3>5
  <2>5. Whole(s)'
    <3>1. /\ loop'["speaker"][s] = loop["speaker"][s] /\ loop'["router"][s] = "ending"
          /\ wire'["speaker"][s] = "END"
      BY <1>1, <2>2
    <3>2. loop["router"][s] = "open" /\ UNCHANGED <<id, active, buffer, sent>>
      BY <1>1, <1>2, <1>6
    <3> QED
      BY <1>1, <3>1, <3>2 DEF Carried, Whole, Count, Own
  <2>6. \A g \in Hops, o \in Streams :
          /\ loop'[g][o] \in Started <=> loop[g][o] \in Started
          /\ loop'[g][o] \in Calling /\ active[g][id[o]] # o => due'[g][o]
    BY <1>3, <1>6, <2>1, <2>2 DEF Routing, Registry, TakenAreDue, Started, Calling
  <2>7. Carried(s)'
    BY <2>4, <2>5 DEF Carried
  <2>8. \A o \in Streams :
          /\ loop["speaker"][o] = "open" => loop'["speaker"][o] = "open"
          /\ loop["speaker"][o] # "none" => loop'["speaker"][o] # "none"
    BY <1>1, <2>2
  <2>9. \A o \in Streams \ {s} :
          /\ \A g \in Hops : loop'[g][o] = loop[g][o] /\ wire'[g][o] = wire[g][o]
          /\ sent'[o] = sent[o] /\ sender'[o] = sender[o]
          /\ worker'[o] = worker[o] /\ kept'[o] = kept[o]
    <3>1. kept' = kept /\ worker' = worker /\ sent' = sent
      BY <1>1, <1>2, <1>6
    <3> QED
      BY <1>2, <2>2, <3>1
  <2> QED
    BY <1>1, <1>6, <2>6, <2>7, <2>8, <2>9, MoveRouting
<1>7. CASE /\ t # None /\ h = "speaker"
           /\ buffer' = [buffer EXCEPT ![i] = NoBuffer]
           /\ worker' = [worker EXCEPT ![s] = [stage |-> "computing", chunks |-> buffer[i].chunks]]
           /\ Reply(h, s, "ending", "none")
           /\ UNCHANGED <<active, closed, due, linked>>
  <2>1. \A g \in Hops, o \in Streams :
          /\ loop'[g][o] = IF g = "speaker" /\ o = s THEN "ending" ELSE loop[g][o]
          /\ wire'[g][o] = IF g = "speaker" /\ o = s THEN "none" ELSE wire[g][o]
    BY <1>7 DEF Reply, Routing, Shape, LoopTyped
  <2>2. buffer'[i] = NoBuffer /\ \A j \in Ids : j # i => buffer'[j] = buffer[j]
    BY <1>1, <1>7 DEF Routing, Shape, SinkTyped
  <2>3. active["speaker"][i] = s
    BY <1>4, <1>7
  <2>4. Registry'
    <3>1. \A g \in Hops, o \in Streams :
            /\ loop'[g][o] \in Started <=> loop[g][o] \in Started
            /\ loop'[g][o] \in Calling /\ active[g][id[o]] # o => due'[g][o]
      BY <1>3, <1>7, <2>1, <2>3 DEF Routing, Registry, TakenAreDue, Started, Calling
    <3> QED
      BY <1>1, <1>7, <3>1, RegistryStays DEF Routing
  <2>5. Linked'
    <3>1. \A j \in Ids : linked[j] \in Streams \cup {None}
      BY DEF Routing, Shape, SinkTyped
    <3> QED
      BY <1>1, <1>7, <2>1, <3>1 DEF Routing, Linked
  <2>6. Buffered'
    <3> SUFFICES ASSUME NEW j \in Ids, buffer'[j].of # None
                 PROVE  /\ active'["speaker"][j] = buffer'[j].of
                        /\ loop'["speaker"][buffer'[j].of] = "open"
      BY DEF Buffered
    <3>1. j # i /\ buffer'[j] = buffer[j]
      BY <2>2 DEF NoBuffer
    <3>2. PICK x \in Streams : x = buffer[j].of
      BY <3>1 DEF Routing, Shape, SinkTyped, Buffers
    <3>3. /\ active["speaker"][j] = x /\ loop["speaker"][x] = "open"
          /\ id[x] = j
      BY <1>1, <3>1, <3>2 DEF Routing, Buffered, Registry, HoldersStarted
    <3> QED
      BY <1>1, <1>7, <2>1, <3>1, <3>2, <3>3
  <2>7. ASSUME NEW o \in Streams \ {s} PROVE Carried(o)'
    <3>1. id[o] \in Ids /\ worker'[o] = worker[o]
      BY <1>7 DEF Routing, Shape, ClientTyped, WorkTyped
    <3>2. active'["speaker"][id[o]] = o => active["speaker"][id[o]] = o /\ id[o] # i
      BY <1>7, <2>3
    <3> QED
      BY <1>1, <1>2, <1>7, <2>1, <2>2, <3>1, <3>2, OthersStay
  <2>8. worker'[s].chunks = Own(s, sent[s]) /\ ~Unended(s)
    <3>1. worker'[s].chunks = buffer[i].chunks
      BY <1>7 DEF Routing, Shape, WorkTyped
    <3>2. buffer[i].chunks = Own(s, sent[s])
      BY <1>1, <1>2, <1>3, <1>7, <2>3 DEF Carried, Whole
    <3> QED
      BY <1>1, <1>2, <1>7, <3>1, <3>2 DEF Carried, Ended
  <2>9. sender' = sender /\ sent' = sent /\ kept' = kept
    BY <1>1, <1>2, <1>7
  <2>10. InStep(s)' /\ Told(s)'
    BY <1>1, <1>2, <1>3, <2>1, <2>9 DEF Carried, InStep, Told
  <2>11. Ended(s)'
    BY <1>1, <2>1, <2>8, <2>9 DEF Carried, Ended, Unended, Own
  <2>12. Whole(s)'
    BY <1>1, <2>1 DEF Whole
  <2> QED
    BY <2>4, <2>5, <2>6, <2>7, <2>10, <2>11, <2>12 DEF Routing, Carried
<1> QED
  <2>1. CASE t = None
    BY <1>5, <2>1 DEF ReceiveEnd, Fail
  <2>2. CASE t # None
    BY <1>1, <1>4, <1>5, <1>6, <1>7, <2>2 DEF ReceiveEnd, registryVars
  <2> QED
    BY <2>1, <2>2

-----------------------------------------------------------------------------
LEMMA AnswerRouting ==
  ASSUME Routing, Shape', IdsAreKept, NEW h \in Hops, NEW s \in Streams, Answer(h, s)
  PROVE  Routing'
<1>1. /\ id' = id /\ sent' = sent /\ sender' = sender /\ kept' = kept
      /\ id[s] \in Ids /\ s # None /\ Carried(s) /\ "router" \in Hops /\ "speaker" \in Hops
  BY Constants DEF Answer, SendResult, CallFails, Disconnected, LoopTimesOut, clientVars,
                   sinkVars, Routing, Shape, ClientTyped, Hops
<1>2. CASE SendResult(h, s)
  <2>1. /\ loop[h][s] = "returned" /\ UNCHANGED <<active, closed, due, linked, buffer, worker>>
        /\ loop' = [loop EXCEPT ![h][s] = "ended"] /\ wire' = [wire EXCEPT ![h][s] = "RESULT"]
    BY <1>2 DEF SendResult, Reply, registryVars, sinkVars
  <2>2. \A g \in Hops, o \in Streams :
          /\ loop'[g][o] = IF g = h /\ o = s THEN "ended" ELSE loop[g][o]
          /\ wire'[g][o] = IF g = h /\ o = s THEN "RESULT" ELSE wire[g][o]
    BY <2>1 DEF Routing, Shape, LoopTyped
  <2>3. kept[s] # None
    BY <1>1, <2>1 DEF Carried, Told
  <2>4. \A g \in Hops, o \in Streams :
          /\ loop'[g][o] \in Started <=> loop[g][o] \in Started
          /\ loop'[g][o] \in Calling /\ active[g][id[o]] # o => due'[g][o]
    BY <2>1, <2>2 DEF Routing, Registry, TakenAreDue, Started, Calling
  <2>5. InStep(s)' /\ Told(s)' /\ Ended(s)'
    BY <1>1, <2>1, <2>2, <2>3 DEF Carried, InStep, Told, Ended, Unended, Own
  <2>6. Whole(s)'
    <3>1. CASE h = "speaker"
      BY <1>1, <2>2, <3>1 DEF Whole
    <3>2. CASE h = "router"
      <4>1. /\ loop'["speaker"][s] = loop["speaker"][s] /\ loop'["router"][s] # "open"
            /\ wire'["speaker"][s] = wire["speaker"][s]
        BY <1>1, <2>2, <3>2
      <4> QED
        BY <1>1, <2>1, <4>1 DEF Carried, Whole, Count, Own
    <3> QED
      BY <3>1, <3>2 DEF Hops
  <2>7. /\ Carried(s)'
        /\ \A o \in Streams :
             /\ loop["speaker"][o] = "open" => loop'["speaker"][o] = "open"
             /\ loop["speaker"][o] # "none" => loop'["speaker"][o] # "none"
    BY <1>1, <2>1, <2>2, <2>5, <2>6 DEF Carried
  <2>8. \A o \in Streams \ {s} :
          /\ \A g \in Hops : loop'[g][o] = loop[g][o] /\ wire'[g][o] = wire[g][o]
          /\ sent'[o] = sent[o] /\ sender'[o] = sender[o]
          /\ worker'[o] = worker[o] /\ kept'[o] = kept[o]
    BY <1>1, <2>1, <2>2
  <2> QED
    BY <1>1, <2>1, <2>4, <2>7, <2>8, MoveRouting
<1>3. CASE CallFails(h, s)
  <2>1. worker' = worker \/ worker' = [worker EXCEPT ![s] = NoWorker]
    BY <1>3 DEF CallFails
  <2>2. CASE Fail(h, s)
    BY <1>1, <2>1, <2>2, LeaveRouting DEF Fail
  <2>3. CASE /\ loop[h][s] \in Calling /\ ~Holds(h, s) /\ h = "router" /\ SinkAbort(h, id[s])
             /\ Reply(h, s, "over", "ERROR")
             /\ due' = [due EXCEPT ![h][s] = FALSE]
             /\ UNCHANGED <<active, closed, size>>
    <3>1. linked[id[s]] = None
      BY <1>1, <2>3, RelaysItself DEF Started, Holds
    <3>2. UNCHANGED <<linked, buffer, hungup>>
      BY <2>3, <3>1 DEF SinkAbort
    <3>3. Fail(h, s)
      BY <2>3, <3>2 DEF Fail, Leave, Reply, Abort
    <3> QED
      BY <1>1, <2>1, <3>3, LeaveRouting DEF Fail
  <2> QED
    BY <1>3, <2>2, <2>3 DEF CallFails
<1>4. CASE Disconnected(h, s)
  <2>1. Leave(h, s, s, "none") /\ worker' = worker
    BY <1>4 DEF Disconnected
  <2> QED
    BY <1>1, <2>1, LeaveRouting
<1>5. CASE LoopTimesOut(h, s)
  <2> DEFINE reply == IF loop[h][s] = "ended" THEN wire[h][s] ELSE "ERROR"
  <2>1. Leave(h, s, s, reply) /\ worker' = worker
    BY <1>5 DEF LoopTimesOut
  <2> QED
    BY <1>1, <2>1, LeaveRouting
<1> QED
  BY <1>2, <1>3, <1>4, <1>5 DEF Answer

(* The deadline takes a stream from its registry while its call, if there  *)
(* is one, has yet to see it.                                              *)
LEMMA ClockRouting ==
  ASSUME Routing, Shape', IdsAreKept, NEW h \in Hops, NEW s \in Streams, Clock(h, s)
  PROVE  Routing'
<1>1. /\ id' = id /\ sent' = sent /\ sender' = sender /\ kept' = kept /\ worker' = worker
      /\ wire' = wire /\ loop' = loop
      /\ id[s] \in Ids /\ s # None /\ Carried(s) /\ "router" \in Hops /\ "speaker" \in Hops
  BY Constants DEF Clock, Deadline, Expire, clientVars, sinkVars, Routing, Shape,
                   ClientTyped, Hops
<1>2. CASE Deadline(h, s)
  <2>1. /\ UNCHANGED <<active, closed, linked, buffer>>
        /\ \A g \in Hops, o \in Streams : due[g][o] => due'[g][o]
    BY <1>2 DEF Deadline, sinkVars, Routing, Shape, LoopTyped
  <2>2. \A g \in Hops, o \in Streams :
          loop'[g][o] \in Calling /\ active[g][id[o]] # o => due'[g][o]
    BY <1>1, <2>1 DEF Routing, Registry, TakenAreDue
  <2>3. Carried(s)'
    BY <1>1, <2>1, OthersStay
  <2> QED
    BY <1>1, <2>1, <2>2, <2>3, MoveRouting
<1>3. CASE Expire(h, s)
  <2>1. /\ Abort(h, s) /\ due' = [due EXCEPT ![h][s] = loop[h][s] \in Calling]
    BY <1>3 DEF Expire
  <2>2. /\ Distinct' /\ \A g \in Hops, i \in Ids : Shut(g, i) => Shut(g, i)'
        /\ active[h][id[s]] = s => Shut(h, id[s])'
        /\ \A g \in Hops, i \in Ids :
             active'[g][i] = IF g = h /\ i = id[s] /\ active[h][i] = s THEN None ELSE active[g][i]
        /\ \A i \in Ids :
             /\ linked'[i] = IF h = "router" /\ i = id[s] /\ active[h][i] = s
                             THEN None ELSE linked[i]
             /\ buffer'[i] = IF h = "speaker" /\ i = id[s] /\ active[h][i] = s
                             THEN NoBuffer ELSE buffer[i]
    BY <1>1, <2>1, AbortEffect DEF Routing
  <2>3. \A g \in Hops, o \in Streams :
          due'[g][o] = IF g = h /\ o = s THEN loop[h][s] \in Calling ELSE due[g][o]
    BY <2>1 DEF Routing, Shape, LoopTyped
  <2>4. Registry'
    <3>1. ASSUME NEW g \in Hops, NEW i \in Ids
          PROVE  active'[g][i] = active[g][i] \/ (active'[g][i] = None /\ Shut(g, i)')
      <4>1. CASE g = h /\ i = id[s] /\ active[h][i] = s
        <5>1. PICK j \in Ids : j = id[s] /\ id'[s] = j
          BY <1>1
        <5>2. Shut(h, j)'
          BY <2>2, <4>1, <5>1 DEF Shut, InClosed
        <5> QED
          BY <2>2, <4>1, <5>1, <5>2
      <4>2. CASE ~(g = h /\ i = id[s] /\ active[h][i] = s)
        BY <2>2, <4>2
      <4> QED
        BY <4>1, <4>2
    <3>2. ASSUME NEW g \in Hops, NEW o \in Streams
          PROVE  /\ \/ loop'[g][o] \notin Started /\ active'[g][id[o]] # o
                    \/ loop'[g][o] \in Started /\ loop[g][o] \in Started
                 /\ loop'[g][o] \in Calling /\ active'[g][id[o]] # o => due'[g][o]
      <4>1. id[o] \in Ids /\ o # None
        BY Constants DEF Routing, Shape, ClientTyped
      <4>2. active[g][id[o]] = o => loop[g][o] \in Started
        BY <4>1 DEF Routing, Registry, HoldersStarted
      <4>3. active'[g][id[o]] = o => active[g][id[o]] = o
        BY <2>2, <4>1
      <4>4. CASE g = h /\ o = s
        BY <1>1, <2>3, <4>2, <4>3, <4>4
      <4>5. CASE ~(g = h /\ o = s)
        <5>1. active[g][id[o]] = o => active'[g][id[o]] = o
          BY <2>2, <4>1, <4>5
        <5> QED
          BY <1>1, <2>3, <4>2, <4>3, <4>5, <5>1 DEF Routing, Registry, TakenAreDue
      <4> QED
        BY <4>4, <4>5
    <3> QED
      BY <1>1, <2>2, <3>1, <3>2, RegistryKeeps DEF Routing
  <2>5. Linked'
    <3> SUFFICES ASSUME NEW i \in Ids, linked'[i] # None
                 PROVE  active'["router"][i] = linked'[i] /\ loop["speaker"][linked'[i]] # "none"
      BY <1>1 DEF Linked
    <3>1. linked'[i] = linked[i] /\ ~(h = "router" /\ i = id[s] /\ active[h][i] = s)
      BY <2>2
    <3>2. active["router"][i] = linked[i] /\ loop["speaker"][linked[i]] # "none"
      BY <3>1 DEF Routing, Linked
    <3> QED
      BY <1>1, <2>2, <3>1, <3>2
  <2>6. Buffered'
    <3> SUFFICES ASSUME NEW i \in Ids, buffer'[i].of # None
                 PROVE  /\ active'["speaker"][i] = buffer'[i].of
                        /\ loop["speaker"][buffer'[i].of] = "open"
      BY <1>1 DEF Buffered
    <3>1. buffer'[i] = buffer[i] /\ ~(h = "speaker" /\ i = id[s] /\ active[h][i] = s)
      BY <2>2 DEF NoBuffer
    <3>2. active["speaker"][i] = buffer[i].of /\ loop["speaker"][buffer[i].of] = "open"
      BY <3>1 DEF Routing, Buffered
    <3> QED
      BY <1>1, <2>2, <3>1, <3>2
  <2>7. ASSUME NEW o \in Streams
        PROVE  Carried(o)'
    <3>1. id[o] \in Ids /\ o # None
      BY Constants DEF Routing, Shape, ClientTyped
    <3>2. active'["speaker"][id[o]] = o =>
            active["speaker"][id[o]] = o /\ buffer'[id[o]] = buffer[id[o]]
      BY <1>1, <2>2, <3>1
    <3> QED
      BY <1>1, <3>2, OthersStay
  <2> QED
    BY <2>4, <2>5, <2>6, <2>7 DEF Routing
<1> QED
  BY <1>2, <1>3 DEF Clock

(* The relay opens a socket, and waits for an answer, for the recording    *)
(* whose call it is in: a call that has lost its id is past its deadline.  *)
LEMMA RelayRouting ==
  ASSUME Routing, Shape', IdsAreKept, NEW s \in Streams, Relay(s)
  PROVE  Routing'
<1>1. /\ id' = id /\ sent' = sent /\ sender' = sender /\ kept' = kept /\ worker' = worker
      /\ due' = due /\ ~due["router"][s] /\ loop["router"][s] \in Calling
      /\ id[s] \in Ids /\ s # None /\ Carried(s) /\ "router" \in Hops /\ "speaker" \in Hops
  BY Constants DEF Relay, RelayConnect, RelayAnswer, RelayResult, Received, clientVars,
                   registryVars, sinkVars, Routing, Shape, ClientTyped, Hops, Calling
<1>2. active["router"][id[s]] = s
  BY <1>1 DEF Routing, Registry, TakenAreDue
<1>3. CASE RelayConnect(s)
  <2>1. /\ loop["router"][s] = "starting" /\ loop["speaker"][s] = "none"
        /\ linked' = [linked EXCEPT ![id[s]] = s]
        /\ UNCHANGED <<active, closed, buffer>>
    BY <1>3 DEF RelayConnect, registryVars
  <2>2. \A g \in Hops, o \in Streams :
          /\ loop'[g][o] = IF g = "speaker" /\ o = s THEN "receiving" ELSE loop[g][o]
          /\ wire'[g][o] = IF g = "speaker" /\ o = s THEN "START" ELSE wire[g][o]
    BY <1>3 DEF RelayConnect, Routing, Shape, LoopTyped
  <2>3. Registry'
    <3>1. \A g \in Hops, o \in Streams :
            /\ loop'[g][o] \in Started <=> loop[g][o] \in Started
            /\ loop'[g][o] \in Calling /\ active[g][id[o]] # o => due'[g][o]
      BY <1>1, <2>1, <2>2 DEF Routing, Registry, TakenAreDue, Started, Calling
    <3> QED
      BY <1>1, <2>1, <3>1, RegistryStays DEF Routing
  <2>4. Linked'
    <3> SUFFICES ASSUME NEW i \in Ids, linked'[i] # None
                 PROVE  active["router"][i] = linked'[i] /\ loop'["speaker"][linked'[i]] # "none"
      BY <2>1 DEF Linked
    <3>1. CASE i = id[s]
      BY <1>1, <1>2, <2>1, <2>2, <3>1 DEF Routing, Shape, SinkTyped
    <3>2. CASE i # id[s]
      <4>1. linked'[i] = linked[i] /\ linked[i] \in Streams
        BY <2>1, <3>2 DEF Routing, Shape, SinkTyped
      <4>2. active["router"][i] = linked[i] /\ loop["speaker"][linked[i]] # "none"
        BY <4>1 DEF Routing, Linked
      <4> QED
        BY <1>1, <2>2, <4>1, <4>2
    <3> QED
      BY <3>1, <3>2
  <2>5. Buffered'
    <3>1. \A j \in Ids : buffer[j].of \in Streams \cup {None}
      BY DEF Routing, Shape, SinkTyped, Buffers
    <3> QED
      BY <1>1, <2>1, <2>2, <3>1 DEF Routing, Buffered
  <2>6. \A o \in Streams \ {s} : Carried(o)'
    BY <1>1, <2>1, <2>2, OthersStay
  <2>7. InStep(s)' /\ Told(s)' /\ Ended(s)' /\ Whole(s)'
    <3>1. /\ loop'["speaker"][s] = "receiving" /\ wire'["speaker"][s] = "START"
          /\ loop'["router"][s] = "starting" /\ wire'["router"][s] = wire["router"][s]
      BY <1>1, <2>1, <2>2
    <3>2. InStep(s)' /\ Whole(s)'
      BY <1>1, <2>1, <3>1 DEF Carried, InStep, Whole
    <3>3. Told(s)' /\ Ended(s)'
      BY <1>1, <2>1, <3>1 DEF Carried, Told, Ended, Unended, Own, Hops
    <3> QED
      BY <3>2, <3>3
  <2> QED
    BY <2>3, <2>4, <2>5, <2>6, <2>7 DEF Routing, Carried
<1>4. CASE RelayAnswer(s)
  <2>1. linked[id[s]] = s
    BY <1>1, <1>4, RelaysItself DEF RelayAnswer, Received, Started
  <2>2. PICK frame \in {"STARTED", "ACK"} : wire["speaker"][s] = frame
    BY <1>4, <2>1 DEF RelayAnswer, Received
  <2>3. UNCHANGED <<active, closed, linked, buffer>>
    BY <1>4 DEF RelayAnswer, registryVars, sinkVars
  <2>4. \A g \in Hops, o \in Streams :
          /\ loop'[g][o] = IF g = "router" /\ o = s THEN "open" ELSE loop[g][o]
          /\ wire'[g][o] = IF o # s THEN wire[g][o] ELSE IF g = "router" THEN frame ELSE "none"
    BY <1>1, <1>4, <2>1, <2>2 DEF RelayAnswer, Routing, Shape, LoopTyped, Hops
  <2>5. \A g \in Hops, o \in Streams :
          /\ loop'[g][o] \in Started <=> loop[g][o] \in Started
          /\ loop'[g][o] \in Calling /\ active[g][id[o]] # o => due'[g][o]
    BY <1>1, <1>2, <2>4 DEF Routing, Registry, TakenAreDue, Started, Calling
  <2>6. /\ loop'["speaker"][s] = loop["speaker"][s] /\ loop'["router"][s] = "open"
        /\ wire'["speaker"][s] = "none" /\ wire'["router"][s] = frame
    BY <1>1, <2>4
  <2>7. InStep(s)'
    BY <1>1, <2>2, <2>6 DEF Carried, InStep
  <2>8. Whole(s)'
    BY <1>1, <2>2, <2>3, <2>6 DEF Carried, Whole, Count, Own
  <2>9. Told(s)' /\ Ended(s)'
    BY <1>1, <2>2, <2>6 DEF Carried, Told, Ended, Unended, Own, Hops
  <2>10. \A o \in Streams \ {s} :
          /\ \A g \in Hops : loop'[g][o] = loop[g][o] /\ wire'[g][o] = wire[g][o]
          /\ sent'[o] = sent[o] /\ sender'[o] = sender[o]
          /\ worker'[o] = worker[o] /\ kept'[o] = kept[o]
    BY <1>1, <2>4
  <2>11. \A o \in Streams : loop'["speaker"][o] = loop["speaker"][o]
    BY <1>1, <2>4
  <2>12. Carried(s)'
    BY <2>7, <2>8, <2>9 DEF Carried
  <2> QED
    BY <1>1, <2>3, <2>5, <2>10, <2>11, <2>12, MoveRouting
<1>5. CASE RelayResult(s)
  <2>1. linked[id[s]] = s
    BY <1>1, <1>5, RelaysItself DEF RelayResult, Received, Started
  <2>2. /\ wire["speaker"][s] = "RESULT" /\ Abort("router", s)
        /\ loop' = [loop EXCEPT !["router"][s] = "returned"]
        /\ wire' = [wire EXCEPT !["speaker"][s] = "none"]
    BY <1>5, <2>1 DEF RelayResult, Received, Returns, Abort
  <2>3. /\ Distinct' /\ \A g \in Hops, i \in Ids : Shut(g, i) => Shut(g, i)'
        /\ Shut("router", id[s])'
        /\ \A g \in Hops, i \in Ids :
             active'[g][i] = IF g = "router" /\ i = id[s] THEN None ELSE active[g][i]
        /\ \A i \in Ids : /\ linked'[i] = IF i = id[s] THEN None ELSE linked[i]
                          /\ buffer'[i] = buffer[i]
    BY <1>1, <1>2, <2>2, AbortEffect DEF Routing
  <2>4. \A g \in Hops, o \in Streams :
          /\ loop'[g][o] = IF g = "router" /\ o = s THEN "returned" ELSE loop[g][o]
          /\ wire'[g][o] = IF g = "speaker" /\ o = s THEN "none" ELSE wire[g][o]
    BY <2>2 DEF Routing, Shape, LoopTyped
  <2>5. Registry'
    <3>1. ASSUME NEW g \in Hops, NEW i \in Ids
          PROVE  active'[g][i] = active[g][i] \/ (active'[g][i] = None /\ Shut(g, i)')
      <4>1. CASE g = "router" /\ i = id[s]
        <5>1. PICK j \in Ids : j = id[s] /\ id'[s] = j
          BY <1>1
        <5>2. Shut("router", j)'
          BY <2>3, <5>1 DEF Shut, InClosed
        <5> QED
          BY <2>3, <4>1, <5>1, <5>2
      <4>2. CASE ~(g = "router" /\ i = id[s])
        BY <2>3, <4>2
      <4> QED
        BY <4>1, <4>2
    <3>2. ASSUME NEW g \in Hops, NEW o \in Streams
          PROVE  /\ \/ loop'[g][o] \notin Started /\ active'[g][id[o]] # o
                    \/ loop'[g][o] \in Started /\ loop[g][o] \in Started
                 /\ loop'[g][o] \in Calling /\ active'[g][id[o]] # o => due'[g][o]
      <4>1. id[o] \in Ids /\ o # None
        BY Constants DEF Routing, Shape, ClientTyped
      <4>2. active[g][id[o]] = o => loop[g][o] \in Started
        BY <4>1 DEF Routing, Registry, HoldersStarted
      <4>3. CASE g = "router" /\ o = s
        BY <1>1, <2>3, <2>4, <4>1, <4>3 DEF Started, Calling
      <4>4. CASE ~(g = "router" /\ o = s)
        <5>1. active[g][id[o]] = o <=> active'[g][id[o]] = o
          BY <1>2, <2>3, <4>1, <4>4
        <5> QED
          BY <1>1, <2>4, <4>2, <4>4, <5>1 DEF Routing, Registry, TakenAreDue
      <4> QED
        BY <4>3, <4>4
    <3> QED
      BY <1>1, <2>3, <3>1, <3>2, RegistryKeeps DEF Routing
  <2>6. Linked'
    <3> SUFFICES ASSUME NEW i \in Ids, linked'[i] # None
                 PROVE  active'["router"][i] = linked'[i] /\ loop'["speaker"][linked'[i]] # "none"
      BY DEF Linked
    <3>1. linked'[i] = linked[i] /\ i # id[s] /\ linked[i] \in Streams
      BY <2>3 DEF Routing, Shape, SinkTyped
    <3>2. active["router"][i] = linked[i] /\ loop["speaker"][linked[i]] # "none"
      BY <3>1 DEF Routing, Linked
    <3> QED
      BY <1>1, <2>3, <2>4, <3>1, <3>2
  <2>7. Buffered'
    <3>1. \A j \in Ids : buffer[j].of \in Streams \cup {None}
      BY DEF Routing, Shape, SinkTyped, Buffers
    <3> QED
      BY <1>1, <2>3, <2>4, <3>1 DEF Routing, Buffered
  <2>8. ASSUME NEW o \in Streams \ {s} PROVE Carried(o)'
    <3>1. id[o] \in Ids
      BY DEF Routing, Shape, ClientTyped
    <3> QED
      BY <1>1, <2>3, <2>4, <3>1, OthersStay
  <2>9. /\ loop'["speaker"][s] = loop["speaker"][s] /\ loop'["router"][s] = "returned"
        /\ wire'["speaker"][s] = "none" /\ wire'["router"][s] = wire["router"][s]
        /\ active'["speaker"][id[s]] = active["speaker"][id[s]] /\ buffer'[id[s]] = buffer[id[s]]
    BY <1>1, <2>3, <2>4
  <2>10. InStep(s)' /\ Whole(s)'
    BY <1>1, <2>2, <2>9 DEF Carried, InStep, Whole, Count, Own
  <2>11. Told(s)' /\ Ended(s)'
    BY <1>1, <2>2, <2>9 DEF Carried, Told, Ended, Unended, Own, Hops
  <2> QED
    BY <2>5, <2>6, <2>7, <2>8, <2>10, <2>11 DEF Routing, Carried
<1> QED
  BY <1>3, <1>4, <1>5 DEF Relay

(* The sink takes what it computed for the recording it computed it for.   *)
LEMMA SinkRouting ==
  ASSUME Routing, Shape', IdsAreKept, NEW s \in Streams, Sink(s)
  PROVE  Routing'
<1>1. /\ id' = id /\ sent' = sent /\ sender' = sender /\ due' = due /\ wire' = wire
      /\ linked' = linked /\ buffer' = buffer
      /\ id[s] \in Ids /\ s # None /\ Carried(s) /\ "router" \in Hops /\ "speaker" \in Hops
      /\ sent[s] \in Nat
  BY Constants DEF Sink, Compute, Store, Returns, clientVars, registryVars, Routing, Shape,
                   ClientTyped, Hops
<1>2. CASE Compute(s)
  <2>1. UNCHANGED <<active, closed, loop, kept>>
    BY <1>2 DEF Compute, registryVars
  <2>2. /\ worker[s].stage = "computing"
        /\ \/ worker'[s].stage = "computed" /\ worker'[s].chunks = worker[s].chunks
           \/ worker'[s].stage = "none"
        /\ \A o \in Streams \ {s} : worker'[o] = worker[o]
    BY <1>2 DEF Compute, Routing, Shape, WorkTyped, Workers, NoWorker
  <2>3. InStep(s)' /\ Told(s)'
    BY <1>1, <2>1 DEF Carried, InStep, Told
  <2>4. Ended(s)'
    BY <1>1, <2>1, <2>2 DEF Carried, Ended, Unended, Own
  <2>5. Whole(s)'
    BY <1>1, <2>1 DEF Carried, Whole, Count, Own
  <2>6. Carried(s)'
    BY <2>3, <2>4, <2>5 DEF Carried
  <2>7. \A g \in Hops, o \in Streams :
          loop'[g][o] \in Calling /\ active[g][id[o]] # o => due'[g][o]
    BY <1>1, <2>1 DEF Routing, Registry, TakenAreDue
  <2> QED
    BY <1>1, <2>1, <2>2, <2>6, <2>7, MoveRouting
<1>3. CASE Store(s)
  <2>1. /\ worker[s].stage = "computed" /\ loop["speaker"][s] = "ending" /\ ~due["speaker"][s]
        /\ kept' = [kept EXCEPT ![s] = worker[s].chunks]
        /\ worker' = [worker EXCEPT ![s] = NoWorker]
        /\ active["speaker"][id[s]] = s /\ Finish("speaker", s)
        /\ loop' = [loop EXCEPT !["speaker"][s] = "returned"]
    BY <1>3 DEF Store, Returns, Holds
  <2>2. /\ Distinct' /\ Shut("speaker", id[s])'
        /\ \A g \in Hops, i \in Ids : Shut(g, i) => Shut(g, i)'
        /\ \A g \in Hops, i \in Ids :
             active'[g][i] = IF g = "speaker" /\ i = id[s] THEN None ELSE active[g][i]
    BY <1>1, <2>1, FinishEffect DEF Routing
  <2>3. \A g \in Hops, o \in Streams :
          loop'[g][o] = IF g = "speaker" /\ o = s THEN "returned" ELSE loop[g][o]
    BY <2>1 DEF Routing, Shape, LoopTyped
  <2>4. /\ kept'[s] = Own(s, sent[s]) /\ kept'[s] # None /\ ~Unended(s)
        /\ worker'[s].stage = "none"
        /\ \A o \in Streams \ {s} : worker'[o] = worker[o] /\ kept'[o] = kept[o]
    <3>1. worker[s].chunks = Own(s, sent[s]) /\ ~Unended(s)
      BY <1>1, <2>1 DEF Carried, Ended
    <3>2. Own(s, sent[s]) # None
      BY <1>1, OwnGrows
    <3> QED
      BY <2>1, <3>1, <3>2 DEF Routing, Shape, WorkTyped, NoWorker
  <2>5. Registry'
    <3>1. ASSUME NEW g \in Hops, NEW i \in Ids
          PROVE  active'[g][i] = active[g][i] \/ (active'[g][i] = None /\ Shut(g, i)')
      <4>1. CASE g = "speaker" /\ i = id[s]
        <5>1. PICK j \in Ids : j = id[s] /\ id'[s] = j
          BY <1>1
        <5>2. Shut("speaker", j)'
          BY <2>2, <5>1 DEF Shut, InClosed
        <5> QED
          BY <2>2, <4>1, <5>1, <5>2
      <4>2. CASE ~(g = "speaker" /\ i = id[s])
        BY <2>2, <4>2
      <4> QED
        BY <4>1, <4>2
    <3>2. ASSUME NEW g \in Hops, NEW o \in Streams
          PROVE  /\ \/ loop'[g][o] \notin Started /\ active'[g][id[o]] # o
                    \/ loop'[g][o] \in Started /\ loop[g][o] \in Started
                 /\ loop'[g][o] \in Calling /\ active'[g][id[o]] # o => due'[g][o]
      <4>1. id[o] \in Ids /\ o # None
        BY Constants DEF Routing, Shape, ClientTyped
      <4>2. active[g][id[o]] = o => loop[g][o] \in Started
        BY <4>1 DEF Routing, Registry, HoldersStarted
      <4>3. CASE g = "speaker" /\ o = s
        BY <1>1, <2>2, <2>3, <4>1, <4>3 DEF Started, Calling
      <4>4. CASE ~(g = "speaker" /\ o = s)
        <5>1. active[g][id[o]] = o <=> active'[g][id[o]] = o
          BY <2>1, <2>2, <4>1, <4>4
        <5> QED
          BY <1>1, <2>3, <4>2, <4>4, <5>1 DEF Routing, Registry, TakenAreDue
      <4> QED
        BY <4>3, <4>4
    <3> QED
      BY <1>1, <2>2, <3>1, <3>2, RegistryKeeps DEF Routing
  <2>6. Linked'
    <3> SUFFICES ASSUME NEW i \in Ids, linked[i] # None
                 PROVE  active'["router"][i] = linked[i] /\ loop'["speaker"][linked[i]] # "none"
      BY <1>1 DEF Linked
    <3>1. linked[i] \in Streams
      BY DEF Routing, Shape, SinkTyped
    <3>2. active["router"][i] = linked[i] /\ loop["speaker"][linked[i]] # "none"
      BY DEF Routing, Linked
    <3> QED
      BY <1>1, <2>2, <2>3, <3>1, <3>2
  <2>7. Buffered'
    <3> SUFFICES ASSUME NEW i \in Ids, buffer[i].of # None
                 PROVE  /\ active'["speaker"][i] = buffer[i].of
                        /\ loop'["speaker"][buffer[i].of] = "open"
      BY <1>1 DEF Buffered
    <3>1. buffer[i].of \in Streams
      BY DEF Routing, Shape, SinkTyped, Buffers
    <3>2. active["speaker"][i] = buffer[i].of /\ loop["speaker"][buffer[i].of] = "open"
      BY DEF Routing, Buffered
    <3>3. buffer[i].of # s /\ i # id[s]
      BY <2>1, <3>2
    <3> QED
      BY <1>1, <2>2, <2>3, <3>1, <3>2, <3>3
  <2>8. ASSUME NEW o \in Streams \ {s} PROVE Carried(o)'
    <3>1. id[o] \in Ids /\ o # None
      BY Constants DEF Routing, Shape, ClientTyped
    <3> QED
      BY <1>1, <2>2, <2>3, <2>4, <3>1, OthersStay
  <2>9. loop'["speaker"][s] = "returned" /\ loop'["router"][s] = loop["router"][s]
    BY <1>1, <2>3
  <2>10. InStep(s)' /\ Whole(s)'
    BY <1>1, <2>1, <2>9 DEF Carried, InStep, Whole
  <2>11. Told(s)' /\ Ended(s)'
    BY <1>1, <2>4 DEF Carried, Told, Ended, Unended, Own
  <2> QED
    BY <2>5, <2>6, <2>7, <2>8, <2>10, <2>11 DEF Routing, Carried
<1> QED
  BY <1>2, <1>3 DEF Sink

(* The sender takes its result, or leaves, and touches nothing else.       *)
LEMMA ClientRouting ==
  ASSUME Routing, Shape', IdsAreKept, NEW s \in Streams, Client(s)
  PROVE  Routing'
<1>1. PICK outcome \in {"result", "failed"} :
        /\ HangUp(s, outcome) /\ sender[s] \in {"sending", "ending"}
        /\ outcome = "result" => wire["router"][s] = "RESULT" /\ sender[s] = "ending"
  BY DEF Client, TakeResult, GiveUp
<1>2. /\ UNCHANGED <<id, sent, active, closed, due, linked, buffer, worker, kept, loop>>
      /\ sender' = [sender EXCEPT ![s] = outcome]
      /\ Carried(s) /\ "router" \in Hops /\ "speaker" \in Hops
  BY <1>1 DEF HangUp, registryVars, sinkVars, Routing, Hops
<1>3. \A g \in Hops, o \in Streams :
        \/ wire'[g][o] = wire[g][o]
        \/ g = "router" /\ o = s /\ wire'[g][o] = "none"
  <2>1. \/ wire' = [wire EXCEPT !["router"][s] = "none"]
        \/ wire' = wire
    BY <1>1 DEF HangUp
  <2> QED
    BY <2>1 DEF Routing, Shape, LoopTyped, Hops
<1>4. sender'[s] = outcome /\ \A o \in Streams \ {s} : sender'[o] = sender[o]
  BY <1>2 DEF Routing, Shape, ClientTyped
<1>5. wire'["speaker"][s] = wire["speaker"][s]
  BY <1>2, <1>3
<1>6. InStep(s)'
  BY <1>2, <1>5 DEF Carried, InStep
<1>7. Whole(s)'
  BY <1>2, <1>5 DEF Carried, Whole, Count, Own
<1>8. Ended(s)'
  BY <1>1, <1>2, <1>4, <1>5 DEF Carried, Ended, Unended, Own
<1>9. Told(s)'
  BY <1>1, <1>2, <1>3, <1>4 DEF Carried, Told, Hops
<1>10. Carried(s)'
  BY <1>6, <1>7, <1>8, <1>9 DEF Carried
<1>11. \A g \in Hops, o \in Streams :
         loop'[g][o] \in Calling /\ active[g][id[o]] # o => due'[g][o]
  BY <1>2 DEF Routing, Registry, TakenAreDue
<1> QED
  BY <1>2, <1>3, <1>4, <1>10, <1>11, MoveRouting

(* A server that starts again has nothing active, and no loop that was     *)
(* there goes on.                                                          *)
LEMMA RestartRouting ==
  ASSUME Routing, Shape', NEW h \in Hops, Restart(h)
  PROVE  Routing'
<1>1. /\ id' = id /\ sent' = sent /\ sender' = sender /\ kept' = kept
      /\ "router" \in Hops /\ "speaker" \in Hops
  BY DEF Restart, Hops
<1>2. \A g \in Hops, o \in Streams :
        /\ loop'[g][o] = IF g = h /\ loop[g][o] # "none" THEN "over" ELSE loop[g][o]
        /\ wire'[g][o] = IF g = h /\ loop[g][o] # "none" THEN "none" ELSE wire[g][o]
        /\ due'[g][o] = IF g = h THEN FALSE ELSE due[g][o]
  BY DEF Restart, Routing, Shape, LoopTyped
<1>3. /\ \A g \in Hops, i \in Ids : active'[g][i] = IF g = h THEN None ELSE active[g][i]
      /\ \A g \in Hops : closed'[g] = IF g = h THEN <<>> ELSE closed[g]
  BY DEF Restart, Routing, Shape, RegistryTyped
<1>4. /\ \A i \in Ids : linked'[i] = IF h = "router" THEN None ELSE linked[i]
      /\ \A i \in Ids : buffer'[i] = IF h = "speaker" THEN NoBuffer ELSE buffer[i]
      /\ \A o \in Streams : worker'[o] = IF h = "speaker" THEN NoWorker ELSE worker[o]
  BY DEF Restart, Hops
<1>5. Registry'
  <2>1. Distinct'
    BY <1>3 DEF Routing, Registry, Distinct
  <2>2. HoldersStarted'
    <3> SUFFICES ASSUME NEW g \in Hops, NEW i \in Ids, active'[g][i] # None
                 PROVE  id[active'[g][i]] = i /\ loop'[g][active'[g][i]] \in Started
      BY <1>1 DEF HoldersStarted
    <3>1. g # h /\ active'[g][i] = active[g][i]
      BY <1>3
    <3>2. PICK x \in Streams : x = active[g][i]
      BY <3>1 DEF Routing, Shape, RegistryTyped
    <3>3. id[x] = i /\ loop[g][x] \in Started
      BY <3>1, <3>2, Constants DEF Routing, Registry, HoldersStarted
    <3>4. loop'[g][x] = loop[g][x]
      BY <1>2, <3>1
    <3> QED
      BY <3>1, <3>2, <3>3, <3>4
  <2>3. ASSUME NEW g \in Hops, NEW s \in Streams, loop'[g][s] \in Started
        PROVE  /\ g # h /\ loop'[g][s] = loop[g][s] /\ active'[g][id[s]] = active[g][id[s]]
               /\ closed'[g] = closed[g] /\ due'[g][s] = due[g][s]
    <3>1. id[s] \in Ids
      BY DEF Routing, Shape, ClientTyped
    <3> QED
      BY <1>2, <1>3, <2>3, <3>1 DEF Started, Calling
  <2>4. StartedHold'
    BY <1>1, <2>3 DEF Routing, Registry, StartedHold, Shut, InClosed, Unshared
  <2>5. TakenAreDue'
    BY <1>1, <2>3 DEF Routing, Registry, TakenAreDue, Started
  <2> QED
    BY <2>1, <2>2, <2>4, <2>5 DEF Registry
<1>6. Linked'
  <2> SUFFICES ASSUME NEW i \in Ids, linked'[i] # None
               PROVE  active'["router"][i] = linked'[i] /\ loop'["speaker"][linked'[i]] # "none"
    BY DEF Linked
  <2>1. h # "router" /\ linked'[i] = linked[i]
    BY <1>4
  <2>2. PICK x \in Streams : x = linked[i]
    BY <2>1 DEF Routing, Shape, SinkTyped
  <2>3. active["router"][i] = x /\ loop["speaker"][x] # "none"
    BY <2>1, <2>2 DEF Routing, Linked
  <2>4. active'["router"][i] = x
    BY <1>1, <1>3, <2>1, <2>3
  <2>5. loop'["speaker"][x] # "none"
    BY <1>1, <1>2, <2>3
  <2> QED
    BY <2>1, <2>2, <2>4, <2>5
<1>7. Buffered'
  <2> SUFFICES ASSUME NEW i \in Ids, buffer'[i].of # None
               PROVE  /\ active'["speaker"][i] = buffer'[i].of
                      /\ loop'["speaker"][buffer'[i].of] = "open"
    BY DEF Buffered
  <2>1. h # "speaker" /\ buffer'[i] = buffer[i]
    BY <1>4 DEF NoBuffer
  <2>2. PICK x \in Streams : x = buffer[i].of
    BY <2>1 DEF Routing, Shape, SinkTyped, Buffers
  <2>3. active["speaker"][i] = x /\ loop["speaker"][x] = "open"
    BY <2>1, <2>2 DEF Routing, Buffered
  <2>4. active'["speaker"][i] = x
    BY <1>1, <1>3, <2>1, <2>3
  <2>5. loop'["speaker"][x] = "open"
    BY <1>1, <1>2, <2>1, <2>3
  <2> QED
    BY <2>1, <2>2, <2>4, <2>5
<1>8. ASSUME NEW s \in Streams PROVE Carried(s)'
  <2>1. Carried(s) /\ id[s] \in Ids
    BY DEF Routing, Shape, ClientTyped
  <2>2. CASE h = "speaker"
    <3>1. /\ loop'["router"][s] = loop["router"][s] /\ wire'["router"][s] = wire["router"][s]
          /\ worker'[s].stage = "none" /\ wire'["speaker"][s] = "none"
          /\ loop'["speaker"][s] = IF loop["speaker"][s] = "none" THEN "none" ELSE "over"
      <4>1. worker'[s].stage = "none"
        BY <1>4, <2>2 DEF NoWorker
      <4>2. loop'["router"][s] = loop["router"][s] /\ wire'["router"][s] = wire["router"][s]
        BY <1>1, <1>2, <2>2
      <4>3. loop'["speaker"][s] = IF loop["speaker"][s] = "none" THEN "none" ELSE "over"
        BY <1>1, <1>2, <2>2
      <4>4. wire'["speaker"][s] = "none"
        BY <1>1, <1>2, <2>1, <2>2 DEF Carried, InStep
      <4> QED
        BY <4>1, <4>2, <4>3, <4>4
    <3>2. InStep(s)' /\ Whole(s)'
      BY <1>1, <2>1, <3>1 DEF Carried, InStep, Whole
    <3>3. Ended(s)' /\ Told(s)'
      BY <1>1, <2>1, <3>1 DEF Carried, Ended, Unended, Told, Own, Hops
    <3> QED
      BY <3>2, <3>3 DEF Carried
  <2>3. CASE h = "router"
    <3>1. /\ loop'["speaker"][s] = loop["speaker"][s] /\ wire'["speaker"][s] = wire["speaker"][s]
          /\ worker'[s] = worker[s] /\ loop'["router"][s] \in {"none", "over"}
          /\ wire'["router"][s] \in {wire["router"][s], "none"}
          /\ buffer'[id[s]] = buffer[id[s]]
          /\ active'["speaker"][id[s]] = active["speaker"][id[s]]
      <4>1. loop'["speaker"][s] = loop["speaker"][s] /\ wire'["speaker"][s] = wire["speaker"][s]
        BY <1>1, <1>2, <2>3
      <4>2. loop'["router"][s] \in {"none", "over"}
        BY <1>1, <1>2, <2>3
      <4>3. wire'["router"][s] \in {wire["router"][s], "none"}
        BY <1>1, <1>2, <2>3
      <4>4. worker'[s] = worker[s] /\ buffer'[id[s]] = buffer[id[s]]
        BY <1>4, <2>1, <2>3
      <4>5. active'["speaker"][id[s]] = active["speaker"][id[s]]
        BY <1>1, <1>3, <2>1, <2>3
      <4> QED
        BY <4>1, <4>2, <4>3, <4>4, <4>5
    <3>2. InStep(s)'
      BY <1>1, <2>1, <3>1 DEF Carried, InStep
    <3>3. Whole(s)'
      BY <1>1, <2>1, <3>1 DEF Carried, Whole, Count, Own
    <3>4. Ended(s)' /\ Told(s)'
      BY <1>1, <2>1, <3>1 DEF Carried, Ended, Unended, Told, Own, Hops
    <3> QED
      BY <3>2, <3>3, <3>4 DEF Carried
  <2> QED
    BY <2>2, <2>3 DEF Hops
<1> QED
  BY <1>5, <1>6, <1>7, <1>8 DEF Routing

-----------------------------------------------------------------------------
LEMMA InitRouting == Init => Routing
<1> SUFFICES ASSUME Init PROVE Routing
  OBVIOUS
<1>1. Registry
  BY DEF Init, Registry, Distinct, HoldersStarted, StartedHold, TakenAreDue, Started, Calling
<1>2. Linked /\ Buffered
  BY DEF Init, Linked, Buffered, NoBuffer
<1>3. ASSUME NEW s \in Streams PROVE Carried(s)
  <2>1. \A h \in Hops : loop[h][s] = "none" /\ wire[h][s] = "none"
    BY DEF Init
  <2>2. sender[s] = "idle" /\ sent[s] = 0 /\ worker[s].stage = "none" /\ kept[s] = None
    BY DEF Init, NoWorker
  <2> QED
    BY <2>1, <2>2 DEF Carried, InStep, Whole, Ended, Told, Hops
<1> QED
  BY <1>1, <1>2, <1>3, InitShape DEF Routing

(* An id is chosen once, so what is assumed of them stays true.            *)
LEMMA NextRouting == (IdsAreKept => Routing) /\ Shape /\ [Next]_vars => (IdsAreKept => Routing)'
<1> SUFFICES ASSUME IdsAreKept => Routing, Shape, [Next]_vars, IdsAreKept'
             PROVE  Routing'
  OBVIOUS
<1>1. id' = id
  <2>1. ASSUME NEW s \in Streams, Client(s) \/ Relay(s) \/ Sink(s) PROVE id' = id
    BY <2>1 DEF Client, TakeResult, GiveUp, HangUp, Relay, RelayConnect, RelayAnswer,
                RelayResult, Sink, Compute, Store, clientVars
  <2>2. ASSUME NEW h \in Hops, NEW s \in Streams, Receive(h, s) PROVE id' = id
    BY <2>2 DEF Receive, ReceiveStart, ReceiveChunk, ReceiveEnd
  <2>3. ASSUME NEW h \in Hops, NEW s \in Streams, Answer(h, s) \/ Clock(h, s) PROVE id' = id
    BY <2>3 DEF Answer, SendResult, CallFails, Disconnected, LoopTimesOut, Clock, Deadline,
                Expire, clientVars
  <2>4. ASSUME NEW h \in Hops, Restart(h) PROVE id' = id
    BY <2>4 DEF Restart
  <2> QED
    BY <2>1, <2>2, <2>3, <2>4 DEF Next, vars
<1>2. IdsAreKept /\ Routing
  BY <1>1 DEF IdsAreKept, Unshared
<1>3. Shape'
  BY NextShape
<1>4. CASE UNCHANGED vars
  BY <1>2, <1>3, <1>4
     DEF vars, Routing, Registry, Distinct, HoldersStarted, StartedHold, TakenAreDue, Shut,
         InClosed, Unshared, Linked, Buffered, Carried, InStep, Whole, Ended, Told, Count,
         Unended, Own
<1>5. ASSUME NEW h \in Hops, NEW s \in Streams, Receive(h, s) PROVE Routing'
  BY <1>2, <1>3, <1>5, StartRouting, ChunkRouting, EndRouting DEF Receive
<1>6. CASE Next
  BY <1>2, <1>3, <1>5, <1>6, ClientRouting, RelayRouting, SinkRouting, AnswerRouting,
     ClockRouting, RestartRouting DEF Next
<1> QED
  BY <1>4, <1>6

(* What Speaker-ID stores for a recording is every chunk that was sent of  *)
(* it, in order, and nothing of another's, although both registries route  *)
(* by the stream id alone (shared/audio_streaming.py:151-227); and no      *)
(* sender is told a result that was not stored.  That holds for senders    *)
(* that choose the same id as long as _closed remembers every id that was  *)
(* used, and without that when no two choose the same.                     *)
THEOREM RecordingsAreWhole == Spec => [](IdsAreKept => RecordingsArrive)
<1>1. Routing => RecordingsArrive
  BY DEF Routing, Carried, Ended, Told, Own, RecordingsArrive
<1>2. Spec => [](IdsAreKept => Routing)
  BY InitRouting, NextRouting, ShapeHolds, PTL DEF Spec
<1> QED
  BY <1>1, <1>2, PTL
=============================================================================
