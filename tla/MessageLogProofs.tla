-------------------------- MODULE MessageLogProofs --------------------------
(* Proofs about MessageLog, for any number of messages, any flush size, any capacity
   of the idMap, and without its bounds: only consented messages are stored, a buffered
   message is in exactly one place, Close drains, the idMap resolves the newest ids, and
   the whole implements MessageArchive.                                       *)
EXTENDS MessageLog, TLAPS, FiniteSetTheorems

-----------------------------------------------------------------------------
(* The inductive invariant.                                                  *)

(* A batch exists only while it is being written. *)
Batches ==
  /\ wpc # "write" => wbatch = << >>
  /\ lpc \notin {"write", "final"} => lbatch = << >>

(* The worker flushes at once when the buffer has reached its limit. *)
BufBound == wpc # "flush" => Len(buf) < FlushAt

(* A message on its way to the sink has not been recorded, is on its way once, and if
   it is not ephemeral it was stamped while logging was on.                   *)
Way(e) == e.kind # "deleted"
Fresh ==
  /\ recorded \subseteq 1 .. minted
  /\ \A i \in DOMAIN queue : Way(queue[i]) =>
       /\ queue[i].id \in 1 .. minted /\ queue[i].id \notin recorded
       /\ queue[i].kind = "message" => queue[i].id \in consent
  /\ \A i, j \in DOMAIN queue : Way(queue[i]) /\ Way(queue[j]) /\ queue[i].id = queue[j].id => i = j
  /\ wpc = "record" =>
       /\ cur.id \in 1 .. minted /\ cur.id \notin recorded /\ cur.id \in consent
       /\ \A i \in DOMAIN queue : Way(queue[i]) => queue[i].id # cur.id
Consented == recorded \subseteq consent

(* The five places of a recorded message. *)
Once(s) == \A i, j \in DOMAIN s : s[i] = s[j] => i = j
Apart(P, Q) == P \cap Q = {}
Placed ==
  /\ Once(buf) /\ Once(wbatch) /\ Once(lbatch)
  /\ Apart(Elems(buf), Elems(wbatch)) /\ Apart(Elems(buf), Elems(lbatch))
  /\ Apart(Elems(wbatch), Elems(lbatch))
  /\ Apart(rows, Elems(buf) \cup Elems(wbatch) \cup Elems(lbatch))
  /\ Apart(gone, Elems(buf) \cup Elems(wbatch) \cup Elems(lbatch) \cup rows)
  /\ recorded = Elems(buf) \cup Elems(wbatch) \cup Elems(lbatch) \cup rows \cup gone

LogInv == TypeOK /\ Batches /\ BufBound /\ Fresh /\ Consented /\ Placed

(* The shutdown: the worker rests once the sink is closed, and the loop takes its last
   batch only then.                                                           *)
Closed == closing \in {"sink", "done"}
Draining ==
  /\ Closed => wpc = "idle" /\ queue = << >>
  /\ lpc \in {"final", "done"} => Closed /\ buf = << >>
  /\ closing = "done" => lpc = "done"

(* Where the idMap's ring keeps the ids that took a slot, and that no id holds two. *)
RingOrder ==
  LET n == Len(puts) IN
  IF n < IdCap
  THEN slot = n + 1 /\ \A i \in 1 .. IdCap : ring[i] = IF i <= n THEN puts[i] ELSE None
  ELSE \A i \in 1 .. IdCap :
         ring[i] = IF i < slot THEN puts[n - slot + 1 + i] ELSE puts[n - slot + 1 + i - IdCap]
Recent(i) == i > Len(puts) - IdCap
NewestOnce == \A i, j \in DOMAIN puts : Recent(i) /\ Recent(j) /\ puts[i] = puts[j] => i = j
IdInv == RingOrder /\ NewestOnce /\ RecentResolvable

-----------------------------------------------------------------------------
(* Sequences.                                                                *)

LEMMA TailFacts ==
  ASSUME NEW R, NEW q \in Seq(R), q # << >>
  PROVE  /\ 1 \in DOMAIN q /\ Head(q) = q[1] /\ Head(q) \in R
         /\ Tail(q) \in Seq(R)
         /\ \A i \in DOMAIN Tail(q) : i + 1 \in DOMAIN q /\ i \in Nat /\ i + 1 # 1 /\ Tail(q)[i] = q[i + 1]
OBVIOUS

LEMMA AppendFacts ==
  ASSUME NEW R, NEW q \in Seq(R), NEW e \in R
  PROVE  /\ Append(q, e) \in Seq(R) /\ Len(Append(q, e)) = Len(q) + 1
         /\ Append(q, e)[Len(q) + 1] = e
         /\ DOMAIN Append(q, e) = DOMAIN q \cup {Len(q) + 1} /\ Len(q) + 1 \notin DOMAIN q
         /\ \A i \in DOMAIN q : Append(q, e)[i] = q[i]
OBVIOUS

LEMMA ElemsAppend ==
  ASSUME NEW R, NEW q \in Seq(R), NEW e \in R PROVE Elems(Append(q, e)) = Elems(q) \cup {e}
BY AppendFacts DEF Elems

LEMMA EmptyFacts == Elems(<< >>) = {} /\ Once(<< >>)
BY DEF Elems, Once

LEMMA OnceAppend ==
  ASSUME NEW R, NEW q \in Seq(R), NEW e \in R, Once(q), e \notin Elems(q)
  PROVE  Once(Append(q, e))
BY AppendFacts DEF Once, Elems

(* How often a sequence without repetition holds a value. *)
LEMMA CountOnce ==
  ASSUME NEW R, NEW q \in Seq(R), Once(q), NEW m
  PROVE  Cardinality({i \in DOMAIN q : q[i] = m}) = IF m \in Elems(q) THEN 1 ELSE 0
<1>1. CASE m \in Elems(q)
  <2>1. PICK i \in DOMAIN q : q[i] = m
    BY <1>1 DEF Elems
  <2>2. {j \in DOMAIN q : q[j] = m} = {i}
    BY <2>1 DEF Once
  <2> QED
    BY <1>1, <2>2, FS_Singleton
<1>2. CASE m \notin Elems(q)
  <2>1. {j \in DOMAIN q : q[j] = m} = {}
    BY <1>2 DEF Elems
  <2> QED
    BY <1>2, <2>1, FS_EmptySet
<1> QED
  BY <1>1, <1>2

-----------------------------------------------------------------------------
(* Types.                                                                    *)

TyEngine ==
  /\ minted \in 0 .. Total /\ logging \in BOOLEAN /\ consent \subseteq Ids
  /\ ring \in [1 .. IdCap -> PlatformIds \cup {None}] /\ slot \in 1 .. IdCap
  /\ ids \in [PlatformIds -> Ids \cup {None}] /\ puts \in Seq(PlatformIds)
TyQueue == queue \in Seq(Event)
TySink ==
  /\ enabled \in BOOLEAN /\ buf \in Seq(Ids) /\ Len(buf) <= FlushAt
  /\ known \subseteq {ChannelOf[i] : i \in Ids}
TyWorker ==
  /\ wpc \in {"idle", "record", "mark", "flush", "write"} /\ cur \in Event /\ wbatch \in Seq(Ids)
TyLoop == lpc \in {"select", "write", "final", "done"} /\ lbatch \in Seq(Ids)
TyStore == rows \subseteq Ids /\ deleted \subseteq rows
TySweep == aged \in 0 .. Total /\ retain \in BOOLEAN
TyCtl == wants \in BOOLEAN /\ mpc \in {"idle", "sink", "discard", "retention"}
TyHistory == recorded \subseteq Ids /\ gone \subseteq Ids
TyClosing == closing \in {"no", "sweeper", "sink", "done"}
Typed ==
  /\ TyEngine /\ TyQueue /\ TySink /\ TyWorker /\ TyLoop
  /\ TyStore /\ TySweep /\ TyCtl /\ TyHistory /\ TyClosing

LEMMA TypedIsTypeOK == TypeOK <=> Typed
BY DEF TypeOK, Typed, TyEngine, TyQueue, TySink, TyWorker, TyLoop, TyStore, TySweep, TyCtl,
       TyHistory, TyClosing

LEMMA TypeFrame ==
  /\ TyEngine /\ UNCHANGED engineVars => TyEngine'
  /\ TyQueue /\ UNCHANGED queue => TyQueue'
  /\ TySink /\ UNCHANGED sinkVars => TySink'
  /\ TyWorker /\ UNCHANGED workerVars => TyWorker'
  /\ TyLoop /\ UNCHANGED loopVars => TyLoop'
  /\ TyStore /\ UNCHANGED storeVars => TyStore'
  /\ TySweep /\ UNCHANGED sweepVars => TySweep'
  /\ TyCtl /\ UNCHANGED ctlVars => TyCtl'
  /\ TyHistory /\ UNCHANGED history => TyHistory'
  /\ TyClosing /\ UNCHANGED closing => TyClosing'
<1>1. /\ TyEngine /\ UNCHANGED engineVars => TyEngine'
      /\ TyQueue /\ UNCHANGED queue => TyQueue'
  BY DEF TyEngine, TyQueue, engineVars
<1>2. /\ TySink /\ UNCHANGED sinkVars => TySink'
      /\ TyWorker /\ UNCHANGED workerVars => TyWorker'
      /\ TyLoop /\ UNCHANGED loopVars => TyLoop'
  BY DEF TySink, TyWorker, TyLoop, sinkVars, workerVars, loopVars
<1>3. /\ TyStore /\ UNCHANGED storeVars => TyStore'
      /\ TySweep /\ UNCHANGED sweepVars => TySweep'
      /\ TyCtl /\ UNCHANGED ctlVars => TyCtl'
      /\ TyHistory /\ UNCHANGED history => TyHistory'
      /\ TyClosing /\ UNCHANGED closing => TyClosing'
  BY DEF TyStore, TySweep, TyCtl, TyHistory, TyClosing, storeVars, sweepVars, ctlVars, history
<1> QED
  BY <1>1, <1>2, <1>3

LEMMA EmptyType == << >> \in Seq(Ids) /\ << >> \in Seq(Event) /\ Len(<< >>) <= FlushAt
<1>1. << >> \in Seq(Ids) /\ << >> \in Seq(Event)
  OBVIOUS
<1>2. Len(<< >>) <= FlushAt
  BY MessageLogAssumption
<1> QED
  BY <1>1, <1>2

LEMMA NextSlotIs ==
  ASSUME TyEngine PROVE NextSlot = IF slot = IdCap THEN 1 ELSE slot + 1
<1>1. slot \in 1 .. IdCap /\ IdCap \in Nat \ {0}
  BY MessageLogAssumption DEF TyEngine
<1>2. CASE slot = IdCap
  BY <1>1, <1>2 DEF NextSlot
<1>3. CASE slot < IdCap
  BY <1>1, <1>3 DEF NextSlot
<1> QED
  BY <1>1, <1>2, <1>3

LEMMA PutType ==
  ASSUME TyEngine, NEW p \in PlatformIds, NEW u \in Ids, Put(p, u)
  PROVE  /\ ring' \in [1 .. IdCap -> PlatformIds \cup {None}] /\ slot' \in 1 .. IdCap
         /\ ids' \in [PlatformIds -> Ids \cup {None}] /\ puts' \in Seq(PlatformIds)
<1>1. CASE ids[p] # None
  BY <1>1 DEF Put, TyEngine
<1>2. CASE ids[p] = None
  <2>1. slot' \in 1 .. IdCap
    BY <1>2, NextSlotIs, MessageLogAssumption DEF Put, TyEngine
  <2>2. puts' \in Seq(PlatformIds)
    BY <1>2 DEF Put, TyEngine
  <2>3. ids' \in [PlatformIds -> Ids \cup {None}] /\ ring' \in [1 .. IdCap -> PlatformIds \cup {None}]
    BY <1>2 DEF Put, TyEngine
  <2> QED
    BY <2>1, <2>2, <2>3
<1> QED
  BY <1>1, <1>2

LEMMA TypeIngest ==
  ASSUME Typed, NEW p \in PlatformIds, IngestMessage(p) \/ IngestDeletion(p) PROVE Typed'
<1> USE DEF Typed
<1>1. CASE IngestMessage(p)
  <2>1. minted + 1 \in Ids /\ minted' \in 0 .. Total
    BY <1>1, MessageLogAssumption DEF IngestMessage, TyEngine, Ids
  <2>2. [kind |-> Stamp(logging), id |-> minted + 1] \in Event
    BY <2>1 DEF Event, Stamp
  <2>3. TyQueue'
    BY <1>1, <2>2 DEF IngestMessage, TyQueue
  <2>4. consent' \subseteq Ids /\ logging' \in BOOLEAN
    BY <1>1, <2>1 DEF IngestMessage, TyEngine
  <2>5. TyEngine'
    BY <1>1, <2>1, <2>4, PutType DEF IngestMessage, TyEngine
  <2> QED
    BY <1>1, <2>3, <2>5, TypeFrame DEF IngestMessage
<1>2. CASE IngestDeletion(p)
  <2>1. [kind |-> "deleted", id |-> ids[p]] \in Event
    BY DEF Event, TyEngine
  <2>2. TyQueue'
    BY <1>2, <2>1 DEF IngestDeletion, TyQueue
  <2> QED
    BY <1>2, <2>2, TypeFrame DEF IngestDeletion
<1> QED
  BY <1>1, <1>2

LEMMA TypeSwitch ==
  ASSUME Typed, Switch \/ \E on \in BOOLEAN : Activate(on) PROVE Typed'
<1> USE DEF Typed
<1>1. CASE \E on \in BOOLEAN : Activate(on)
  <2>1. TyEngine' /\ TyCtl'
    BY <1>1 DEF Activate, TyEngine, TyCtl
  <2> QED
    BY <1>1, <2>1, TypeFrame DEF Activate
<1>2. CASE SetEnabled
  <2>1. TySink' /\ TyCtl'
    BY <1>2 DEF SetEnabled, TySink, TyCtl
  <2> QED
    BY <1>2, <2>1, TypeFrame DEF SetEnabled
<1>3. CASE Discard
  <2>1. TySink' /\ TyCtl' /\ TyHistory'
    BY <1>3, MessageLogAssumption DEF Discard, TySink, TyCtl, TyHistory, Elems
  <2> QED
    BY <1>3, <2>1, TypeFrame DEF Discard
<1>4. CASE SetRetention
  <2>1. TySweep' /\ TyCtl'
    BY <1>4 DEF SetRetention, TySweep, TyCtl
  <2> QED
    BY <1>4, <2>1, TypeFrame DEF SetRetention
<1> QED
  BY <1>1, <1>2, <1>3, <1>4 DEF Switch

LEMMA ElemsType == ASSUME NEW q \in Seq(Ids) PROVE Elems(q) \subseteq Ids
BY DEF Elems

LEMMA AppendRowsType ==
  ASSUME TyStore, TyHistory, NEW q \in Seq(Ids), AppendRows(q), UNCHANGED recorded
  PROVE  TyStore' /\ TyHistory'
BY ElemsType DEF TyStore, TyHistory, AppendRows

LEMMA TypeWorker ==
  ASSUME Typed, BufBound, Fresh, Worker PROVE Typed'
<1> USE DEF Typed
<1>1. CASE ConsumeIgnores
  <2>1. TyQueue'
    BY <1>1, TailFacts DEF ConsumeIgnores, TyQueue
  <2> QED
    BY <1>1, <2>1, TypeFrame DEF ConsumeIgnores
<1>2. CASE Consume
  <2>1. TyQueue' /\ Head(queue) \in Event
    BY <1>2, TailFacts DEF Consume, TyQueue
  <2>2. TyWorker'
    BY <1>2, <2>1 DEF Consume, TyWorker
  <2> QED
    BY <1>2, <2>1, <2>2, TypeFrame DEF Consume
<1>3. CASE Record
  <2>1. cur.id \in Ids
    BY <1>3 DEF Record, Fresh, TyEngine, Ids
  <2>2. Append(buf, cur.id) \in Seq(Ids) /\ Len(Append(buf, cur.id)) = Len(buf) + 1 /\ Len(buf) \in Nat
    BY <2>1 DEF TySink
  <2>3. Len(buf) < FlushAt
    BY <1>3 DEF Record, BufBound
  <2>4. TySink'
    BY <1>3, <2>1, <2>2, <2>3, MessageLogAssumption DEF Record, TySink
  <2>5. TyWorker' /\ TyHistory'
    BY <1>3, <2>1 DEF Record, TyWorker, TyHistory
  <2> QED
    BY <1>3, <2>4, <2>5, TypeFrame DEF Record
<1>4. CASE MarkDeleted
  <2>1. TyStore' /\ TyWorker'
    BY <1>4 DEF MarkDeleted, TyStore, TyWorker
  <2> QED
    BY <1>4, <2>1, TypeFrame DEF MarkDeleted
<1>5. CASE WorkerTakes
  <2>1. TySink' /\ TyWorker'
    <3>1. wbatch' = buf /\ buf' = << >> /\ enabled' = enabled /\ known' = known /\ cur' = cur
      BY <1>5 DEF WorkerTakes, AfterTake
    <3>2. wpc' \in {"idle", "write"}
      BY <1>5 DEF WorkerTakes
    <3> QED
      BY <3>1, <3>2, MessageLogAssumption DEF TySink, TyWorker
  <2> QED
    BY <1>5, <2>1, TypeFrame DEF WorkerTakes
<1>6. CASE WorkerWrites
  <2>1. TyWorker'
    BY <1>6 DEF WorkerWrites, TyWorker
  <2>2. TyStore' /\ TyHistory'
    BY <1>6, AppendRowsType DEF WorkerWrites, TyWorker
  <2> QED
    BY <1>6, <2>1, <2>2, TypeFrame DEF WorkerWrites
<1> QED
  BY <1>1, <1>2, <1>3, <1>4, <1>5, <1>6 DEF Worker

LEMMA TypeLoop ==
  ASSUME Typed, Loop PROVE Typed'
<1> USE DEF Typed
<1>1. CASE LoopTick \/ LoopQuit
  <2>1. TySink' /\ TyLoop'
    <3>1. lbatch' = buf /\ buf' = << >> /\ enabled' = enabled /\ known' = known
      BY <1>1 DEF LoopTick, LoopQuit, AfterTake
    <3>2. lpc' \in {"write", "done", "final"}
      BY <1>1 DEF LoopTick, LoopQuit
    <3> QED
      BY <3>1, <3>2, MessageLogAssumption DEF TySink, TyLoop
  <2> QED
    BY <1>1, <2>1, TypeFrame DEF LoopTick, LoopQuit
<1>2. CASE LoopWrites
  <2>1. TyLoop'
    BY <1>2 DEF LoopWrites, TyLoop
  <2>2. TyStore' /\ TyHistory'
    BY <1>2, AppendRowsType DEF LoopWrites, TyLoop
  <2> QED
    BY <1>2, <2>1, <2>2, TypeFrame DEF LoopWrites
<1> QED
  BY <1>1, <1>2 DEF Loop

LEMMA TypeRest ==
  ASSUME Typed, Sweep \/ Age \/ CloseSweeper \/ Shutdown \/ Restart \/ UNCHANGED vars PROVE Typed'
<1> USE DEF Typed
<1>1. CASE Sweep
  <2>1. TyStore' /\ TyHistory'
    BY <1>1 DEF Sweep, Swept, TyStore, TyHistory
  <2> QED
    BY <1>1, <2>1, TypeFrame DEF Sweep
<1>2. CASE Age
  <2>1. TySweep'
    BY <1>2 DEF Age, TySweep, TyEngine
  <2> QED
    BY <1>2, <2>1, TypeFrame DEF Age
<1>3. CASE CloseSweeper \/ Shutdown
  <2>1. TyClosing'
    BY <1>3 DEF CloseSweeper, Shutdown, CloseSink, CloseDone, TyClosing
  <2> QED
    BY <1>3, <2>1, TypeFrame DEF CloseSweeper, Shutdown, CloseSink, CloseDone
<1>4. CASE Restart
  <2>1. TyEngine'
    BY <1>4, MessageLogAssumption DEF Restart, TyEngine, TyCtl
  <2>2. TyQueue' /\ TyLoop'
    BY <1>4, EmptyType DEF Restart, TyQueue, TyLoop
  <2>5. TySink'
    BY <1>4, EmptyType DEF Restart, TySink
  <2>6. TySweep' /\ TyCtl'
    BY <1>4 DEF Restart, TySweep, TyCtl
  <2>3. TyWorker'
    BY <1>4 DEF Restart, TyWorker, Nothing, Event
  <2>4. TyHistory'
    BY <1>4, ElemsType DEF Restart, TyHistory, TySink, TyWorker, TyLoop
  <2> QED
    BY <1>4, <2>1, <2>2, <2>3, <2>4, <2>5, <2>6, TypeFrame DEF Restart
<1>5. CASE UNCHANGED vars
  BY <1>5, TypeFrame DEF vars
<1> QED
  BY <1>1, <1>2, <1>3, <1>4, <1>5

-----------------------------------------------------------------------------
(* Batches and the buffer's limit.                                           *)

LEMMA BatchesStep ==
  ASSUME Typed, Batches, BufBound, [Next]_vars PROVE Batches' /\ BufBound'
<1>0. FlushAt \in Nat \ {0} /\ Len(buf) \in Nat /\ Len(<< >>) = 0
  BY MessageLogAssumption DEF Typed, TySink
<1> USE DEF Batches, BufBound
<1>1. CASE UNCHANGED <<wpc, wbatch, lpc, lbatch, buf>>
  BY <1>1
<1>2. CASE Discard
  BY <1>0, <1>2 DEF Discard, workerVars, loopVars
<1>3. CASE Consume
  BY <1>3 DEF Consume, sinkVars, loopVars
<1>4. CASE Record
  <2>1. /\ wpc' = IF Len(buf) + 1 >= FlushAt THEN "flush" ELSE "idle"
        /\ UNCHANGED <<wbatch, lpc, lbatch>> /\ wpc = "record"
    BY <1>4 DEF Record, loopVars
  <2>2. Len(buf') = Len(buf) + 1
    BY <1>4 DEF Record, Typed, TySink
  <2>3. BufBound'
    BY <1>0, <2>1, <2>2
  <2> QED
    BY <2>1, <2>3
<1>5. CASE MarkDeleted
  BY <1>5 DEF MarkDeleted, sinkVars, loopVars
<1>6. CASE WorkerTakes
  <2>1. wbatch' = buf /\ buf' = << >> /\ UNCHANGED <<lpc, lbatch>>
    BY <1>6 DEF WorkerTakes, AfterTake, loopVars
  <2>2. wpc' = "write" \/ buf = << >>
    BY <1>6 DEF WorkerTakes
  <2> QED
    BY <1>0, <2>1, <2>2
<1>7. CASE WorkerWrites
  BY <1>7 DEF WorkerWrites, sinkVars, loopVars
<1>8. CASE LoopTick \/ LoopQuit
  <2>1. lbatch' = buf /\ buf' = << >> /\ UNCHANGED <<wpc, wbatch>>
    BY <1>8 DEF LoopTick, LoopQuit, AfterTake, workerVars
  <2>2. lpc' \in {"write", "final"} \/ buf = << >>
    BY <1>8 DEF LoopTick, LoopQuit
  <2> QED
    BY <1>0, <2>1, <2>2
<1>9. CASE LoopWrites
  BY <1>9 DEF LoopWrites, sinkVars, workerVars
<1>10. CASE Restart
  BY <1>0, <1>10 DEF Restart
<1>11. ASSUME NEW p \in PlatformIds, IngestMessage(p) \/ IngestDeletion(p)
       PROVE  UNCHANGED <<wpc, wbatch, lpc, lbatch, buf>>
  BY <1>11 DEF IngestMessage, IngestDeletion, sinkVars, workerVars, loopVars
<1>12. CASE \/ \E on \in BOOLEAN : Activate(on)
            \/ SetEnabled \/ SetRetention \/ ConsumeIgnores \/ Sweep \/ Age \/ CloseSweeper \/ Shutdown
            \/ UNCHANGED vars
  BY <1>1, <1>12 DEF Activate, SetEnabled, SetRetention, ConsumeIgnores, Sweep, Age, CloseSweeper, Shutdown,
                     CloseSink, CloseDone, vars, sinkVars, workerVars, loopVars
<1> QED
  BY <1>1, <1>2, <1>3, <1>4, <1>5, <1>6, <1>7, <1>8, <1>9, <1>10, <1>11, <1>12
     DEF Next, Switch, Worker, Loop, Finished

-----------------------------------------------------------------------------
(* Consent, and that no message reaches the buffer twice.                    *)

LEMMA FreshFrame ==
  ASSUME Fresh, Consented, UNCHANGED <<minted, consent, recorded, queue, cur>>, wpc' = wpc \/ wpc' # "record"
  PROVE  Fresh' /\ Consented'
BY DEF Fresh, Consented, Way

LEMMA FreshIngest ==
  ASSUME Typed, Fresh, Consented, NEW p \in PlatformIds, IngestMessage(p) \/ IngestDeletion(p)
  PROVE  Fresh' /\ Consented'
<1> DEFINE new == Len(queue) + 1
<1>0. queue \in Seq(Event) /\ minted \in Nat
  BY DEF Typed, TyQueue, TyEngine
<1>1. CASE IngestMessage(p)
  <2>1. minted' = minted + 1 /\ UNCHANGED <<recorded, wpc, cur>> /\ consent \subseteq consent'
    BY <1>1 DEF IngestMessage, history, workerVars
  <2> DEFINE e == [kind |-> Stamp(logging), id |-> minted + 1]
  <2>2. e \in Event /\ queue' = Append(queue, e)
    BY <1>1, MessageLogAssumption DEF IngestMessage, Event, Stamp, Typed, TyEngine, Ids
  <2>3. e.id = minted + 1 /\ (e.kind = "message" => minted + 1 \in consent')
    BY <1>1 DEF IngestMessage, Stamp
  <2> HIDE DEF e
  <2>4. /\ DOMAIN queue' = DOMAIN queue \cup {new} /\ new \notin DOMAIN queue
        /\ queue'[new] = e /\ \A i \in DOMAIN queue : queue'[i] = queue[i]
    BY <1>0, <2>2, AppendFacts
  <2>5. minted + 1 \notin recorded /\ minted + 1 \notin 1 .. minted /\ minted + 1 \in 1 .. minted + 1
        /\ 1 .. minted \subseteq 1 .. minted + 1
    BY <1>0 DEF Fresh
  <2> HIDE DEF new
  <2>6. Fresh'
    BY <2>1, <2>3, <2>4, <2>5 DEF Fresh, Way
  <2> QED
    BY <2>1, <2>6 DEF Consented
<1>2. CASE IngestDeletion(p)
  <2>1. UNCHANGED <<minted, consent, recorded, wpc, cur>>
    BY <1>2 DEF IngestDeletion, engineVars, history, workerVars
  <2> DEFINE e == [kind |-> "deleted", id |-> ids[p]]
  <2>2. e \in Event /\ queue' = Append(queue, e)
    BY <1>2 DEF IngestDeletion, Event, Typed, TyEngine
  <2>3. ~Way(e)
    BY DEF Way
  <2> HIDE DEF e
  <2>4. /\ DOMAIN queue' = DOMAIN queue \cup {new} /\ new \notin DOMAIN queue
        /\ queue'[new] = e /\ \A i \in DOMAIN queue : queue'[i] = queue[i]
    BY <1>0, <2>2, AppendFacts
  <2> HIDE DEF new
  <2>5. Fresh'
    BY <2>1, <2>3, <2>4 DEF Fresh
  <2> QED
    BY <2>1, <2>5 DEF Consented
<1> QED
  BY <1>1, <1>2

LEMMA FreshConsume ==
  ASSUME Typed, Fresh, Consented, ConsumeIgnores \/ Consume PROVE Fresh' /\ Consented'
<1>1. queue \in Seq(Event) /\ queue # << >> /\ queue' = Tail(queue)
  BY DEF ConsumeIgnores, Consume, Typed, TyQueue
<1>2. UNCHANGED <<minted, consent, recorded>>
  BY DEF ConsumeIgnores, Consume, engineVars, history
<1>3. /\ 1 \in DOMAIN queue /\ Head(queue) = queue[1] /\ Head(queue) \in Event
      /\ \A i \in DOMAIN queue' : i + 1 \in DOMAIN queue /\ i \in Nat /\ i + 1 # 1 /\ queue'[i] = queue[i + 1]
  BY <1>1, TailFacts
<1>4. /\ \A i \in DOMAIN queue' : Way(queue'[i]) =>
           /\ queue'[i].id \in 1 .. minted /\ queue'[i].id \notin recorded
           /\ queue'[i].kind = "message" => queue'[i].id \in consent
      /\ \A i, j \in DOMAIN queue' : Way(queue'[i]) /\ Way(queue'[j]) /\ queue'[i].id = queue'[j].id => i = j
  <2>1. \A i, j \in DOMAIN queue' : i + 1 = j + 1 => i = j
    BY <1>3
  <2> QED
    BY <1>3, <2>1 DEF Fresh
<1>5. CASE ConsumeIgnores
  <2>1. wpc' # "record"
    BY <1>5 DEF ConsumeIgnores, workerVars
  <2> QED
    BY <1>2, <1>4, <2>1 DEF Fresh, Consented, Way
<1>6. CASE Consume
  <2>1. cur' = queue[1] /\ (wpc' = "record" => queue[1].kind # "deleted" /\ queue[1].kind # "ephemeral")
    BY <1>3, <1>6 DEF Consume, Ignored
  <2>2. queue[1].kind \in {"message", "ephemeral", "deleted"}
    BY <1>3 DEF Event
  <2>3. wpc' = "record" =>
          /\ Way(queue[1]) /\ queue[1].kind = "message"
    BY <2>1, <2>2 DEF Way
  <2>4. wpc' = "record" =>
          /\ cur'.id \in 1 .. minted /\ cur'.id \notin recorded /\ cur'.id \in consent
          /\ \A i \in DOMAIN queue' : Way(queue'[i]) => queue'[i].id # cur'.id
    BY <1>3, <2>1, <2>3 DEF Fresh
  <2> QED
    BY <1>2, <1>4, <2>4 DEF Fresh, Consented, Way
<1> QED
  BY <1>5, <1>6

LEMMA FreshStep ==
  ASSUME Typed, Fresh, Consented, [Next]_vars PROVE Fresh' /\ Consented'
<1>1. CASE Record
  <2>1. /\ cur.id \in 1 .. minted /\ cur.id \in consent /\ recorded' = recorded \cup {cur.id}
        /\ wpc' # "record" /\ UNCHANGED <<minted, consent, queue>>
        /\ \A i \in DOMAIN queue : Way(queue[i]) => queue[i].id # cur.id
    BY <1>1 DEF Record, Fresh, engineVars
  <2> QED
    BY <2>1 DEF Fresh, Consented, Way
<1>2. CASE Restart
  <2>1. queue' = << >> /\ wpc' # "record" /\ UNCHANGED <<minted, consent, recorded>>
    BY <1>2 DEF Restart
  <2> QED
    BY <2>1 DEF Fresh, Consented
<1>3. CASE MarkDeleted \/ WorkerTakes \/ WorkerWrites
  BY <1>3, FreshFrame DEF MarkDeleted, WorkerTakes, WorkerWrites, engineVars, history
<1>4. CASE \/ \E on \in BOOLEAN : Activate(on)
           \/ Switch \/ Loop \/ Sweep \/ Age \/ CloseSweeper \/ Shutdown \/ UNCHANGED vars
  <2>1. UNCHANGED <<minted, consent, recorded, queue, cur, wpc>>
    BY <1>4 DEF Activate, Switch, SetEnabled, Discard, SetRetention, Loop, LoopTick, LoopWrites, LoopQuit,
                Sweep, Age, CloseSweeper, Shutdown, CloseSink, CloseDone, vars, engineVars, history, workerVars
  <2> QED
    BY <2>1, FreshFrame
<1> QED
  BY <1>1, <1>2, <1>3, <1>4, FreshIngest, FreshConsume DEF Next, Worker, Finished

-----------------------------------------------------------------------------
(* A recorded message is in one place.                                       *)

(* A batch that is taken from the buffer, or written. *)
LEMMA PlacedWrites ==
  ASSUME Placed, NEW q, q = wbatch \/ q = lbatch, AppendRows(q),
         UNCHANGED <<buf, recorded>>,
         \/ q = wbatch /\ wbatch' = << >> /\ lbatch' = lbatch
         \/ q = lbatch /\ lbatch' = << >> /\ wbatch' = wbatch
  PROVE  Placed'
<1>1. \/ rows' = rows \cup Elems(q) /\ gone' = gone
      \/ rows' = rows /\ gone' = gone \cup Elems(q)
  BY DEF AppendRows
<1> QED
  BY <1>1, EmptyFacts DEF Placed, Apart

LEMMA PlacedStep ==
  ASSUME Typed, Batches, Fresh, Placed, [Next]_vars PROVE Placed'
<1>1. CASE UNCHANGED <<buf, wbatch, lbatch, rows, gone, recorded>>
  BY <1>1 DEF Placed
<1>2. CASE Discard
  <2>1. buf' = << >> /\ gone' = gone \cup Elems(buf) /\ UNCHANGED <<wbatch, lbatch, rows, recorded>>
    BY <1>2 DEF Discard, workerVars, loopVars, storeVars
  <2> QED
    BY <2>1, EmptyFacts DEF Placed, Apart
<1>3. CASE Record
  <2>1. buf' = Append(buf, cur.id) /\ recorded' = recorded \cup {cur.id} /\ UNCHANGED <<wbatch, lbatch, rows, gone>>
    BY <1>3 DEF Record, loopVars, storeVars
  <2>2. cur.id \notin recorded /\ cur.id \in Ids /\ buf \in Seq(Ids)
    BY <1>3 DEF Record, Fresh, Typed, TyEngine, TySink, Ids
  <2>3. cur.id \notin Elems(buf)
    BY <2>2 DEF Placed
  <2>4. Once(buf') /\ Elems(buf') = Elems(buf) \cup {cur.id}
    BY <2>1, <2>2, <2>3, ElemsAppend, OnceAppend DEF Placed
  <2> QED
    BY <2>1, <2>2, <2>4 DEF Placed, Apart
<1>4. CASE WorkerTakes
  <2>1. wbatch = << >> /\ wbatch' = buf /\ buf' = << >> /\ UNCHANGED <<lbatch, rows, gone, recorded>>
    BY <1>4 DEF WorkerTakes, AfterTake, Batches, loopVars, storeVars, history
  <2> QED
    BY <2>1, EmptyFacts DEF Placed, Apart
<1>5. CASE LoopTick \/ LoopQuit
  <2>1. lbatch = << >> /\ lbatch' = buf /\ buf' = << >> /\ UNCHANGED <<wbatch, rows, gone, recorded>>
    BY <1>5 DEF LoopTick, LoopQuit, AfterTake, Batches, workerVars, storeVars, history
  <2> QED
    BY <2>1, EmptyFacts DEF Placed, Apart
<1>6. CASE WorkerWrites
  BY <1>6, PlacedWrites DEF WorkerWrites, sinkVars, loopVars
<1>7. CASE LoopWrites
  BY <1>7, PlacedWrites DEF LoopWrites, sinkVars, workerVars
<1>8. CASE Sweep
  <2>1. rows' = rows \ Swept /\ gone' = gone \cup Swept /\ UNCHANGED <<buf, wbatch, lbatch, recorded>>
    BY <1>8 DEF Sweep, sinkVars, workerVars, loopVars
  <2>2. Swept \subseteq rows
    BY DEF Swept
  <2> QED
    BY <2>1, <2>2 DEF Placed, Apart
<1>9. CASE Restart
  <2>1. /\ buf' = << >> /\ wbatch' = << >> /\ lbatch' = << >> /\ UNCHANGED <<rows, recorded>>
        /\ gone' = gone \cup Elems(buf) \cup Elems(wbatch) \cup Elems(lbatch)
    BY <1>9 DEF Restart, storeVars
  <2> QED
    BY <2>1, EmptyFacts DEF Placed, Apart
<1>10. ASSUME NEW p \in PlatformIds, IngestMessage(p) \/ IngestDeletion(p)
       PROVE  UNCHANGED <<buf, wbatch, lbatch, rows, gone, recorded>>
  BY <1>10 DEF IngestMessage, IngestDeletion, sinkVars, workerVars, loopVars, storeVars, history
<1>11. CASE \/ \E on \in BOOLEAN : Activate(on)
            \/ SetEnabled \/ SetRetention \/ ConsumeIgnores \/ Consume \/ MarkDeleted
            \/ Age \/ CloseSweeper \/ Shutdown \/ UNCHANGED vars
  BY <1>1, <1>11 DEF Activate, SetEnabled, SetRetention, ConsumeIgnores, Consume, MarkDeleted, Age, CloseSweeper,
                     Shutdown, CloseSink, CloseDone, vars, sinkVars, workerVars, loopVars, storeVars, history
<1> QED
  BY <1>1, <1>2, <1>3, <1>4, <1>5, <1>6, <1>7, <1>8, <1>9, <1>10, <1>11
     DEF Next, Switch, Worker, Loop, Finished

LEMMA LogInvInit == Init => LogInv
<1> SUFFICES ASSUME Init PROVE LogInv
  OBVIOUS
<1>0. FlushAt \in Nat \ {0} /\ IdCap \in Nat \ {0} /\ Total \in Nat
  BY MessageLogAssumption
<1>1. TyEngine
  BY <1>0 DEF Init, TyEngine
<1>2. TyQueue /\ TyLoop /\ TyStore /\ TySink
  BY EmptyType DEF Init, TyQueue, TyLoop, TyStore, TySink
<1>3. TyWorker
  BY DEF Init, TyWorker, Nothing, Event
<1>4. TyCtl /\ TyHistory /\ TyClosing
  BY DEF Init, TyCtl, TyHistory, TyClosing
<1>9. TySweep
  <2>1. 0 \in 0 .. Total
    BY <1>0
  <2> QED
    BY <2>1 DEF Init, TySweep
<1>5. TypeOK
  BY <1>1, <1>2, <1>3, <1>4, <1>9, TypedIsTypeOK DEF Typed
<1>6. Batches /\ BufBound /\ Consented
  BY <1>0 DEF Init, Batches, BufBound, Consented
<1>7. Fresh
  BY DEF Init, Fresh
<1>8. Placed
  BY EmptyFacts DEF Init, Placed, Apart
<1> QED
  BY <1>5, <1>6, <1>7, <1>8 DEF LogInv

LEMMA LogInvStep == LogInv /\ [Next]_vars => LogInv'
<1> SUFFICES ASSUME LogInv, [Next]_vars PROVE LogInv'
  OBVIOUS
<1>1. Typed
  BY TypedIsTypeOK DEF LogInv
<1>2. Typed'
  BY <1>1, TypeIngest, TypeSwitch, TypeWorker, TypeLoop, TypeRest DEF LogInv, Next, Finished
<1>3. TypeOK'
  <2>1. TypeOK' <=> Typed'
    BY DEF TypeOK, Typed, TyEngine, TyQueue, TySink, TyWorker, TyLoop, TyStore, TySweep, TyCtl,
           TyHistory, TyClosing
  <2> QED
    BY <1>2, <2>1
<1>4. Batches' /\ BufBound'
  BY <1>1, BatchesStep DEF LogInv
<1>5. Fresh' /\ Consented'
  BY <1>1, FreshStep DEF LogInv
<1>6. Placed'
  BY <1>1, PlacedStep DEF LogInv
<1> QED
  BY <1>3, <1>4, <1>5, <1>6 DEF LogInv

LEMMA LogInvariant == Spec => []LogInv
BY LogInvInit, LogInvStep, PTL DEF Spec

(* A message the sink has buffered is in exactly one place, once: the buffer, one of
   the two batches, the table, or dropped by a rule.  For any number of messages and
   any flush size, also when the loop's flush overlaps the worker's.          *)
THEOREM BufferedOnce == Spec => []OnePlace
<1>1. LogInv => OnePlace
  <2> SUFFICES ASSUME LogInv PROVE TypeOK /\ \A m \in Ids : Places(m) = IF m \in recorded THEN 1 ELSE 0
    BY DEF OnePlace
  <2> SUFFICES ASSUME NEW m \in Ids PROVE Places(m) = IF m \in recorded THEN 1 ELSE 0
    BY DEF LogInv
  <2>1. buf \in Seq(Ids) /\ wbatch \in Seq(Ids) /\ lbatch \in Seq(Ids) /\ TypeOK
    BY DEF LogInv, TypeOK
  <2>2. Placed
    BY DEF LogInv
  <2>3. /\ Cardinality({i \in DOMAIN buf : buf[i] = m}) = IF m \in Elems(buf) THEN 1 ELSE 0
        /\ Cardinality({i \in DOMAIN wbatch : wbatch[i] = m}) = IF m \in Elems(wbatch) THEN 1 ELSE 0
        /\ Cardinality({i \in DOMAIN lbatch : lbatch[i] = m}) = IF m \in Elems(lbatch) THEN 1 ELSE 0
    BY <2>1, <2>2, CountOnce DEF Placed
  <2> QED
    BY <2>1, <2>2, <2>3 DEF Places, Placed, Apart
<1> QED
  BY <1>1, LogInvariant, PTL

(* Every row of the messages table was stamped while logging was on, however the
   switch raced the worker, the flush loop and the sweeper.                   *)
THEOREM NothingUnconsented == Spec => []OnlyConsented
<1>1. LogInv => OnlyConsented
  BY DEF LogInv, Placed, Consented, OnlyConsented
<1> QED
  BY <1>1, LogInvariant, PTL

-----------------------------------------------------------------------------
(* Close drains.                                                             *)

LEMMA DrainingStep == ASSUME LogInv, Draining, [Next]_vars PROVE Draining'
<1> USE DEF Draining, Closed
<1>0. Batches /\ closing \in {"no", "sweeper", "sink", "done"} /\ lpc \in {"select", "write", "final", "done"}
  BY DEF LogInv, TypeOK
<1>1. CASE UNCHANGED <<closing, wpc, queue, lpc, buf>>
  BY <1>1
<1>2. ASSUME NEW p \in PlatformIds, IngestMessage(p) \/ IngestDeletion(p) PROVE Draining'
  BY <1>2 DEF IngestMessage, IngestDeletion, loopVars, sinkVars
<1>3. CASE Discard
  BY <1>3 DEF Discard, workerVars, loopVars
<1>4. CASE Worker
  <2>1. ~Closed
    BY <1>4 DEF Worker, ConsumeIgnores, Consume, Record, MarkDeleted, WorkerTakes, WorkerWrites
  <2>2. UNCHANGED <<closing, lpc>>
    BY <1>4 DEF Worker, ConsumeIgnores, Consume, Record, MarkDeleted, WorkerTakes, WorkerWrites, loopVars
  <2> QED
    BY <2>1, <2>2
<1>5. CASE LoopTick \/ LoopWrites
  BY <1>5, <1>0 DEF LoopTick, LoopWrites, AfterTake, workerVars, sinkVars
<1>6. CASE LoopQuit
  BY <1>6 DEF LoopQuit, AfterTake, workerVars
<1>7. CASE CloseSweeper \/ Shutdown
  BY <1>7 DEF CloseSweeper, Shutdown, CloseSink, CloseDone, workerVars, loopVars, sinkVars
<1>8. CASE Restart
  BY <1>8 DEF Restart
<1>9. CASE \/ \E on \in BOOLEAN : Activate(on)
           \/ SetEnabled \/ SetRetention \/ Sweep \/ Age \/ UNCHANGED vars
  BY <1>1, <1>9 DEF Activate, SetEnabled, SetRetention, Sweep, Age, vars, sinkVars, workerVars, loopVars
<1> QED
  BY <1>1, <1>2, <1>3, <1>4, <1>5, <1>6, <1>7, <1>8, <1>9 DEF Next, Switch, Loop, Finished

(* Once Close has returned neither the buffer nor a batch holds a message that a flush
   could still have written.                                                  *)
THEOREM CloseDrains == Spec => []DrainedAtClose
<1>1. Init => Draining
  BY DEF Init, Draining, Closed
<1>2. LogInv /\ Draining /\ [Next]_vars => Draining'
  BY DrainingStep
<1>3. LogInv /\ Draining => DrainedAtClose
  BY DEF LogInv, Batches, Draining, Closed, DrainedAtClose
<1> QED
  BY <1>1, <1>2, <1>3, LogInvariant, PTL DEF Spec

-----------------------------------------------------------------------------
(* The idMap.                                                                *)

LEMMA IdInvPut ==
  ASSUME TyEngine, IdInv, NEW p \in PlatformIds, NEW u \in Ids, Put(p, u) PROVE IdInv'
<1>0. /\ IdCap \in Nat \ {0} /\ u # None /\ None \notin PlatformIds /\ puts \in Seq(PlatformIds)
      /\ Len(puts) \in Nat /\ slot \in 1 .. IdCap /\ DOMAIN puts = 1 .. Len(puts)
      /\ ring \in [1 .. IdCap -> PlatformIds \cup {None}] /\ ids \in [PlatformIds -> Ids \cup {None}]
  BY MessageLogAssumption DEF TyEngine, Ids, None
<1>1. CASE ids[p] # None
  <2>1. UNCHANGED <<ring, slot, puts>> /\ ids' = [ids EXCEPT ![p] = u]
    BY <1>1 DEF Put
  <2>2. \A q \in PlatformIds : ids'[q] # None <=> ids[q] # None
    BY <1>0, <1>1, <2>1
  <2> QED
    BY <2>1, <2>2 DEF IdInv, RingOrder, NewestOnce, Recent, RecentResolvable, Newest
<1>2. CASE ids[p] = None
  <2> DEFINE n == Len(puts)
  <2>0. n \in Nat
    BY <1>0
  <2>1. /\ ids' = [q \in PlatformIds |-> IF q = p THEN u ELSE IF q = ring[slot] THEN None ELSE ids[q]]
        /\ ring' = [ring EXCEPT ![slot] = p] /\ puts' = Append(puts, p)
    BY <1>2 DEF Put
  <2>2. /\ Len(puts') = n + 1 /\ DOMAIN puts' = 1 .. n + 1 /\ puts'[n + 1] = p
        /\ \A i \in 1 .. n : puts'[i] = puts[i]
    BY <1>0, <2>1
  <2>3. /\ \A i \in 1 .. IdCap : ring'[i] = IF i = slot THEN p ELSE ring[i]
        /\ slot' = IF slot = IdCap THEN 1 ELSE slot + 1
    BY <1>0, <1>2, <2>1, NextSlotIs DEF Put
  <2>9. /\ n < IdCap => slot = n + 1 /\ \A i \in 1 .. IdCap : ring[i] = IF i <= n THEN puts[i] ELSE None
        /\ n >= IdCap =>
             \A i \in 1 .. IdCap :
               ring[i] = IF i < slot THEN puts[n - slot + 1 + i] ELSE puts[n - slot + 1 + i - IdCap]
    <3>1. CASE n < IdCap
      BY <1>0, <3>1 DEF IdInv, RingOrder
    <3>2. CASE ~ (n < IdCap)
      BY <1>0, <3>2 DEF IdInv, RingOrder
    <3> QED
      BY <1>0, <2>0, <3>1, <3>2
  <2>4. p \notin Newest
    BY <1>2 DEF IdInv, RecentResolvable
  <2>5. \A i \in 1 .. n : Recent(i) => puts[i] # p
    BY <1>0, <2>4 DEF Newest, Recent
  <2>10. IdCap \in Nat \ {0} /\ slot \in 1 .. IdCap
    BY <1>0
  <2>11. Len(puts) = n /\ DOMAIN puts = 1 .. n
    BY <1>0
  <2>12. puts' \in Seq(PlatformIds) /\ Len(puts') \in Nat /\ slot' \in Nat
    BY <1>0, <2>1, <2>3
  <2> HIDE DEF n
  <2>6. RingOrder'
    <3>1. CASE n + 1 < IdCap
      <4>1. slot' = n + 1 + 1 /\ \A i \in 1 .. IdCap : ring'[i] = IF i <= n + 1 THEN puts'[i] ELSE None
        BY <2>0, <2>2, <2>3, <2>9, <2>10, <3>1
      <4> QED
        BY <2>2, <3>1, <4>1 DEF RingOrder
    <3>2. CASE n + 1 >= IdCap
      <4>1. ASSUME NEW i \in 1 .. IdCap
            PROVE  ring'[i] = IF i < slot' THEN puts'[n + 1 - slot' + 1 + i]
                              ELSE puts'[n + 1 - slot' + 1 + i - IdCap]
        <5>1. CASE n < IdCap
          BY <2>0, <2>2, <2>3, <2>9, <2>10, <3>2, <5>1
        <5>2. CASE n >= IdCap /\ slot = IdCap
          <6>1. slot' = 1 /\ ~ (i < slot') /\ n + 1 - slot' + 1 + i - IdCap = n - slot + 1 + i
            BY <2>0, <2>3, <2>10, <5>2
          <6>2. CASE i = slot
            BY <2>0, <2>2, <2>3, <2>10, <5>2, <6>1, <6>2
          <6>3. CASE i < slot
            <7>1. ring'[i] = puts[n - slot + 1 + i] /\ n - slot + 1 + i \in 1 .. n
              BY <2>0, <2>3, <2>9, <2>10, <5>2, <6>3
            <7> QED
              BY <2>2, <6>1, <7>1
          <6> QED
            BY <2>10, <5>2, <6>2, <6>3
        <5>3. CASE n >= IdCap /\ slot # IdCap
          <6>1. slot' = slot + 1
            BY <2>3, <5>3
          <6>2. CASE i = slot
            BY <2>0, <2>2, <2>3, <2>10, <5>3, <6>1, <6>2
          <6>3. CASE i < slot
            BY <2>0, <2>2, <2>3, <2>9, <2>10, <5>3, <6>1, <6>3
          <6>4. CASE i > slot
            BY <2>0, <2>2, <2>3, <2>9, <2>10, <5>3, <6>1, <6>4
          <6> QED
            BY <2>10, <6>2, <6>3, <6>4
        <5> QED
          BY <2>0, <2>10, <5>1, <5>2, <5>3
      <4>2. ~ (Len(puts') < IdCap)
        BY <2>0, <2>2, <2>10, <3>2
      <4>3. \A i \in 1 .. IdCap :
              ring'[i] = IF i < slot' THEN puts'[Len(puts') - slot' + 1 + i]
                         ELSE puts'[Len(puts') - slot' + 1 + i - IdCap]
        <5> SUFFICES ASSUME NEW i \in 1 .. IdCap
                     PROVE  ring'[i] = IF i < slot' THEN puts'[Len(puts') - slot' + 1 + i]
                                       ELSE puts'[Len(puts') - slot' + 1 + i - IdCap]
          OBVIOUS
        <5>1. /\ Len(puts') - slot' + 1 + i = n + 1 - slot' + 1 + i
              /\ Len(puts') - slot' + 1 + i - IdCap = n + 1 - slot' + 1 + i - IdCap
          BY <2>0, <2>2, <2>3, <2>10, <2>12
        <5> QED
          BY <4>1, <5>1
      <4> QED
        BY <4>2, <4>3 DEF RingOrder
    <3> QED
      BY <2>0, <2>10, <3>1, <3>2
  <2>7. NewestOnce'
    <3> SUFFICES ASSUME NEW i \in DOMAIN puts', NEW j \in DOMAIN puts', Recent(i)', Recent(j)',
                        puts'[i] = puts'[j]
                 PROVE  i = j
      BY DEF NewestOnce
    <3>1. /\ i \in 1 .. n => Recent(i) /\ puts'[i] = puts[i] /\ puts[i] # p
          /\ j \in 1 .. n => Recent(j) /\ puts'[j] = puts[j] /\ puts[j] # p
      BY <2>0, <2>2, <2>5, <2>10, <2>11 DEF Recent
    <3>2. (i \in 1 .. n \/ i = n + 1) /\ (j \in 1 .. n \/ j = n + 1)
      BY <2>0, <2>2
    <3> QED
      BY <2>2, <2>11, <3>1, <3>2 DEF IdInv, NewestOnce
  <2>8. RecentResolvable'
    <3> DEFINE New == {puts'[i] : i \in {j \in DOMAIN puts' : j > Len(puts') - IdCap}}
    <3>1. Newest' = New
      BY DEF Newest
    <3>2. p \in New /\ New \subseteq PlatformIds
      <4>1. n + 1 \in DOMAIN puts' /\ n + 1 > Len(puts') - IdCap
        BY <2>0, <2>2, <2>10
      <4>2. \A i \in DOMAIN puts' : puts'[i] \in PlatformIds
        BY <1>0, <2>1
      <4> QED
        BY <2>2, <4>1, <4>2
    <3>3. n >= IdCap => n - IdCap + 1 \in 1 .. n /\ ring[slot] = puts[n - IdCap + 1] /\ Recent(n - IdCap + 1)
      <4>1. n - slot + 1 + slot - IdCap = n - IdCap + 1
        BY <2>0, <2>10
      <4>2. n >= IdCap => ring[slot] = puts[n - slot + 1 + slot - IdCap]
        BY <2>9, <2>10
      <4> QED
        BY <2>0, <2>10, <2>11, <4>1, <4>2 DEF Recent
    <3>4. n < IdCap => ring[slot] = None
      BY <2>0, <2>9, <2>10
    <3>5. ASSUME NEW q \in PlatformIds, q # p PROVE q \in New <=> (q \in Newest /\ q # ring[slot])
      <4>1. ASSUME q \in New PROVE q \in Newest /\ q # ring[slot]
        <5>1. PICK i \in 1 .. n + 1 : i > n + 1 - IdCap /\ puts'[i] = q
          <6>1. PICK i \in DOMAIN puts' : i > Len(puts') - IdCap /\ puts'[i] = q
            BY <4>1
          <6>2. i \in 1 .. n + 1 /\ i > n + 1 - IdCap
            BY <2>0, <2>2, <2>10, <2>12, <6>1
          <6> QED
            BY <6>1, <6>2
        <5>2. i \in 1 .. n /\ puts[i] = q /\ Recent(i) /\ i > n - IdCap
          BY <2>0, <2>2, <2>10, <2>11, <3>5, <5>1 DEF Recent
        <5>3. q \in Newest
          BY <2>11, <5>2 DEF Newest
        <5>4. q # ring[slot]
          <6>1. CASE n < IdCap
            BY <1>0, <3>4, <6>1
          <6>2. CASE n >= IdCap
            <7>1. i # n - IdCap + 1
              BY <2>0, <2>10, <5>1, <5>2
            <7> QED
              BY <2>11, <3>3, <5>2, <6>2, <7>1 DEF IdInv, NewestOnce
          <6> QED
            BY <2>0, <2>10, <6>1, <6>2
        <5> QED
          BY <5>3, <5>4
      <4>2. ASSUME q \in Newest, q # ring[slot] PROVE q \in New
        <5>1. PICK i \in 1 .. n : i > n - IdCap /\ puts[i] = q
          <6>1. \E i \in {j \in DOMAIN puts : j > Len(puts) - IdCap} : puts[i] = q
            BY <4>2 DEF Newest
          <6> QED
            BY <2>11, <6>1
        <5>2. i # n - IdCap + 1
          BY <2>0, <2>10, <3>3, <4>2, <5>1
        <5>3. i \in DOMAIN puts' /\ i > Len(puts') - IdCap /\ puts'[i] = q
          BY <2>0, <2>2, <2>10, <5>1, <5>2
        <5> QED
          BY <5>3
      <4> QED
        BY <4>1, <4>2
    <3>6. \A q \in PlatformIds : ids'[q] # None <=> (q = p \/ (ids[q] # None /\ q # ring[slot]))
      BY <1>0, <2>1
    <3>7. \A q \in PlatformIds : ids[q] # None <=> q \in Newest
      BY DEF IdInv, RecentResolvable
    <3> HIDE DEF New
    <3>8. \A q \in PlatformIds : ids'[q] # None <=> q \in New
      BY <3>2, <3>5, <3>6, <3>7
    <3> QED
      BY <3>1, <3>2, <3>8 DEF RecentResolvable
  <2> QED
    BY <2>6, <2>7, <2>8 DEF IdInv
<1> QED
  BY <1>1, <1>2

LEMMA IdInvEmpty ==
  ASSUME ring = [i \in 1 .. IdCap |-> None], slot = 1, ids = [p \in PlatformIds |-> None], puts = << >>
  PROVE  IdInv
<1>1. RingOrder
  BY MessageLogAssumption DEF RingOrder
<1> QED
  BY <1>1 DEF IdInv, NewestOnce, RecentResolvable, Newest

LEMMA IdInvStep == ASSUME LogInv, IdInv, [Next]_vars PROVE IdInv'
<1>0. TyEngine
  BY TypedIsTypeOK DEF LogInv, Typed
<1>1. CASE UNCHANGED <<ring, slot, ids, puts>>
  BY <1>1 DEF IdInv, RingOrder, NewestOnce, Recent, RecentResolvable, Newest
<1>2. ASSUME NEW p \in PlatformIds, IngestMessage(p) PROVE IdInv'
  <2>1. minted + 1 \in Ids /\ Put(p, minted + 1)
    BY <1>0, <1>2, MessageLogAssumption DEF IngestMessage, TyEngine, Ids
  <2> QED
    BY <1>0, <2>1, IdInvPut
<1>3. CASE Restart
  <2>1. /\ ring' = [i \in 1 .. IdCap |-> None] /\ slot' = 1
        /\ ids' = [p \in PlatformIds |-> None] /\ puts' = << >>
    BY <1>3 DEF Restart
  <2>2. RingOrder'
    BY <2>1, MessageLogAssumption DEF RingOrder
  <2> QED
    BY <2>1, <2>2 DEF IdInv, NewestOnce, RecentResolvable, Newest
<1>4. ASSUME NEW p \in PlatformIds, IngestDeletion(p) PROVE UNCHANGED <<ring, slot, ids, puts>>
  BY <1>4 DEF IngestDeletion, engineVars
<1>5. CASE \/ \E on \in BOOLEAN : Activate(on)
           \/ Switch \/ Worker \/ Loop \/ Sweep \/ Age \/ CloseSweeper \/ Shutdown \/ UNCHANGED vars
  <2>1. ASSUME (\E on \in BOOLEAN : Activate(on)) \/ Switch \/ Worker PROVE UNCHANGED <<ring, slot, ids, puts>>
    BY <2>1 DEF Activate, Switch, SetEnabled, Discard, SetRetention, Worker, ConsumeIgnores, Consume, Record,
                MarkDeleted, WorkerTakes, WorkerWrites, engineVars
  <2>2. ASSUME Loop \/ Sweep \/ Age \/ CloseSweeper \/ Shutdown \/ UNCHANGED vars
        PROVE  UNCHANGED <<ring, slot, ids, puts>>
    BY <2>2 DEF Loop, LoopTick, LoopWrites, LoopQuit, Sweep, Age, CloseSweeper, Shutdown, CloseSink, CloseDone,
                vars, engineVars
  <2>3. UNCHANGED <<ring, slot, ids, puts>>
    BY <1>5, <2>1, <2>2
  <2> QED
    BY <1>1, <2>3
<1> QED
  BY <1>1, <1>2, <1>3, <1>4, <1>5 DEF Next, Finished

(* The idMap resolves exactly the last IdCap platform ids that took a slot, for every
   capacity and however often its ring has wrapped: put evicts the oldest id and only
   that one.                                                                  *)
THEOREM NewestResolve == Spec => []RecentResolvable
<1>1. Init => IdInv
  BY IdInvEmpty DEF Init
<1>2. LogInv /\ IdInv /\ [Next]_vars => IdInv'
  BY IdInvStep
<1>3. IdInv => RecentResolvable
  BY DEF IdInv
<1> QED
  BY <1>1, <1>2, <1>3, LogInvariant, PTL DEF Spec

-----------------------------------------------------------------------------
(* The order of the messages.                                                *)

(* Messages come to the sink in the order in which they were said. *)
InOrder ==
  /\ \A i, j \in DOMAIN queue : i < j /\ Way(queue[i]) /\ Way(queue[j]) => queue[i].id < queue[j].id
  /\ \A i \in DOMAIN queue : Way(queue[i]) => \A m \in recorded : m < queue[i].id
  /\ wpc = "record" =>
       /\ \A m \in recorded : m < cur.id
       /\ \A i \in DOMAIN queue : Way(queue[i]) => cur.id < queue[i].id

(* What was taken from the buffer is older than what is in it, and of two batches one
   is older than the other.                                                   *)
Older(P, Q) == \A x \in P, y \in Q : x < y
BatchOrder ==
  /\ Older(Elems(wbatch), Elems(buf)) /\ Older(Elems(lbatch), Elems(buf))
  /\ Older(Elems(wbatch), Elems(lbatch)) \/ Older(Elems(lbatch), Elems(wbatch))

LEMMA InOrderFrame ==
  ASSUME InOrder, UNCHANGED <<recorded, queue, cur>>, wpc' = wpc \/ wpc' # "record"
  PROVE  InOrder'
BY DEF InOrder, Way

LEMMA InOrderIngest ==
  ASSUME Typed, Fresh, InOrder, NEW p \in PlatformIds, IngestMessage(p) \/ IngestDeletion(p)
  PROVE  InOrder'
<1> DEFINE new == Len(queue) + 1
<1>0. queue \in Seq(Event) /\ minted \in Nat
  BY DEF Typed, TyQueue, TyEngine
<1>1. UNCHANGED <<recorded, wpc, cur>>
  BY DEF IngestMessage, IngestDeletion, history, workerVars
<1>2. PICK e \in Event : queue' = Append(queue, e) /\ (Way(e) => e.id = minted + 1)
  <2>1. CASE IngestMessage(p)
    <3> DEFINE e == [kind |-> Stamp(logging), id |-> minted + 1]
    <3>1. e \in Event /\ queue' = Append(queue, e)
      BY <2>1, MessageLogAssumption DEF IngestMessage, Event, Stamp, Typed, TyEngine, Ids
    <3> QED
      BY <3>1
  <2>2. CASE IngestDeletion(p)
    <3> DEFINE e == [kind |-> "deleted", id |-> ids[p]]
    <3>1. e \in Event /\ queue' = Append(queue, e) /\ ~Way(e)
      BY <2>2 DEF IngestDeletion, Event, Typed, TyEngine, Way
    <3> QED
      BY <3>1
  <2> QED
    BY <2>1, <2>2
<1>3. /\ DOMAIN queue' = DOMAIN queue \cup {new} /\ new \notin DOMAIN queue
      /\ queue'[new] = e /\ \A i \in DOMAIN queue : queue'[i] = queue[i]
  BY <1>0, <1>2, AppendFacts
<1>4. \A i \in DOMAIN queue : i \in Nat /\ i < new
  BY <1>0
<1>5. /\ \A i \in DOMAIN queue : Way(queue[i]) => queue[i].id \in 1 .. minted
      /\ \A m \in recorded : m \in 1 .. minted
      /\ wpc = "record" => cur.id \in 1 .. minted
  BY DEF Fresh
<1>6. \A m \in 1 .. minted : m < minted + 1
  BY <1>0
<1>7. \A i \in DOMAIN queue' : i = new \/ i \in DOMAIN queue
  BY <1>3
<1>8. new \in Nat /\ ~(new < new) /\ \A i \in DOMAIN queue : ~(new < i)
  BY <1>0
<1> HIDE DEF new
<1>9. \A i, j \in DOMAIN queue' : i < j /\ Way(queue'[i]) /\ Way(queue'[j]) => queue'[i].id < queue'[j].id
  <2> SUFFICES ASSUME NEW i \in DOMAIN queue', NEW j \in DOMAIN queue', i < j, Way(queue'[i]), Way(queue'[j])
               PROVE  queue'[i].id < queue'[j].id
    OBVIOUS
  <2>1. CASE j = new
    <3>1. i \in DOMAIN queue /\ queue'[i] = queue[i] /\ queue[i].id \in 1 .. minted
      BY <1>3, <1>5, <1>7, <1>8, <2>1
    <3>2. queue'[j].id = minted + 1
      BY <1>2, <1>3, <2>1
    <3> QED
      BY <1>6, <3>1, <3>2
  <2>2. CASE j # new
    <3>1. i \in DOMAIN queue /\ j \in DOMAIN queue
      BY <1>7, <1>8, <2>2
    <3> QED
      BY <1>3, <3>1 DEF InOrder
  <2> QED
    BY <2>1, <2>2
<1>10. \A i \in DOMAIN queue' : Way(queue'[i]) => \A m \in recorded : m < queue'[i].id
  BY <1>2, <1>3, <1>5, <1>6, <1>7 DEF InOrder
<1>11. wpc = "record" => \A i \in DOMAIN queue' : Way(queue'[i]) => cur.id < queue'[i].id
  BY <1>2, <1>3, <1>5, <1>6, <1>7 DEF InOrder
<1>12. wpc = "record" => \A m \in recorded : m < cur.id
  BY DEF InOrder
<1> QED
  BY <1>1, <1>9, <1>10, <1>11, <1>12 DEF InOrder

LEMMA InOrderConsume ==
  ASSUME Typed, InOrder, ConsumeIgnores \/ Consume PROVE InOrder'
<1>1. queue \in Seq(Event) /\ queue # << >> /\ queue' = Tail(queue)
  BY DEF ConsumeIgnores, Consume, Typed, TyQueue
<1>2. UNCHANGED recorded
  BY DEF ConsumeIgnores, Consume, history
<1>3. /\ 1 \in DOMAIN queue /\ Head(queue) = queue[1] /\ Head(queue) \in Event
      /\ \A i \in DOMAIN queue' : i + 1 \in DOMAIN queue /\ i \in Nat /\ i + 1 # 1 /\ queue'[i] = queue[i + 1]
  BY <1>1, TailFacts
<1>4. \A i, j \in DOMAIN queue' : i < j => i + 1 < j + 1
  BY <1>3
<1>5. \A i \in DOMAIN queue' : 1 < i + 1
  BY <1>1
<1>6. /\ \A i, j \in DOMAIN queue' : i < j /\ Way(queue'[i]) /\ Way(queue'[j]) => queue'[i].id < queue'[j].id
      /\ \A i \in DOMAIN queue' : Way(queue'[i]) => \A m \in recorded : m < queue'[i].id
  BY <1>3, <1>4 DEF InOrder
<1>7. wpc' = "record" =>
        /\ \A m \in recorded : m < cur'.id
        /\ \A i \in DOMAIN queue' : Way(queue'[i]) => cur'.id < queue'[i].id
  <2>1. wpc' = "record" => Consume /\ cur' = queue[1] /\ queue[1].kind # "deleted"
    BY <1>3 DEF ConsumeIgnores, Consume, workerVars
  <2>2. wpc' = "record" => Way(queue[1])
    BY <2>1 DEF Way
  <2> QED
    BY <1>3, <1>5, <2>1, <2>2 DEF InOrder
<1> QED
  BY <1>2, <1>6, <1>7 DEF InOrder

LEMMA InOrderStep ==
  ASSUME Typed, Fresh, InOrder, [Next]_vars PROVE InOrder'
<1>1. CASE Record
  <2>1. recorded' = recorded \cup {cur.id} /\ wpc = "record" /\ wpc' # "record" /\ UNCHANGED queue
    BY <1>1 DEF Record
  <2> QED
    BY <2>1 DEF InOrder, Way
<1>2. CASE Restart
  <2>1. queue' = << >> /\ wpc' # "record" /\ UNCHANGED recorded
    BY <1>2 DEF Restart
  <2> QED
    BY <2>1 DEF InOrder
<1>3. CASE MarkDeleted \/ WorkerTakes \/ WorkerWrites
  BY <1>3, InOrderFrame DEF MarkDeleted, WorkerTakes, WorkerWrites, history
<1>4. CASE \/ \E on \in BOOLEAN : Activate(on)
           \/ Switch \/ Loop \/ Sweep \/ Age \/ CloseSweeper \/ Shutdown \/ UNCHANGED vars
  <2>1. UNCHANGED <<recorded, queue, cur, wpc>>
    BY <1>4 DEF Activate, Switch, SetEnabled, Discard, SetRetention, Loop, LoopTick, LoopWrites, LoopQuit,
                Sweep, Age, CloseSweeper, Shutdown, CloseSink, CloseDone, vars, history, workerVars
  <2> QED
    BY <2>1, InOrderFrame
<1> QED
  BY <1>1, <1>2, <1>3, <1>4, InOrderIngest, InOrderConsume DEF Next, Worker, Finished

LEMMA BatchOrderStep ==
  ASSUME LogInv, InOrder, BatchOrder, [Next]_vars PROVE BatchOrder'
<1> USE DEF BatchOrder, Older
<1>0. Batches /\ Typed /\ Placed
  BY TypedIsTypeOK DEF LogInv
<1>1. CASE UNCHANGED <<buf, wbatch, lbatch>>
  BY <1>1
<1>2. CASE Discard
  <2>1. buf' = << >> /\ UNCHANGED <<wbatch, lbatch>>
    BY <1>2 DEF Discard, workerVars, loopVars
  <2> QED
    BY <2>1, EmptyFacts
<1>3. CASE Record
  <2>1. buf' = Append(buf, cur.id) /\ UNCHANGED <<wbatch, lbatch>> /\ \A m \in recorded : m < cur.id
    BY <1>3 DEF Record, loopVars, InOrder
  <2>2. cur.id \in Ids /\ buf \in Seq(Ids)
    BY <1>0, <1>3 DEF Record, LogInv, Fresh, Typed, TyEngine, TySink, Ids
  <2>3. Elems(buf') = Elems(buf) \cup {cur.id}
    BY <2>1, <2>2, ElemsAppend
  <2> QED
    BY <1>0, <2>1, <2>3 DEF Placed
<1>4. CASE WorkerTakes
  <2>1. wbatch = << >> /\ wbatch' = buf /\ buf' = << >> /\ UNCHANGED lbatch
    BY <1>0, <1>4 DEF WorkerTakes, AfterTake, Batches, loopVars
  <2> QED
    BY <2>1, EmptyFacts
<1>5. CASE LoopTick \/ LoopQuit
  <2>1. lbatch = << >> /\ lbatch' = buf /\ buf' = << >> /\ UNCHANGED wbatch
    BY <1>0, <1>5 DEF LoopTick, LoopQuit, AfterTake, Batches, workerVars
  <2> QED
    BY <2>1, EmptyFacts
<1>6. CASE WorkerWrites
  BY <1>6, EmptyFacts DEF WorkerWrites, sinkVars, loopVars
<1>7. CASE LoopWrites
  BY <1>7, EmptyFacts DEF LoopWrites, sinkVars, workerVars
<1>9. CASE Restart
  BY <1>9, EmptyFacts DEF Restart
<1>10. ASSUME NEW p \in PlatformIds, IngestMessage(p) \/ IngestDeletion(p)
       PROVE  UNCHANGED <<buf, wbatch, lbatch>>
  BY <1>10 DEF IngestMessage, IngestDeletion, sinkVars, workerVars, loopVars
<1>11. CASE \/ \E on \in BOOLEAN : Activate(on)
            \/ SetEnabled \/ SetRetention \/ ConsumeIgnores \/ Consume \/ MarkDeleted
            \/ Sweep \/ Age \/ CloseSweeper \/ Shutdown \/ UNCHANGED vars
  BY <1>1, <1>11 DEF Activate, SetEnabled, SetRetention, ConsumeIgnores, Consume, MarkDeleted, Sweep, Age, CloseSweeper,
                     Shutdown, CloseSink, CloseDone, vars, sinkVars, workerVars, loopVars
<1> QED
  BY <1>1, <1>2, <1>3, <1>4, <1>5, <1>6, <1>7, <1>9, <1>10, <1>11
     DEF Next, Switch, Worker, Loop, Finished

-----------------------------------------------------------------------------
(* Refinement: the sink, the store and the sweeper implement MessageArchive. *)

OrderInv == LogInv /\ InOrder /\ BatchOrder

(* A batch, the buffer and all that waits are runs. *)
LEMMA Runs ==
  ASSUME OrderInv, NEW B \in {Elems(buf), Elems(wbatch), Elems(lbatch), Waiting}, B # {}
  PROVE  Archive!Run(B)
<1>1. B \subseteq Waiting
  BY DEF Waiting
<1>2. \A m \in Waiting : m \in Nat
  <2>1. Waiting \subseteq recorded /\ recorded \subseteq Ids
    BY DEF Waiting, OrderInv, LogInv, Placed, TypeOK
  <2> QED
    BY <2>1, MessageLogAssumption DEF Ids
<1>3. ASSUME NEW x \in B, NEW y \in B, NEW m \in Waiting, x < m, m < y
      PROVE  m \in B
  <2>1. x \in Nat /\ y \in Nat /\ m \in Nat /\ ~(m < x) /\ ~(y < m)
    BY <1>1, <1>2, <1>3
  <2> QED
    BY <1>3, <2>1 DEF Waiting, OrderInv, BatchOrder, Older
<1> QED
  BY <1>1, <1>3 DEF Archive!Run

(* A batch is written in one step, or lost. *)
LEMMA BatchWrites ==
  ASSUME OrderInv, NEW q \in {wbatch, lbatch}, AppendRows(q), Waiting' = Waiting \ Elems(q),
         UNCHANGED <<minted, consent, aged>>
  PROVE  [Archive!Next]_(Archive!vars)
<1>1. \/ rows' = rows \cup Elems(q) /\ UNCHANGED <<deleted, gone>>
      \/ gone' = gone \cup Elems(q) /\ UNCHANGED <<rows, deleted>>
  BY DEF AppendRows
<1>2. CASE Elems(q) = {}
  BY <1>1, <1>2 DEF Archive!vars
<1>3. CASE Elems(q) # {}
  <2>1. Archive!Run(Elems(q))
    BY <1>3, Runs
  <2>2. Elems(q) \in SUBSET Waiting
    BY DEF Waiting
  <2>3. Archive!Store(Elems(q)) \/ Archive!Lose(Elems(q))
    BY <1>1, <2>1 DEF Archive!Store, Archive!Lose
  <2> QED
    BY <2>2, <2>3 DEF Archive!Next
<1> QED
  BY <1>2, <1>3

LEMMA ArchiveStep ==
  ASSUME OrderInv, [Next]_vars PROVE [Archive!Next]_(Archive!vars)
<1>0. LogInv /\ Batches /\ Typed /\ Placed /\ InOrder
  BY TypedIsTypeOK DEF OrderInv, LogInv
<1>1. ASSUME UNCHANGED <<minted, consent, buf, wbatch, lbatch, rows, deleted, gone, aged>>
      PROVE  UNCHANGED Archive!vars
  BY <1>1 DEF Archive!vars, Waiting
<1>2. ASSUME NEW p \in PlatformIds, IngestMessage(p) PROVE Archive!Next
  <2>1. UNCHANGED <<buf, wbatch, lbatch, rows, deleted, gone, aged>>
    BY <1>2 DEF IngestMessage, sinkVars, workerVars, loopVars, storeVars, sweepVars, history
  <2>2. minted' = minted + 1 /\ consent' = IF logging THEN consent \cup {minted + 1} ELSE consent
    BY <1>2 DEF IngestMessage
  <2>3. UNCHANGED Waiting /\ logging \in BOOLEAN
    BY <1>0, <2>1 DEF Waiting, Typed, TyEngine
  <2>4. Archive!Say(logging)
    BY <2>1, <2>2, <2>3 DEF Archive!Say
  <2> QED
    BY <2>3, <2>4 DEF Archive!Next
<1>3. CASE Discard
  <2>1. buf' = << >> /\ gone' = gone \cup Elems(buf)
        /\ UNCHANGED <<minted, consent, wbatch, lbatch, rows, deleted, aged>>
    BY <1>3 DEF Discard, engineVars, workerVars, loopVars, storeVars, sweepVars
  <2>2. Waiting' = Waiting \ Elems(buf)
    BY <1>0, <2>1, EmptyFacts DEF Waiting, Placed, Apart
  <2>3. CASE Elems(buf) = {}
    BY <2>1, <2>2, <2>3 DEF Archive!vars
  <2>4. CASE Elems(buf) # {}
    <3>1. Archive!Lose(Elems(buf))
      BY <2>1, <2>2, <2>4, Runs DEF Archive!Lose
    <3>2. Elems(buf) \in SUBSET Waiting
      BY DEF Waiting
    <3> QED
      BY <3>1, <3>2 DEF Archive!Next
  <2> QED
    BY <2>3, <2>4
<1>4. CASE Record
  <2>1. buf' = Append(buf, cur.id) /\ UNCHANGED <<minted, consent, wbatch, lbatch, rows, deleted, gone, aged>>
    BY <1>4 DEF Record, engineVars, loopVars, storeVars, sweepVars
  <2>2. cur.id \in Ids /\ cur.id \in consent /\ buf \in Seq(Ids) /\ \A m \in recorded : m < cur.id
    BY <1>0, <1>4 DEF Record, LogInv, Fresh, Typed, TyEngine, TySink, Ids, InOrder
  <2>3. Waiting' = Waiting \cup {cur.id}
    BY <2>1, <2>2, ElemsAppend DEF Waiting
  <2>4. Waiting \cup rows \cup gone = recorded
    BY <1>0 DEF Waiting, Placed
  <2>5. Archive!Accept(cur.id)
    BY <2>1, <2>2, <2>3, <2>4 DEF Archive!Accept
  <2> QED
    BY <2>2, <2>5 DEF Archive!Next
<1>5. CASE MarkDeleted
  <2>1. deleted' = deleted \cup ({cur.id} \cap rows) /\ UNCHANGED <<minted, consent, buf, wbatch, lbatch, rows, gone, aged>>
    BY <1>5 DEF MarkDeleted, engineVars, sinkVars, loopVars, sweepVars, history
  <2>2. UNCHANGED Waiting
    BY <2>1 DEF Waiting
  <2>3. CASE cur.id \in rows
    <3>1. Archive!Flag(cur.id)
      BY <2>1, <2>2, <2>3 DEF Archive!Flag
    <3> QED
      BY <2>3, <3>1 DEF Archive!Next
  <2>4. CASE cur.id \notin rows
    <3>1. deleted' = deleted
      BY <2>1, <2>4
    <3> QED
      BY <2>1, <3>1, <1>1
  <2> QED
    BY <2>3, <2>4
<1>6. CASE WorkerTakes \/ LoopTick \/ LoopQuit
  <2>1. UNCHANGED <<minted, consent, rows, deleted, gone, aged>>
    BY <1>6 DEF WorkerTakes, LoopTick, LoopQuit, engineVars, storeVars, sweepVars, history
  <2>2. \/ wbatch = << >> /\ wbatch' = buf /\ buf' = << >> /\ UNCHANGED lbatch
        \/ lbatch = << >> /\ lbatch' = buf /\ buf' = << >> /\ UNCHANGED wbatch
    BY <1>0, <1>6 DEF WorkerTakes, LoopTick, LoopQuit, AfterTake, Batches, workerVars, loopVars
  <2>3. UNCHANGED Waiting
    BY <2>2, EmptyFacts DEF Waiting
  <2> QED
    BY <2>1, <2>3 DEF Archive!vars
<1>7. CASE WorkerWrites
  <2>1. AppendRows(wbatch) /\ wbatch' = << >> /\ UNCHANGED <<minted, consent, buf, lbatch, aged>>
    BY <1>7 DEF WorkerWrites, engineVars, sinkVars, loopVars, sweepVars
  <2>2. Waiting' = Waiting \ Elems(wbatch)
    BY <1>0, <2>1, EmptyFacts DEF Waiting, Placed, Apart
  <2> QED
    BY <2>1, <2>2, BatchWrites
<1>8. CASE LoopWrites
  <2>1. AppendRows(lbatch) /\ lbatch' = << >> /\ UNCHANGED <<minted, consent, buf, wbatch, aged>>
    BY <1>8 DEF LoopWrites, engineVars, sinkVars, workerVars, sweepVars
  <2>2. Waiting' = Waiting \ Elems(lbatch)
    BY <1>0, <2>1, EmptyFacts DEF Waiting, Placed, Apart
  <2> QED
    BY <2>1, <2>2, BatchWrites
<1>9. CASE Sweep
  <2>1. /\ rows' = rows \ Swept /\ deleted' = deleted \ Swept /\ gone' = gone \cup Swept
        /\ UNCHANGED <<minted, consent, buf, wbatch, lbatch, aged>>
    BY <1>9 DEF Sweep, engineVars, sinkVars, workerVars, loopVars, sweepVars
  <2>2. UNCHANGED Waiting /\ Swept \in SUBSET rows /\ \A m \in Swept : m <= aged
    BY <2>1 DEF Waiting, Swept, Old
  <2>3. Archive!Expire(Swept)
    BY <2>1, <2>2 DEF Archive!Expire
  <2> QED
    BY <2>2, <2>3 DEF Archive!Next
<1>10. CASE Age
  <2>1. aged < minted /\ aged' = minted /\ UNCHANGED <<minted, consent, buf, wbatch, lbatch, rows, deleted, gone>>
    BY <1>10 DEF Age, engineVars, sinkVars, workerVars, loopVars, storeVars, history
  <2>2. UNCHANGED Waiting
    BY <2>1 DEF Waiting
  <2>3. Archive!Age
    BY <2>1, <2>2 DEF Archive!Age
  <2> QED
    BY <2>3 DEF Archive!Next
<1>11. CASE Restart
  <2>1. /\ buf' = << >> /\ wbatch' = << >> /\ lbatch' = << >> /\ UNCHANGED <<minted, consent, rows, deleted, aged>>
        /\ gone' = gone \cup Elems(buf) \cup Elems(wbatch) \cup Elems(lbatch)
    BY <1>11 DEF Restart, storeVars
  <2>2. Waiting' = Waiting \ Waiting /\ gone' = gone \cup Waiting
    BY <2>1, EmptyFacts DEF Waiting
  <2>3. CASE Waiting = {}
    BY <2>1, <2>2, <2>3 DEF Archive!vars
  <2>4. CASE Waiting # {}
    <3>1. Archive!Lose(Waiting)
      BY <2>1, <2>2, <2>4, Runs DEF Archive!Lose
    <3> QED
      BY <3>1 DEF Archive!Next
  <2> QED
    BY <2>3, <2>4
<1>12. ASSUME NEW p \in PlatformIds, IngestDeletion(p)
       PROVE  UNCHANGED Archive!vars
  BY <1>1, <1>12 DEF IngestDeletion, engineVars, sinkVars, workerVars, loopVars, storeVars, sweepVars, history
<1>13. ASSUME NEW on \in BOOLEAN, Activate(on)
       PROVE  UNCHANGED Archive!vars
  BY <1>1, <1>13 DEF Activate, sinkVars, workerVars, loopVars, storeVars, sweepVars, history
<1>14. CASE \/ SetEnabled \/ SetRetention \/ ConsumeIgnores \/ Consume
            \/ CloseSweeper \/ Shutdown \/ UNCHANGED vars
  <2>1. UNCHANGED <<minted, consent, buf, wbatch, lbatch, rows, deleted, gone, aged>>
    BY <1>14 DEF SetEnabled, SetRetention, ConsumeIgnores, Consume, CloseSweeper, Shutdown, CloseSink, CloseDone,
                 vars, engineVars, sinkVars, workerVars, loopVars, storeVars, sweepVars, history
  <2> QED
    BY <1>1, <2>1
<1> QED
  BY <1>2, <1>3, <1>4, <1>5, <1>6, <1>7, <1>8, <1>9, <1>10, <1>11, <1>12, <1>13, <1>14
     DEF Next, Switch, Worker, Loop, Finished

(* The history is what the package promises, with all its goroutines: only what was said
   while logging was on is accepted, once and in the order in which it was said, and stored
   in runs; a row survives crashes, switches and the shutdown and leaves only
   past the retention window; and what was discarded, refused or swept never comes back.
   For any number of messages, any flush size, and without the bounds.        *)
THEOREM LogbookImplementsArchive == Spec => ImplementsArchive
<1>1. Init => Archive!Init
  <2> SUFFICES ASSUME Init PROVE Archive!Init
    OBVIOUS
  <2>1. Waiting = {}
    BY EmptyFacts DEF Init, Waiting
  <2> QED
    BY <2>1 DEF Init, Archive!Init
<1>2. Init => OrderInv
  <2> SUFFICES ASSUME Init PROVE OrderInv
    OBVIOUS
  <2>1. InOrder
    BY DEF Init, InOrder
  <2>2. BatchOrder
    BY EmptyFacts DEF Init, BatchOrder, Older
  <2> QED
    BY <2>1, <2>2, LogInvInit DEF OrderInv
<1>3. OrderInv /\ [Next]_vars => OrderInv'
  <2> SUFFICES ASSUME OrderInv, [Next]_vars PROVE OrderInv'
    OBVIOUS
  <2>1. LogInv /\ Typed /\ Fresh /\ InOrder /\ BatchOrder
    BY TypedIsTypeOK DEF OrderInv, LogInv
  <2> QED
    BY <2>1, LogInvStep, InOrderStep, BatchOrderStep DEF OrderInv
<1>4. OrderInv /\ [Next]_vars => [Archive!Next]_(Archive!vars)
  BY ArchiveStep
<1> QED
  BY <1>1, <1>2, <1>3, <1>4, PTL DEF Spec, ImplementsArchive, Archive!Spec
=============================================================================
