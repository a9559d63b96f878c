----------------------------- MODULE MessageLog ------------------------------
(***************************************************************************)
(* How a chat message comes to be logged, and ceases to be: the engine     *)
(* stamps it (src/internal/engine/engine.go, idmap.go), the logbook sink   *)
(* buffers and flushes it (src/internal/logbook/logbook.go), the store     *)
(* keeps it (src/internal/store/sqlcommon/core.go), the sweeper deletes it *)
(* (src/internal/logbook/sweeper.go), and the profile manager switches     *)
(* logging on and off meanwhile (loggingControl in src/internal/app).      *)
(*                                                                         *)
(* The pipeline between the engine and the sink is a FIFO queue; that it   *)
(* keeps the order and closes a sink only after its worker has ended is    *)
(* shown in Pipeline.                                                      *)
(***************************************************************************)
EXTENDS Integers, Sequences, FiniteSets

CONSTANTS
  Total,        \* bound: messages ingested
  PlatformIds,  \* platform message ids; one may be delivered again
  ChannelOf,    \* the channel of a message, [1..Total -> channel keys]
  FlushAt,      \* flushAt
  IdCap,        \* capacity of the engine's idMap
  MaxSwitches,  \* bound: profile activations that switch logging
  MaxDeletes,   \* bound: deletions
  MaxFails,     \* bound: Appends that fail
  MaxRestarts   \* bound: restarts of the daemon

Ids == 1 .. Total    \* engine ULIDs: they grow with the ingest order
None == 0            \* the empty id, and an empty slot of the idMap's ring

ASSUME MessageLogAssumption ==
  /\ Total \in Nat /\ FlushAt \in Nat \ {0} /\ IdCap \in Nat \ {0}
  /\ None \notin PlatformIds
  /\ DOMAIN ChannelOf = Ids

VARIABLES
  minted,    \* messages ingested so far
  logging,   \* Engine.logging
  consent,   \* the messages stamped while it was on (history)
  ring, slot,  \* idMap.ring and idMap.next
  ids,       \* idMap.m: platform id -> ULID, None if absent
  puts,      \* the platform ids that took a slot, oldest first (history)
  queue,     \* events on their way to the sink
  enabled,   \* Sink.enabled
  buf,       \* Sink.buf
  known,     \* Sink.channels
  wpc, cur,  \* the sink's worker and the event it consumes
  wbatch,    \* the batch that its flush has taken
  lpc, lbatch,  \* the flush loop, likewise
  rows,      \* the messages table
  deleted,   \* the rows flagged deleted
  aged,      \* messages up to this one are older than the retention window
  retain,    \* Sweeper.retain is a window
  wants,     \* the active profile's logging setting
  mpc,       \* where loggingControl.SetLogging is
  recorded, gone,  \* messages buffered, and dropped on purpose (history)
  closing,   \* the daemon's shutdown
  switches, deletes, fails, restarts

engineVars == <<minted, logging, consent, ring, slot, ids, puts>>
sinkVars == <<enabled, buf, known>>
workerVars == <<wpc, cur, wbatch>>
loopVars == <<lpc, lbatch>>
storeVars == <<rows, deleted>>
sweepVars == <<aged, retain>>
ctlVars == <<wants, mpc>>
history == <<recorded, gone>>
bounds == <<switches, deletes, fails, restarts>>
vars == <<engineVars, queue, sinkVars, workerVars, loopVars, storeVars, sweepVars,
          ctlVars, history, closing, bounds>>

Event == [kind : {"message", "ephemeral", "deleted"}, id : Ids \cup {None}]
Elems(s) == {s[i] : i \in DOMAIN s}

TypeOK ==
  /\ minted \in 0 .. Total
  /\ logging \in BOOLEAN /\ enabled \in BOOLEAN /\ retain \in BOOLEAN /\ wants \in BOOLEAN
  /\ consent \subseteq Ids
  /\ ring \in [1 .. IdCap -> PlatformIds \cup {None}] /\ slot \in 1 .. IdCap
  /\ ids \in [PlatformIds -> Ids \cup {None}]
  /\ puts \in Seq(PlatformIds)
  /\ queue \in Seq(Event) /\ cur \in Event
  /\ buf \in Seq(Ids) /\ Len(buf) <= FlushAt
  /\ wbatch \in Seq(Ids) /\ lbatch \in Seq(Ids)
  /\ known \subseteq {ChannelOf[i] : i \in Ids}
  /\ wpc \in {"idle", "record", "mark", "flush", "write"}
  /\ lpc \in {"select", "write", "final", "done"}
  /\ rows \subseteq Ids /\ deleted \subseteq rows
  /\ aged \in 0 .. Total
  /\ mpc \in {"idle", "sink", "discard", "retention"}
  /\ recorded \subseteq Ids /\ gone \subseteq Ids
  /\ closing \in {"no", "sweeper", "sink", "done"}

Nothing == [kind |-> "deleted", id |-> None]

\* The daemon starts by activating the default profile: the engine's flag is
\* set, the sink's is not yet.
Init ==
  /\ wants \in BOOLEAN
  /\ minted = 0 /\ logging = wants /\ consent = {}
  /\ ring = [i \in 1 .. IdCap |-> None] /\ slot = 1
  /\ ids = [p \in PlatformIds |-> None] /\ puts = << >>
  /\ queue = << >>
  /\ enabled = FALSE /\ buf = << >> /\ known = {}
  /\ wpc = "idle" /\ cur = Nothing /\ wbatch = << >>
  /\ lpc = "select" /\ lbatch = << >>
  /\ rows = {} /\ deleted = {}
  /\ aged = 0 /\ retain = FALSE
  /\ mpc = "sink"
  /\ recorded = {} /\ gone = {}
  /\ closing = "no"
  /\ switches = 0 /\ deletes = 0 /\ fails = 0 /\ restarts = 0

-----------------------------------------------------------------------------
(* The engine: ingest of a message and of a deletion.                      *)

\* t.Message.Ephemeral = !e.logging.Load()
StampStuck(on) == "message"
Stamp(on) == IF on THEN "message" ELSE "ephemeral"

NextSlotStuck == slot
NextSlot == (slot % IdCap) + 1

\* idMap.put: a known key is updated in place, a new one takes the slot of the
\* oldest.
Put(p, u) ==
  IF ids[p] # None
  THEN ids' = [ids EXCEPT ![p] = u] /\ UNCHANGED <<ring, slot, puts>>
  ELSE /\ ids' = [q \in PlatformIds |-> IF q = p THEN u
                                        ELSE IF q = ring[slot] THEN None ELSE ids[q]]
       /\ ring' = [ring EXCEPT ![slot] = p]
       /\ slot' = NextSlot
       /\ puts' = Append(puts, p)

IngestMessage(p) ==
  /\ minted < Total /\ closing = "no"
  /\ minted' = minted + 1
  /\ Put(p, minted + 1)
  /\ consent' = IF logging THEN consent \cup {minted + 1} ELSE consent
  /\ queue' = Append(queue, [kind |-> Stamp(logging), id |-> minted + 1])
  /\ UNCHANGED <<logging, sinkVars, workerVars, loopVars, storeVars, sweepVars,
                 ctlVars, history, closing, bounds>>

IngestDeletion(p) ==
  /\ deletes < MaxDeletes /\ closing = "no"
  /\ deletes' = deletes + 1
  /\ queue' = Append(queue, [kind |-> "deleted", id |-> ids[p]])
  /\ UNCHANGED <<engineVars, sinkVars, workerVars, loopVars, storeVars, sweepVars,
                 ctlVars, history, closing, switches, fails, restarts>>

-----------------------------------------------------------------------------
(* loggingControl.SetLogging, called by the profile manager under its      *)
(* activation lock: engine, then sink, then sweeper.                       *)

Activate(on) ==
  /\ mpc = "idle" /\ switches < MaxSwitches
  /\ switches' = switches + 1
  /\ wants' = on
  /\ logging' = on
  /\ mpc' = "sink"
  /\ UNCHANGED <<minted, consent, ring, slot, ids, puts, queue, sinkVars, workerVars,
                 loopVars, storeVars, sweepVars, history, closing, deletes, fails, restarts>>

\* s.enabled.Store(on)
SetEnabled ==
  /\ mpc = "sink"
  /\ enabled' = wants
  /\ mpc' = IF wants THEN "retention" ELSE "discard"
  /\ UNCHANGED <<engineVars, queue, buf, known, workerVars, loopVars, storeVars,
                 sweepVars, wants, history, closing, bounds>>

\* s.buf = nil
Discard ==
  /\ mpc = "discard"
  /\ buf' = << >>
  /\ gone' = gone \cup Elems(buf)
  /\ mpc' = "retention"
  /\ UNCHANGED <<engineVars, queue, enabled, known, workerVars, loopVars, storeVars,
                 sweepVars, wants, recorded, closing, bounds>>

SetRetention ==
  /\ mpc = "retention"
  /\ retain' = TRUE
  /\ mpc' = "idle"
  /\ UNCHANGED <<engineVars, queue, sinkVars, workerVars, loopVars, storeVars, aged,
                 wants, history, closing, bounds>>

-----------------------------------------------------------------------------
(* The sink's worker: Consume.                                             *)

\* Taken from the queue; nothing to do when off, ephemeral or unresolved.
Ignored(e) ==
  \/ closing \in {"sink", "done"} \/ ~enabled
  \/ e.kind = "ephemeral" \/ e.id = None

ConsumeIgnores ==
  /\ wpc = "idle" /\ queue # << >> /\ Ignored(Head(queue))
  /\ queue' = Tail(queue)
  /\ UNCHANGED <<engineVars, sinkVars, workerVars, loopVars, storeVars, sweepVars,
                 ctlVars, history, closing, bounds>>

Consume ==
  /\ wpc = "idle" /\ queue # << >> /\ ~Ignored(Head(queue))
  /\ queue' = Tail(queue)
  /\ cur' = Head(queue)
  /\ wpc' = IF Head(queue).kind = "deleted" THEN "mark" ELSE "record"
  /\ UNCHANGED <<engineVars, sinkVars, wbatch, loopVars, storeVars, sweepVars,
                 ctlVars, history, closing, bounds>>

\* The critical section that buffers; enabled is not looked at again.
Record ==
  /\ wpc = "record"
  /\ buf' = Append(buf, cur.id)
  /\ known' = known \cup {ChannelOf[cur.id]}
  /\ recorded' = recorded \cup {cur.id}
  /\ wpc' = IF Len(buf) + 1 >= FlushAt THEN "flush" ELSE "idle"
  /\ UNCHANGED <<engineVars, queue, enabled, cur, wbatch, loopVars, storeVars, sweepVars,
                 ctlVars, gone, closing, bounds>>

\* store.MarkDeleted: an UPDATE, which finds the row or does not.
MarkDeleted ==
  /\ wpc = "mark"
  /\ deleted' = deleted \cup ({cur.id} \cap rows)
  /\ wpc' = "idle"
  /\ UNCHANGED <<engineVars, queue, sinkVars, cur, wbatch, loopVars, rows, sweepVars,
                 ctlVars, history, closing, bounds>>

\* What is left in the buffer once a flush has taken its batch.
AfterTakeKept == buf
AfterTake == << >>

\* flush on the worker: take the batch under the lock, then Append.
WorkerTakes ==
  /\ wpc = "flush"
  /\ wbatch' = buf /\ buf' = AfterTake
  /\ wpc' = IF buf = << >> THEN "idle" ELSE "write"
  /\ UNCHANGED <<engineVars, queue, enabled, known, cur, loopVars, storeVars, sweepVars,
                 ctlVars, history, closing, bounds>>

\* messageRepo.Append: all or nothing.  A batch with an ephemeral message is
\* refused, but the sink has none.
AppendRows(batch) ==
  \/ /\ rows' = rows \cup Elems(batch)
     /\ UNCHANGED <<deleted, gone, fails>>
  \/ /\ fails < MaxFails
     /\ fails' = fails + 1
     /\ gone' = gone \cup Elems(batch)
     /\ UNCHANGED <<rows, deleted>>

WorkerWrites ==
  /\ wpc = "write"
  /\ AppendRows(wbatch)
  /\ wbatch' = << >> /\ wpc' = "idle"
  /\ UNCHANGED <<engineVars, queue, sinkVars, cur, loopVars, sweepVars, ctlVars,
                 recorded, closing, switches, deletes, restarts>>

-----------------------------------------------------------------------------
(* The flush loop, and Close with its final drain.                         *)

LoopTick ==
  /\ lpc = "select" /\ buf # << >>
  /\ lbatch' = buf /\ buf' = AfterTake
  /\ lpc' = "write"
  /\ UNCHANGED <<engineVars, queue, enabled, known, workerVars, storeVars, sweepVars,
                 ctlVars, history, closing, bounds>>

LoopWrites ==
  /\ lpc \in {"write", "final"}
  /\ AppendRows(lbatch)
  /\ lbatch' = << >>
  /\ lpc' = IF lpc = "final" THEN "done" ELSE "select"
  /\ UNCHANGED <<engineVars, queue, sinkVars, workerVars, sweepVars, ctlVars,
                 recorded, closing, switches, deletes, restarts>>

\* A quit that skips the last flush.
LoopQuitDry ==
  /\ lpc = "select" /\ closing = "sink"
  /\ lpc' = "done"
  /\ UNCHANGED <<engineVars, queue, sinkVars, workerVars, lbatch, storeVars, sweepVars,
                 ctlVars, history, closing, bounds>>

\* quit is seen: take what is left, write it, return.
LoopQuit ==
  /\ lpc = "select" /\ closing = "sink"
  /\ lbatch' = buf /\ buf' = AfterTake
  /\ lpc' = IF buf = << >> THEN "done" ELSE "final"
  /\ UNCHANGED <<engineVars, queue, enabled, known, workerVars, storeVars, sweepVars,
                 ctlVars, history, closing, bounds>>

\* Daemon.Close: the engine ends first, then the sweeper, then the runner,
\* whose workers drain their queues before it closes the sinks.  An activation
\* that is under way goes on.
CloseSweeper ==
  /\ closing = "no"
  /\ closing' = "sweeper"
  /\ UNCHANGED <<engineVars, queue, sinkVars, workerVars, loopVars, storeVars, sweepVars,
                 ctlVars, history, bounds>>

CloseSink ==
  /\ closing = "sweeper" /\ wpc = "idle" /\ queue = << >>
  /\ closing' = "sink"
  /\ UNCHANGED <<engineVars, queue, sinkVars, workerVars, loopVars, storeVars, sweepVars,
                 ctlVars, history, bounds>>

CloseDone ==
  /\ closing = "sink" /\ lpc = "done"
  /\ closing' = "done"
  /\ UNCHANGED <<engineVars, queue, sinkVars, workerVars, loopVars, storeVars, sweepVars,
                 ctlVars, history, bounds>>

\* A crash: what is in memory is gone, and the daemon starts again.
Restart ==
  /\ closing = "no" /\ restarts < MaxRestarts
  /\ restarts' = restarts + 1
  /\ queue' = << >> /\ buf' = << >> /\ known' = {} /\ enabled' = FALSE
  /\ wpc' = "idle" /\ cur' = Nothing /\ wbatch' = << >>
  /\ lpc' = "select" /\ lbatch' = << >>
  /\ gone' = gone \cup Elems(buf) \cup Elems(wbatch) \cup Elems(lbatch)
  /\ ring' = [i \in 1 .. IdCap |-> None] /\ slot' = 1
  /\ ids' = [p \in PlatformIds |-> None] /\ puts' = << >>
  /\ logging' = wants /\ retain' = FALSE /\ mpc' = "sink"
  /\ UNCHANGED <<minted, consent, storeVars, aged, wants, recorded, closing,
                 switches, deletes, fails>>

-----------------------------------------------------------------------------
(* Retention.                                                              *)

\* Time passes: the messages ingested so far leave the retention window.
Age ==
  /\ aged < minted
  /\ aged' = minted
  /\ UNCHANGED <<engineVars, queue, sinkVars, workerVars, loopVars, storeVars, retain,
                 ctlVars, history, closing, bounds>>

OldAtTheEdge == {m \in Ids : m <= aged + 1}
Old == {m \in Ids : m <= aged}

\* sweep: one DELETE per channel the sink has written to.
Swept == {m \in rows \cap Old : ChannelOf[m] \in known}

Sweep ==
  /\ retain /\ closing = "no" /\ Swept # {}
  /\ rows' = rows \ Swept
  /\ deleted' = deleted \ Swept
  /\ gone' = gone \cup Swept
  /\ UNCHANGED <<engineVars, queue, sinkVars, workerVars, loopVars, sweepVars, ctlVars,
                 recorded, closing, bounds>>

-----------------------------------------------------------------------------
Switch == SetEnabled \/ Discard \/ SetRetention
Worker == ConsumeIgnores \/ Consume \/ Record \/ MarkDeleted \/ WorkerTakes \/ WorkerWrites
Loop == LoopTick \/ LoopWrites \/ LoopQuit
Shutdown == CloseSink \/ CloseDone

Finished == closing = "done" /\ UNCHANGED vars

Next ==
  \/ \E p \in PlatformIds : IngestMessage(p) \/ IngestDeletion(p)
  \/ \E on \in BOOLEAN : Activate(on)
  \/ Switch \/ Worker \/ Loop \/ Sweep \/ Age
  \/ CloseSweeper \/ Shutdown \/ Restart \/ Finished

Spec == Init /\ [][Next]_vars

\* The goroutines run and the tickers tick.
FairSpec ==
  /\ Spec
  /\ WF_vars(Switch) /\ WF_vars(Worker) /\ WF_vars(Loop) /\ WF_vars(Sweep)
  /\ WF_vars(Shutdown)

-----------------------------------------------------------------------------
(* Properties.                                                             *)

\* "Logging off => nothing written": a row is a message that was stamped while
\* the engine's logging was on, whatever the sink's flag was by then.
OnlyConsented == rows \subseteq consent

\* A message the sink has buffered is in exactly one place: the buffer, a
\* batch, the table, or dropped by a rule (logging switched off, an Append
\* that failed, the sweeper, a crash).  Two flushes may run at the same time,
\* and the buffer never holds more than the size at which it is flushed.
Places(m) ==
  Cardinality({i \in DOMAIN buf : buf[i] = m}) +
  Cardinality({i \in DOMAIN wbatch : wbatch[i] = m}) +
  Cardinality({i \in DOMAIN lbatch : lbatch[i] = m}) +
  (IF m \in rows THEN 1 ELSE 0) + (IF m \in gone THEN 1 ELSE 0)
OnePlace == TypeOK /\ \A m \in Ids : Places(m) = IF m \in recorded THEN 1 ELSE 0

\* Close drains: once it returns nothing is left in the buffer or in a batch.
DrainedAtClose == closing = "done" => buf = << >> /\ lbatch = << >> /\ wbatch = << >>

\* A deletion finds the message: the last IdCap platform ids that took a slot
\* are the ones the idMap resolves, and a redelivered id does not shorten that.
Newest == {puts[i] : i \in {j \in DOMAIN puts : j > Len(puts) - IdCap}}
RecentResolvable == {p \in PlatformIds : ids[p] # None} = Newest

\* "Messages older than 30 days are deleted nightly": a row past the window is
\* deleted, unless the daemon is stopped.
RetentionEnforced ==
  \A m \in Ids : (m \in rows /\ m \in Old) ~> (m \notin rows \/ closing # "no")

(* MessageArchive's view: what the buffer and the two batches hold waits.  *)
Waiting == Elems(buf) \cup Elems(wbatch) \cup Elems(lbatch)
Archive == INSTANCE MessageArchive WITH
  said <- minted, consented <- consent, pending <- Waiting, stored <- rows,
  flagged <- deleted, lost <- gone, expired <- aged

\* The history is what the package promises ("logging off => nothing written",
\* "a Sweeper enforces retention", logbook.go): only what was said while logging
\* was on gets there, in runs and in one step each; a row survives crashes,
\* switches and the shutdown and leaves only past the window; and what was
\* discarded, refused or swept never comes back.
ImplementsArchive == Archive!Spec

\* Two statements that TLC refutes (see the README): that a deleted message is
\* not stored as undeleted, and that switching off leaves no batch to write.
DeletionSticks ==
  [][\A m \in Ids : wpc = "mark" /\ cur.id = m /\ wpc' = "idle" =>
       m \in deleted' \/ m \notin Elems(buf) \cup Elems(lbatch)]_vars
OffWritesNothing == [][~wants /\ mpc = "idle" => rows' \subseteq rows]_vars
=============================================================================
