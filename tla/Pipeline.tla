------------------------------ MODULE Pipeline ------------------------------
(* The ingest pipeline: internal/pipeline/runner.go.

   Callers hand events to the runner through one bounded ingest channel; one
   dispatcher goroutine takes them in turn, runs the stages on messages and
   pushes every surviving event into the ring of each sink; each sink has a
   worker goroutine that drains its ring.  Close is called by any number of
   goroutines and runs its body once.

   An event is its ticket: the order in which the ingest channel accepted it.
   Whether it is a MessageEvent, which a stage may drop, is left open.  Every
   atomic step of a goroutine (one channel operation, one select, one counter) is an
   action of its own, so every interleaving the Go scheduler allows is a
   behaviour of Spec.                                                        *)
EXTENDS Naturals, Sequences, FiniteSets

CONSTANTS
  Forwarders,     \* goroutines started by Attach: Close waits for them
  Producers,      \* other callers of Submit: Close does not wait for them
  Closers,        \* goroutines that call Close
  NSinks,         \* the sinks are 1..NSinks, pushed to in this order
  IngestBuffer,   \* capacity of the channel r.in
  SinkBuffer,     \* capacity of each sink's ring
  MaxEvents       \* bound: events offered in one behaviour

Callers == Forwarders \cup Producers
Sinks == 1 .. NSinks

ASSUME CallersAssumption == Forwarders \cap Producers = {}
ASSUME SizesAssumption ==
  /\ NSinks \in Nat \ {0}
  /\ IngestBuffer \in Nat \ {0}
  /\ SinkBuffer \in Nat \ {0}
  /\ MaxEvents \in Nat

VARIABLES
  in,          \* contents of the channel r.in
  accepted,    \* events r.in has accepted so far; the next ticket is one more
  submitDrops, \* r.submitDrops
  caller,      \* caller -> "idle" | "submit" (inside Submit) | "done"
  dpc,         \* the dispatcher: "select" | "stages" | "push" | "full" | "done"
  dmode,       \* the dispatcher's loop: "run", or "drain" once it has seen quit
  cur,         \* ticket of the event the dispatcher took last
  at,          \* the sink the dispatcher is pushing to
  dispatched,  \* r.dispatched
  stageDrops,  \* r.stagePanics + r.stageErrors
  ring,        \* sink -> contents of its channel w.ch
  drops,       \* sink -> w.drops
  wpc,         \* sink -> its worker: "select" | "consume" | "done"
  wmode,       \* sink -> its worker's loop: "run", or "drain" once it has seen quit
  consumed,    \* sink -> number of Consume calls that returned
  last,        \* sink -> ticket of the last event handed to Consume
  closer,      \* closer -> "idle" | "attach" | "wg" | "sinks" | "once" | "returned"
  once,        \* r.closeOnce: "new" | "running" (quit is closed) | "done"
  closedSinks  \* sinks 1..closedSinks have been closed

ingestVars == <<in, accepted, submitDrops, caller>>
dispVars == <<dpc, dmode, cur, at, dispatched, stageDrops>>
sinkVars == <<ring, drops>>
workerVars == <<wpc, wmode, consumed, last>>
closeVars == <<closer, once, closedSinks>>
vars == <<ingestVars, dispVars, sinkVars, workerVars, closeVars>>

(* The body of closeOnce begins by closing r.quit. *)
quit == once # "new"

(* NewRunner and Start: empty channels, the dispatcher and every worker in its
   select.                                                                   *)
Init ==
  /\ in = << >> /\ accepted = 0 /\ submitDrops = 0
  /\ caller = [c \in Callers |-> "idle"]
  /\ dpc = "select" /\ dmode = "run" /\ cur = 0 /\ at = 1
  /\ dispatched = 0 /\ stageDrops = 0
  /\ ring = [s \in Sinks |-> << >>]
  /\ drops = [s \in Sinks |-> 0]
  /\ wpc = [s \in Sinks |-> "select"]
  /\ wmode = [s \in Sinks |-> "run"]
  /\ consumed = [s \in Sinks |-> 0]
  /\ last = [s \in Sinks |-> 0]
  /\ closer = [k \in Closers |-> "idle"]
  /\ once = "new"
  /\ closedSinks = 0

-----------------------------------------------------------------------------
(* Submit and Attach.                                                        *)

Submitting == Cardinality({c \in Callers : caller[c] = "submit"})

(* A producer calls Submit, or a forwarder receives from the adapter's channel
   (possibly after quit: its select may take either ready case).             *)
SubmitCall(c) ==
  /\ caller[c] = "idle"
  /\ accepted + submitDrops + Submitting < MaxEvents
  /\ caller' = [caller EXCEPT ![c] = "submit"]
  /\ UNCHANGED <<in, accepted, submitDrops, dispVars, sinkVars, workerVars, closeVars>>

(* Submit, case r.in <- ev. *)
SubmitSend(c) ==
  /\ caller[c] = "submit"
  /\ Len(in) < IngestBuffer
  /\ in' = Append(in, accepted + 1)
  /\ accepted' = accepted + 1
  /\ caller' = [caller EXCEPT ![c] = "idle"]
  /\ UNCHANGED <<submitDrops, dispVars, sinkVars, workerVars, closeVars>>

(* Mutant of SubmitQuit: a Submit that does not watch quit. *)
SubmitIgnoresQuit(c) == FALSE

(* Submit, case <-r.quit. *)
SubmitQuit(c) ==
  /\ caller[c] = "submit"
  /\ quit
  /\ submitDrops' = submitDrops + 1
  /\ caller' = [caller EXCEPT ![c] = "idle"]
  /\ UNCHANGED <<in, accepted, dispVars, sinkVars, workerVars, closeVars>>

(* The forwarder goroutine ends: its adapter closed the channel, or quit.     *)
ForwarderExit(c) ==
  /\ c \in Forwarders
  /\ caller[c] = "idle"
  /\ caller' = [caller EXCEPT ![c] = "done"]
  /\ UNCHANGED <<in, accepted, submitDrops, dispVars, sinkVars, workerVars, closeVars>>

-----------------------------------------------------------------------------
(* The dispatcher: dispatch, process, runStages, push.                       *)

DispatchRecv ==
  /\ dpc = "select"
  /\ in # << >>
  /\ dpc' = "stages"
  /\ cur' = Head(in)
  /\ in' = Tail(in)
  /\ UNCHANGED <<accepted, submitDrops, caller, dmode, at, dispatched, stageDrops,
                 sinkVars, workerVars, closeVars>>

(* dispatch, case <-r.quit: from here on an empty r.in ends the goroutine.    *)
DispatchQuit ==
  /\ dpc = "select" /\ dmode = "run"
  /\ quit
  /\ dmode' = "drain"
  /\ UNCHANGED <<ingestVars, dpc, cur, at, dispatched, stageDrops,
                 sinkVars, workerVars, closeVars>>

DispatchExit ==
  /\ dpc = "select" /\ dmode = "drain"
  /\ in = << >>
  /\ dpc' = "done"
  /\ UNCHANGED <<ingestVars, dmode, cur, at, dispatched, stageDrops,
                 sinkVars, workerVars, closeVars>>

(* Mutant of StageDrop: a message lost to a stage without being counted. *)
StageDropUncounted ==
  /\ dpc = "stages"
  /\ dpc' = "select"
  /\ UNCHANGED <<ingestVars, dmode, cur, at, dispatched, stageDrops,
                 sinkVars, workerVars, closeVars>>

(* runStages: the event is a message and a stage panicked or returned an error. *)
StageDrop ==
  /\ dpc = "stages"
  /\ stageDrops' = stageDrops + 1
  /\ dpc' = "select"
  /\ UNCHANGED <<ingestVars, dmode, cur, at, dispatched, sinkVars, workerVars, closeVars>>

(* process past the stages: count the event and turn to the first sink.       *)
FanOut ==
  /\ dpc = "stages"
  /\ dispatched' = dispatched + 1
  /\ dpc' = "push"
  /\ at' = 1
  /\ UNCHANGED <<ingestVars, dmode, cur, stageDrops, sinkVars, workerVars, closeVars>>

(* Mutant of AfterPush: the loop over the sinks runs one past the last. *)
AfterPushPastEnd ==
  \/ at <= NSinks /\ dpc' = "push" /\ at' = at + 1
  \/ at > NSinks /\ dpc' = "select" /\ at' = at

(* push to sink at has returned: the loop of process goes on. *)
AfterPush ==
  \/ at < NSinks /\ dpc' = "push" /\ at' = at + 1
  \/ at = NSinks /\ dpc' = "select" /\ at' = at

(* push, case w.ch <- ev. *)
PushSend ==
  /\ dpc = "push"
  /\ Len(ring[at]) < SinkBuffer
  /\ ring' = [ring EXCEPT ![at] = Append(@, cur)]
  /\ AfterPush
  /\ UNCHANGED <<ingestVars, dmode, cur, dispatched, stageDrops, drops,
                 workerVars, closeVars>>

(* Mutant of PushFull: a push that blocks until the ring has room. *)
PushBlocks == FALSE

(* push, the outer default: the ring was full at that instant. *)
PushFull ==
  /\ dpc = "push"
  /\ Len(ring[at]) >= SinkBuffer
  /\ dpc' = "full"
  /\ UNCHANGED <<ingestVars, dmode, cur, at, dispatched, stageDrops,
                 sinkVars, workerVars, closeVars>>

(* Mutants of PushDropOldest: the drop is not counted; the newest queued event
   is dropped instead of the oldest.                                         *)
PushDropUncounted ==
  /\ dpc = "full"
  /\ ring[at] # << >>
  /\ ring' = [ring EXCEPT ![at] = Tail(@)]
  /\ dpc' = "push"
  /\ UNCHANGED <<ingestVars, dmode, cur, at, dispatched, stageDrops, drops,
                 workerVars, closeVars>>

PushDropNewest ==
  /\ dpc = "full"
  /\ ring[at] # << >>
  /\ ring' = [ring EXCEPT ![at] = SubSeq(@, 1, Len(@) - 1)]
  /\ drops' = [drops EXCEPT ![at] = @ + 1]
  /\ dpc' = "push"
  /\ UNCHANGED <<ingestVars, dmode, cur, at, dispatched, stageDrops, workerVars, closeVars>>

(* push, case <-w.ch: the oldest event goes, even if the worker has made room
   since the ring was seen full.                                             *)
PushDropOldest ==
  /\ dpc = "full"
  /\ ring[at] # << >>
  /\ ring' = [ring EXCEPT ![at] = Tail(@)]
  /\ drops' = [drops EXCEPT ![at] = @ + 1]
  /\ dpc' = "push"
  /\ UNCHANGED <<ingestVars, dmode, cur, at, dispatched, stageDrops, workerVars, closeVars>>

(* push, the inner default: the worker emptied the ring in between. *)
PushRacedEmpty ==
  /\ dpc = "full"
  /\ ring[at] = << >>
  /\ dpc' = "push"
  /\ UNCHANGED <<ingestVars, dmode, cur, at, dispatched, stageDrops,
                 sinkVars, workerVars, closeVars>>

-----------------------------------------------------------------------------
(* The worker of sink s: sinkWorker.run.                                     *)

(* Mutant of WorkerRecv: the worker takes the newest event of the ring. *)
WorkerRecvNewest(s) ==
  /\ wpc[s] = "select"
  /\ ring[s] # << >>
  /\ wpc' = [wpc EXCEPT ![s] = "consume"]
  /\ ring' = [ring EXCEPT ![s] = SubSeq(@, 1, Len(@) - 1)]
  /\ last' = [last EXCEPT ![s] = ring[s][Len(ring[s])]]
  /\ UNCHANGED <<ingestVars, dispVars, drops, wmode, consumed, closeVars>>

WorkerRecv(s) ==
  /\ wpc[s] = "select"
  /\ ring[s] # << >>
  /\ wpc' = [wpc EXCEPT ![s] = "consume"]
  /\ ring' = [ring EXCEPT ![s] = Tail(@)]
  /\ last' = [last EXCEPT ![s] = Head(ring[s])]
  /\ UNCHANGED <<ingestVars, dispVars, drops, wmode, consumed, closeVars>>

(* Consume returns; an error is only counted and logged. *)
ConsumeReturn(s) ==
  /\ wpc[s] = "consume"
  /\ wpc' = [wpc EXCEPT ![s] = "select"]
  /\ consumed' = [consumed EXCEPT ![s] = @ + 1]
  /\ UNCHANGED <<ingestVars, dispVars, sinkVars, wmode, last, closeVars>>

(* run, case <-quit: from here on an empty ring ends the goroutine. *)
WorkerQuit(s) ==
  /\ wpc[s] = "select" /\ wmode[s] = "run"
  /\ quit
  /\ wmode' = [wmode EXCEPT ![s] = "drain"]
  /\ UNCHANGED <<ingestVars, dispVars, sinkVars, wpc, consumed, last, closeVars>>

WorkerExit(s) ==
  /\ wpc[s] = "select" /\ wmode[s] = "drain"
  /\ ring[s] = << >>
  /\ wpc' = [wpc EXCEPT ![s] = "done"]
  /\ UNCHANGED <<ingestVars, dispVars, sinkVars, wmode, consumed, last, closeVars>>

-----------------------------------------------------------------------------
(* Close, whose body runs inside closeOnce.                                  *)

CloseCall(k) ==
  /\ closer[k] = "idle"
  /\ once = "new"
  /\ once' = "running"
  /\ closer' = [closer EXCEPT ![k] = "attach"]
  /\ UNCHANGED <<closedSinks, ingestVars, dispVars, sinkVars, workerVars>>

(* A later caller waits in once.Do until the first one has finished. *)
CloseAgain(k) ==
  /\ closer[k] = "idle"
  /\ once # "new"
  /\ closer' = [closer EXCEPT ![k] = "once"]
  /\ UNCHANGED <<once, closedSinks, ingestVars, dispVars, sinkVars, workerVars>>

CloseOnceDone(k) ==
  /\ closer[k] = "once"
  /\ once = "done"
  /\ closer' = [closer EXCEPT ![k] = "returned"]
  /\ UNCHANGED <<once, closedSinks, ingestVars, dispVars, sinkVars, workerVars>>

(* r.attachWG.Wait() returns. *)
CloseAttachWait(k) ==
  /\ closer[k] = "attach"
  /\ \A f \in Forwarders : caller[f] = "done"
  /\ closer' = [closer EXCEPT ![k] = "wg"]
  /\ UNCHANGED <<once, closedSinks, ingestVars, dispVars, sinkVars, workerVars>>

(* Mutant of CloseWorkersWait: only the dispatcher is waited for. *)
CloseDispatcherWait(k) ==
  /\ closer[k] = "wg"
  /\ dpc = "done"
  /\ closer' = [closer EXCEPT ![k] = "sinks"]
  /\ UNCHANGED <<once, closedSinks, ingestVars, dispVars, sinkVars, workerVars>>

(* r.wg.Wait() returns. *)
CloseWorkersWait(k) ==
  /\ closer[k] = "wg"
  /\ dpc = "done"
  /\ \A s \in Sinks : wpc[s] = "done"
  /\ closer' = [closer EXCEPT ![k] = "sinks"]
  /\ UNCHANGED <<once, closedSinks, ingestVars, dispVars, sinkVars, workerVars>>

(* sink.Close() of the next sink returns; after the last one the once is done. *)
CloseSink(k) ==
  /\ closer[k] = "sinks"
  /\ closedSinks' = closedSinks + 1
  /\ \/ /\ closedSinks + 1 < NSinks
        /\ UNCHANGED <<closer, once>>
     \/ /\ closedSinks + 1 = NSinks
        /\ closer' = [closer EXCEPT ![k] = "returned"]
        /\ once' = "done"
  /\ UNCHANGED <<ingestVars, dispVars, sinkVars, workerVars>>

-----------------------------------------------------------------------------
CallerStep(c) == SubmitCall(c) \/ SubmitSend(c) \/ SubmitQuit(c) \/ ForwarderExit(c)
DispatcherStep ==
  \/ DispatchRecv \/ DispatchQuit \/ DispatchExit \/ StageDrop \/ FanOut
  \/ PushSend \/ PushFull \/ PushDropOldest \/ PushRacedEmpty
WorkerStep(s) == WorkerRecv(s) \/ ConsumeReturn(s) \/ WorkerQuit(s) \/ WorkerExit(s)
CloserStep(k) ==
  \/ CloseCall(k) \/ CloseAgain(k) \/ CloseOnceDone(k)
  \/ CloseAttachWait(k) \/ CloseWorkersWait(k) \/ CloseSink(k)

Next ==
  \/ \E c \in Callers : CallerStep(c)
  \/ DispatcherStep
  \/ \E s \in Sinks : WorkerStep(s)
  \/ \E k \in Closers : CloserStep(k)

Spec == Init /\ [][Next]_vars

(* The Go scheduler runs every goroutine that can run.  Calling Submit, Close
   and the closing of an adapter's channel are the environment's choice; a
   forwarder that sees quit does leave, and a started Close does go on.        *)
ForwarderQuit(c) == quit /\ ForwarderExit(c)
CloserRuns(k) ==
  \/ CloseOnceDone(k) \/ CloseAttachWait(k) \/ CloseWorkersWait(k) \/ CloseSink(k)

RunnerFairness ==
  /\ WF_vars(DispatcherStep)
  /\ \A c \in Callers : WF_vars(SubmitSend(c) \/ SubmitQuit(c))
  /\ \A f \in Forwarders : WF_vars(ForwarderQuit(f))
  /\ \A k \in Closers : WF_vars(CloserRuns(k))

(* Sink 1 may stop making progress at any point (a Consume that never returns). *)
FairSpec ==
  Spec /\ RunnerFairness /\ \A s \in Sinks \ {1} : WF_vars(WorkerStep(s))

-----------------------------------------------------------------------------
(* Properties.                                                               *)

TypeIngest ==
  /\ in \in Seq(Nat)
  /\ accepted \in Nat /\ submitDrops \in Nat
  /\ caller \in [Callers -> {"idle", "submit", "done"}]
TypeDispatch ==
  /\ dpc \in {"select", "stages", "push", "full", "done"}
  /\ dmode \in {"run", "drain"}
  /\ cur \in Nat /\ at \in Sinks
  /\ dispatched \in Nat /\ stageDrops \in Nat
TypeRings ==
  /\ ring \in [Sinks -> Seq(Nat)]
  /\ drops \in [Sinks -> Nat]
TypeWorkers ==
  /\ wpc \in [Sinks -> {"select", "consume", "done"}]
  /\ wmode \in [Sinks -> {"run", "drain"}]
  /\ consumed \in [Sinks -> Nat]
  /\ last \in [Sinks -> Nat]
TypeClose ==
  /\ closer \in [Closers -> {"idle", "attach", "wg", "sinks", "once", "returned"}]
  /\ once \in {"new", "running", "done"}
  /\ closedSinks \in 0 .. NSinks

(* The state of the runner is well formed. *)
TypeOK == TypeIngest /\ TypeDispatch /\ TypeRings /\ TypeWorkers /\ TypeClose

Pushing == dpc \in {"push", "full"}

(* Events that push has put into the ring of s so far. *)
Pushed(s) == IF Pushing /\ s >= at THEN dispatched - 1 ELSE dispatched

(* Ingest is lossless: every event r.in accepted is still queued, is the one in
   the dispatcher's hands, or was counted as dispatched or as a stage drop.    *)
IngestAccounting ==
  accepted = Len(in) + (IF dpc = "stages" THEN 1 ELSE 0) + dispatched + stageDrops

(* A slow sink loses only what w.drops counts: every event pushed to a sink is
   in its ring, in its Consume, consumed, or counted as dropped.               *)
Consuming(s) == IF wpc[s] = "consume" THEN 1 ELSE 0
Held(s) == consumed[s] + drops[s] + Len(ring[s]) + Consuming(s)
SinkAccounting == \A s \in Sinks : Pushed(s) = Held(s)

(* Each sink is handed events in the order the ingest channel accepted them,
   never one twice: the drop-oldest ring loses events but never reorders.      *)
ConsumeInOrder == [][\A s \in Sinks : last'[s] # last[s] => last'[s] > last[s]]_vars

(* What makes ConsumeInOrder inductive: the tickets between a sink's last
   event, its ring, the dispatcher's event and the ingest queue increase.      *)
Increasing(q) == \A i, j \in 1 .. Len(q) : i < j => q[i] < q[j]
Upstream(s) == IF dpc = "stages" \/ (Pushing /\ s >= at) THEN cur ELSE cur + 1
QueueOrder ==
  /\ \A i \in 1 .. Len(in) : in[i] = accepted - Len(in) + i
  /\ cur = accepted - Len(in)
SinkOrder(s) ==
  /\ Increasing(ring[s])
  /\ \A i \in 1 .. Len(ring[s]) : last[s] < ring[s][i] /\ ring[s][i] < Upstream(s)
  /\ last[s] < Upstream(s)
TicketOrder == QueueOrder /\ \A s \in Sinks : SinkOrder(s)

(* Every goroutine Close waits for has ended. *)
GoroutinesDone ==
  /\ dpc = "done"
  /\ \A s \in Sinks : wpc[s] = "done"
  /\ \A f \in Forwarders : caller[f] = "done"

(* Close tears down in order: a sink is closed only when no goroutine can call
   its Consume or push to it any more, and no Close call returns (a second,
   concurrent one included) before every sink is closed.                       *)
CloseAfterWorkers ==
  /\ closedSinks > 0 => GoroutinesDone
  /\ \A k \in Closers : closer[k] = "returned" => closedSinks = NSinks

(* What makes CloseAfterWorkers inductive: only the goroutine inside closeOnce
   is past "idle" and not waiting for it, and what it has waited for is over.   *)
Running(k) == closer[k] \in {"attach", "wg", "sinks"}
CloseOrder ==
  /\ \A k \in Closers :
       /\ Running(k) => once = "running"
       /\ closer[k] \in {"attach", "wg"} => closedSinks = 0
       /\ closer[k] = "wg" => \A f \in Forwarders : caller[f] = "done"
       /\ closer[k] = "sinks" => GoroutinesDone /\ closedSinks < NSinks
       /\ closer[k] = "returned" => once = "done"
  /\ \A k, l \in Closers : Running(k) /\ Running(l) => k = l
  /\ closedSinks > 0 => GoroutinesDone
  /\ once = "new" => closedSinks = 0
  /\ once = "done" => closedSinks = NSinks

(* The newest event is never the one lost: a drop removes an event older than
   everything left in the ring and than the event being pushed.                *)
DropsOldest ==
  [][\A s \in Sinks : drops'[s] # drops[s] =>
       /\ at = s /\ ring[s][1] < cur
       /\ \A i \in 1 .. Len(ring'[s]) : ring[s][1] < ring'[s][i]]_vars

(* A Close that was called returns, whatever the callers of Submit do, provided the
   Consume of sink 1 returns as well.                                          *)
CloseReturns ==
  WF_vars(WorkerStep(1)) => \A k \in Closers : closer[k] # "idle" ~> closer[k] = "returned"

(* With sink 1 stuck for ever, the dispatcher still takes every accepted event off the
   ingest queue and the other sinks still get or drop each of them: until Close, the
   rest of the runner catches up again and again.                              *)
CaughtUp ==
  /\ in = << >> /\ dpc = "select"
  /\ \A s \in Sinks \ {1} : ring[s] = << >> /\ wpc[s] # "consume"
SlowSinkIsolated == []<>(quit \/ CaughtUp)

(* Submit's comment: an event is dropped only by counting it.  After Close has
   returned and no Submit is running, nothing is left in the ingest channel.    *)
IngestDrained ==
  (\A c \in Callers : caller[c] # "submit") /\ (once = "done") => in = << >>

(* The Runner's comment: a sink loses only counted events.  After Close has
   returned every event fanned out was consumed or counted as dropped.          *)
SinksDrained ==
  once = "done" => \A s \in Sinks : dispatched = consumed[s] + drops[s]

(* Nothing is lost uncounted by a shutdown, in the ingest channel or in a ring. *)
LossesCounted == IngestDrained /\ SinksDrained

(* LossyFeed's view of the runner: an event is offered to a sink once push has
   put it into the ring, whatever Close is doing.                              *)
Feed == INSTANCE LossyFeed WITH
  Consumers <- Sinks, Depth <- SinkBuffer,
  event <- cur, fresh <- (dpc = "stages"), published <- dispatched,
  offered <- [s \in Sinks |-> Pushed(s)],
  pending <- ring, lost <- drops, seen <- last

(* The Runner's comment (runner.go:31-35): "a slow sink only loses its own oldest events
   (counted) and never stalls the dispatcher or other sinks".  With all its goroutines
   and their two-step push, the runner implements the feed that says just this.  *)
ImplementsFeed == Feed!Spec
=============================================================================
