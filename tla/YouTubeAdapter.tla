--------------------------- MODULE YouTubeAdapter ---------------------------
(* The YouTube adapter: one polling worker for each joined channel            *)
(* (youtube.Adapter).  A worker waits for a broadcast, fetches the chat's     *)
(* continuation and polls until the broadcast ends; Join, Leave and Close     *)
(* start and stop workers while others are anywhere in that cycle.            *)
EXTENDS Integers, FiniteSets, Sequences

CONSTANTS
  YtChannels,        \* channels
  YtJoins,           \* concurrent calls of Join
  YtEventCap,        \* capacity of the events channel
  MaxPollFailures,   \* maxPollFailures
  MaxYtWorkers,      \* bound on workers started
  MaxYtJoins         \* bound on calls of Join

ASSUME YouTubeConstants == {YtEventCap, MaxPollFailures, MaxYtWorkers, MaxYtJoins} \subseteq Nat \ {0}

VARIABLES
  ytListed,    \* workers: the worker that can be cancelled through each channel's entry, 0 for none
  ytWorker,    \* workers started so far, each with its place in the cycle
  ytJoin,      \* each call of Join
  ytClose,     \* Close: "no", "waits" or "done"
  ytBuf,       \* events waiting for the engine
  ytPanic,     \* an event was sent on the closed events channel
  ytCalls      \* calls of Join so far

ytVars == <<ytListed, ytWorker, ytJoin, ytClose, ytBuf, ytPanic, ytCalls>>

YtIdle == [pc |-> "idle"]
YouTubeInit ==
  /\ ytListed = [c \in YtChannels |-> 0] /\ ytWorker = <<>> /\ ytCalls = 0
  /\ ytJoin = [j \in YtJoins |-> YtIdle] /\ ytClose = "no" /\ ytBuf = 0 /\ ytPanic = FALSE

Running(w) == ytWorker[w].pc # "ended"
\* The worker's context: cancelled by Leave, or with the adapter's by Close.
Cancelled(w) == ytWorker[w].left \/ ytClose # "no"

\* emit: either ready branch of the select may be taken.
YtEmit(w) ==
  \/ Cancelled(w) /\ UNCHANGED <<ytBuf, ytPanic>>
  \/ ytClose # "done" /\ ytBuf < YtEventCap /\ ytBuf' = ytBuf + 1 /\ UNCHANGED ytPanic
  \/ ytClose = "done" /\ ytPanic' = TRUE /\ UNCHANGED ytBuf

\* The worker moves on with a new health, which is emitted only when it differs.
Moves(w, pc, h, fails) ==
  /\ ytWorker' = [ytWorker EXCEPT ![w] = [@ EXCEPT !.pc = pc, !.health = h, !.fails = fails]]
  /\ IF h # ytWorker[w].health THEN YtEmit(w) ELSE UNCHANGED <<ytBuf, ytPanic>>

-----------------------------------------------------------------------------
(* Join, Leave and Close. *)

\* The first look at workers, then the resolve outside the lock.
YtJoinBegins(j, c) ==
  /\ ytJoin[j] = YtIdle /\ ytCalls < MaxYtJoins /\ ytClose = "no" /\ ytListed[c] = 0
  /\ ytJoin' = [ytJoin EXCEPT ![j] = [pc |-> "resolve", ch |-> c]] /\ ytCalls' = ytCalls + 1
  /\ UNCHANGED <<ytListed, ytWorker, ytClose, ytBuf, ytPanic>>

\* Only "channel not found" fails the join.
YtJoinUnknown(j) ==
  /\ ytJoin[j].pc = "resolve" /\ ytJoin' = [ytJoin EXCEPT ![j] = YtIdle]
  /\ UNCHANGED <<ytListed, ytWorker, ytClose, ytBuf, ytPanic, ytCalls>>

NewWorker(c, live) ==
  [ch |-> c, pc |-> IF live THEN "next" ELSE "wait", health |-> "none", fails |-> 0, left |-> FALSE, todo |-> 0]
Starts(j, c) ==
  /\ Len(ytWorker) < MaxYtWorkers
  /\ \E live \in BOOLEAN : ytWorker' = Append(ytWorker, NewWorker(c, live))
  /\ ytListed' = [ytListed EXCEPT ![c] = Len(ytWorker) + 1]

\* Bugs for comparison: a second Join, or Close, is not noticed after the resolve.
YtJoinStartsTwice(j) ==
  /\ ytJoin[j].pc = "resolve"
  /\ IF ytClose = "no" THEN Starts(j, ytJoin[j].ch) ELSE UNCHANGED <<ytListed, ytWorker>>
  /\ ytJoin' = [ytJoin EXCEPT ![j] = YtIdle]
  /\ UNCHANGED <<ytClose, ytBuf, ytPanic, ytCalls>>
YtJoinStartsLate(j) ==
  /\ ytJoin[j].pc = "resolve"
  /\ IF ytListed[ytJoin[j].ch] = 0 THEN Starts(j, ytJoin[j].ch) ELSE UNCHANGED <<ytListed, ytWorker>>
  /\ ytJoin' = [ytJoin EXCEPT ![j] = YtIdle]
  /\ UNCHANGED <<ytClose, ytBuf, ytPanic, ytCalls>>

YtJoinStarts(j) ==
  /\ ytJoin[j].pc = "resolve"
  /\ IF ytClose = "no" /\ ytListed[ytJoin[j].ch] = 0 THEN Starts(j, ytJoin[j].ch)
     ELSE UNCHANGED <<ytListed, ytWorker>>
  /\ ytJoin' = [ytJoin EXCEPT ![j] = YtIdle]
  /\ UNCHANGED <<ytClose, ytBuf, ytPanic, ytCalls>>

YtLeave(c) ==
  /\ ytListed[c] # 0 /\ ytListed' = [ytListed EXCEPT ![c] = 0]
  /\ ytWorker' = [ytWorker EXCEPT ![ytListed[c]].left = TRUE]
  /\ UNCHANGED <<ytJoin, ytClose, ytBuf, ytPanic, ytCalls>>

YtCloseBegins ==
  /\ ytClose = "no" /\ ytClose' = "waits" /\ ytListed' = [c \in YtChannels |-> 0]
  /\ UNCHANGED <<ytWorker, ytJoin, ytBuf, ytPanic, ytCalls>>
YtCloseReturns ==
  /\ ytClose = "waits" /\ \A w \in 1 .. Len(ytWorker) : ~Running(w)
  /\ ytClose' = "done"
  /\ UNCHANGED <<ytListed, ytWorker, ytJoin, ytBuf, ytPanic, ytCalls>>

-----------------------------------------------------------------------------
(* The worker. *)

Step(w, from, pc, h, fails) ==
  /\ ytWorker[w].pc = from /\ Moves(w, pc, h, fails)
  /\ UNCHANGED <<ytListed, ytJoin, ytClose, ytCalls>>

\* A cancelled worker ends at the next look at its context: every sleep, every
\* request and every turn of the loops.
WorkerEndsCancelled(w) ==
  /\ Running(w) /\ Cancelled(w) /\ ytWorker[w].todo = 0
  /\ ytWorker' = [ytWorker EXCEPT ![w].pc = "ended"]
  /\ UNCHANGED <<ytListed, ytJoin, ytClose, ytBuf, ytPanic, ytCalls>>

\* runWorker has no broadcast: it says so and waits.
Waits(w) == Step(w, "wait", "sleep", "not_live", 0)
\* waitForLive: found, or still not, each with its reason.
FoundLive(w) == Step(w, "sleep", "next", ytWorker[w].health, 0)
StillWaits(w, h) == Step(w, "sleep", "sleep", h, 0)
FetchContinuation(w) == Step(w, "next", "poll", "ok", 0)
NoContinuation(w) == Step(w, "next", "wait", ytWorker[w].health, 0)

\* pollChat: an error is retried, and after MaxPollFailures in a row the
\* broadcast is looked up again.
FetchChatFails(w) ==
  LET n == ytWorker[w].fails + 1 IN
    IF n >= MaxPollFailures THEN Step(w, "poll", "wait", ytWorker[w].health, n)
    ELSE Step(w, "poll", "poll", "reconnecting", n)

\* A bug for comparison: a poll that succeeds does not report the recovery.
RecoversSilently(w) == Step(w, "poll", "deliver", ytWorker[w].health, 0)
FetchChat(w) ==
  Step(w, "poll", "deliver", IF ytWorker[w].fails > 0 THEN "ok" ELSE ytWorker[w].health, 0)
Delivers(w, n) ==
  /\ ytWorker[w].pc = "deliver" /\ ytWorker' = [ytWorker EXCEPT ![w].pc = "emit", ![w].todo = n]
  /\ UNCHANGED <<ytListed, ytJoin, ytClose, ytBuf, ytPanic, ytCalls>>
\* The events of the actions, one after the other, even of a cancelled worker.
EmitsOne(w) ==
  /\ ytWorker[w].pc = "emit" /\ ytWorker[w].todo > 0
  /\ ytWorker' = [ytWorker EXCEPT ![w].todo = @ - 1] /\ YtEmit(w)
  /\ UNCHANGED <<ytListed, ytJoin, ytClose, ytCalls>>
\* The broadcast has ended, or gives no continuation.
BroadcastEnds(w) == Step(w, "deliver", "wait", ytWorker[w].health, 0)
NextContinuation(w) == ytWorker[w].todo = 0 /\ Step(w, "emit", "poll", ytWorker[w].health, 0)
NoNextContinuation(w) == ytWorker[w].todo = 0 /\ Step(w, "emit", "wait", ytWorker[w].health, 0)

YtEngineForwards ==
  /\ ytBuf > 0 /\ ytBuf' = ytBuf - 1
  /\ UNCHANGED <<ytListed, ytWorker, ytJoin, ytClose, ytPanic, ytCalls>>

YouTubeNext ==
  \/ \E j \in YtJoins : (\E c \in YtChannels : YtJoinBegins(j, c)) \/ YtJoinUnknown(j) \/ YtJoinStarts(j)
  \/ \E c \in YtChannels : YtLeave(c)
  \/ YtCloseBegins \/ YtCloseReturns \/ YtEngineForwards
  \/ \E w \in 1 .. Len(ytWorker) :
       \/ WorkerEndsCancelled(w) \/ Waits(w) \/ FoundLive(w) \/ FetchContinuation(w) \/ NoContinuation(w)
       \/ \E h \in {"not_found", "not_live", "upstream_down"} : StillWaits(w, h)
       \/ \E n \in 0 .. 1 : Delivers(w, n)
       \/ FetchChatFails(w) \/ FetchChat(w) \/ EmitsOne(w) \/ BroadcastEnds(w)
       \/ NextContinuation(w) \/ NoNextContinuation(w)

YouTubeSpec == YouTubeInit /\ [][YouTubeNext]_ytVars

-----------------------------------------------------------------------------
YouTubeTypeOK ==
  /\ ytListed \in [YtChannels -> 0 .. Len(ytWorker)] /\ ytBuf \in 0 .. YtEventCap
  /\ \A w \in 1 .. Len(ytWorker) : ytWorker[w].fails \in 0 .. MaxPollFailures

\* "Idempotent per channel", "another Join won the race": a channel has at most
\* one worker that nobody has cancelled, and it is the one that Leave cancels,
\* however Joins, Leaves and Close overlap.  A second one could never be stopped.
OneWorker ==
  \A c \in YtChannels :
    {w \in 1 .. Len(ytWorker) : ytWorker[w].ch = c /\ ~Cancelled(w)} = {ytListed[c]} \ {0}

\* A channel's last health report tells what its worker is doing: "ok" while
\* polls succeed, and never "ok" while it waits for a broadcast or retries.
HealthIsHonest ==
  \A w \in 1 .. Len(ytWorker) :
    LET r == ytWorker[w] IN
      /\ r.pc \in {"poll", "deliver", "emit"} => (r.health = "ok") = (r.fails = 0)
      /\ r.pc = "sleep" => r.health \in {"not_found", "not_live", "upstream_down"}

\* After Close no worker is left, none starts, and nothing was sent on the
\* closed events channel.
YtClosedIsQuiet ==
  ytClose = "done" => ~ytPanic /\ \A w \in 1 .. Len(ytWorker) : ~Running(w)

\* The YouTube poller runs one worker for a joined channel, whose reported
\* health is what it is doing, and none after Close.
YouTubeSound == YouTubeTypeOK /\ OneWorker /\ HealthIsHonest /\ YtClosedIsQuiet
=============================================================================
