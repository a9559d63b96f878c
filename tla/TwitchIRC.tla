------------------------------ MODULE TwitchIRC ------------------------------
(***************************************************************************)
(* The anonymous read path of the Twitch adapter                           *)
(* (src/internal/platform/twitch/adapter.go and shard.go): Join and Leave  *)
(* route a channel to a shard, every shard supervises one IRC connection   *)
(* and replays its channel set after a reconnect, Close winds all down.    *)
(*                                                                         *)
(* Every channel has one caller: a goroutine that is inside Join or Leave  *)
(* of that channel (an HTTP handler, the profile manager).  Calls for      *)
(* different channels run concurrently, calls for one channel follow each  *)
(* other, as when a user waits for the answer; the README says what        *)
(* happens otherwise.  Each critical section of a call is one step, and so *)
(* is each line written to a socket, because the code writes after it has  *)
(* released the lock.                                                      *)
(* The scan of the shards in ircJoin and ircLeave runs under Adapter.mu    *)
(* and takes each shard's own lock in turn; it is one step here.           *)
(***************************************************************************)
EXTENDS Integers, FiniteSets

CONSTANTS
  Channels,   \* channel logins (slugs)
  Shards,     \* shard identities, in the order they are opened: 1..n
  PerConn,    \* Options.ChannelsPerConn
  DownAfter,  \* downAfterAttempts
  MaxDrops,   \* bound: connections that Twitch drops
  MaxFails,   \* bound: dials that fail
  MaxOps      \* bound: calls of Join and Leave

ASSUME ShardsAssumption ==
  /\ Shards \subseteq Nat \ {0}
  /\ PerConn \in Nat \ {0}
  /\ DownAfter \in Nat \ {0}
  /\ MaxDrops \in Nat /\ MaxFails \in Nat /\ MaxOps \in Nat

VARIABLES
  joined,   \* Adapter.joined, the channels the user wants
  opened,   \* Adapter.shards, the number of shards opened
  chans,    \* shard.channels
  conn,     \* shard.conn: the connection's number, 0 is nil
  sclosed,  \* shard.closed
  health,   \* shard.health
  attempt,  \* reconnect's attempt counter, saturating at DownAfter
  sup,      \* where the supervise goroutine is
  replay,   \* the JOINs that writeJoins has yet to write
  sock,     \* the number of the newest connection dialled
  link,     \* is that connection alive
  wire,     \* the channels that Twitch has joined on it
  pc,       \* where the caller of a channel is
  at,       \* the shard it has picked, 0 is none
  to,       \* the connection it has read under the shard's lock
  closer,   \* where Adapter.Close is
  cur,      \* the shard that Close is at
  drops, fails, ops   \* what the bounds count

adapterVars == <<joined, opened, closer, cur>>
shardVars == <<chans, conn, sclosed, health, attempt, sup, replay>>
netVars == <<sock, link, wire>>
callerVars == <<pc, at, to>>
bounds == <<drops, fails, ops>>
vars == <<adapterVars, shardVars, netVars, callerVars, bounds>>

Supervising == {"read", "wait", "dial", "join"}

TypeAdapter ==
  /\ joined \subseteq Channels
  /\ opened \in Nat
  /\ closer \in {"idle", "cancel", "shut", "await", "done"}
  /\ cur \in Nat
  /\ closer = "await" => cur \in Shards
TypeShard ==
  /\ chans \in [Shards -> SUBSET Channels]
  /\ conn \in [Shards -> Nat]
  /\ sclosed \in [Shards -> {"no", "yes"}]
  /\ health \in [Shards -> {"ok", "degraded", "down"}]
  /\ attempt \in [Shards -> 0 .. DownAfter]
  /\ sup \in [Shards -> {"none", "done"} \cup Supervising]
  /\ replay \in [Shards -> SUBSET Channels]
TypeNet ==
  /\ sock \in [Shards -> Nat]
  /\ link \in [Shards -> {"up", "dead"}]
  /\ wire \in [Shards -> SUBSET Channels]
TypeCaller ==
  /\ pc \in [Channels -> {"idle", "pick", "add", "joinline",
                          "find", "remove", "partline"}]
  /\ at \in [Channels -> Shards \cup {0}]
  /\ \A c \in Channels :
       pc[c] \in {"add", "joinline", "remove", "partline"} => at[c] \in Shards
  /\ to \in [Channels -> Nat]
TypeBounds == drops \in Nat /\ fails \in Nat /\ ops \in Nat

TypeOK == TypeAdapter /\ TypeShard /\ TypeNet /\ TypeCaller /\ TypeBounds

Init ==
  /\ joined = {} /\ opened = 0
  /\ chans = [s \in Shards |-> {}]
  /\ conn = [s \in Shards |-> 0]
  /\ sclosed = [s \in Shards |-> "no"]
  /\ health = [s \in Shards |-> "ok"]
  /\ attempt = [s \in Shards |-> 0]
  /\ sup = [s \in Shards |-> "none"]
  /\ replay = [s \in Shards |-> {}]
  /\ sock = [s \in Shards |-> 0]
  /\ link = [s \in Shards |-> "dead"]
  /\ wire = [s \in Shards |-> {}]
  /\ pc = [c \in Channels |-> "idle"]
  /\ at = [c \in Channels |-> 0]
  /\ to = [c \in Channels |-> 0]
  /\ closer = "idle" /\ cur = 0
  /\ drops = 0 /\ fails = 0 /\ ops = 0

-----------------------------------------------------------------------------
(* Adapter: Join, ircJoin, Leave, ircLeave.                                *)

Open(s) == s \in Shards /\ s <= opened
Closed == closer # "idle"
Cancelled == closer \notin {"idle", "cancel"}

\* A caller's next step, and its return.
Goto(c, step) == pc' = [pc EXCEPT ![c] = step]
Return(c) ==
  /\ Goto(c, "idle")
  /\ at' = [at EXCEPT ![c] = 0]
  /\ to' = [to EXCEPT ![c] = 0]

BeginJoin(c) ==
  /\ pc[c] = "idle" /\ ~Closed /\ ops < MaxOps
  /\ joined' = joined \cup {c}
  /\ Goto(c, "pick")
  /\ ops' = ops + 1
  /\ UNCHANGED <<opened, closer, cur, shardVars, netVars, at, to, drops, fails>>

Has(s, c) == Open(s) /\ c \in chans[s]

\* candidate.count() < a.perConn
Spare(s) == Open(s) /\ Cardinality(chans[s]) < PerConn

\* ircJoin returns: the adapter is closed, or a shard has the channel.
PickNothing(c) ==
  /\ pc[c] = "pick"
  /\ Closed \/ \E s \in Shards : Has(s, c)
  /\ Return(c)
  /\ UNCHANGED <<adapterVars, shardVars, netVars, bounds>>

MayRoute(c) ==
  /\ pc[c] = "pick" /\ ~Closed
  /\ ~ \E s \in Shards : Has(s, c)

\* The first shard with room takes the channel.
PickSpare(c) ==
  /\ MayRoute(c)
  /\ \E s \in Shards :
       /\ Spare(s) /\ \A t \in Shards : Spare(t) => s <= t
       /\ at' = [at EXCEPT ![c] = s]
  /\ Goto(c, "add")
  /\ UNCHANGED <<adapterVars, shardVars, netVars, to, bounds>>

\* A start that does not look at Adapter.closed opens a shard behind Close.
PickNewUnguarded(c) ==
  /\ pc[c] = "pick" /\ ~ \E s \in Shards : Has(s, c) \/ Spare(s)
  /\ \E s \in Shards :
       /\ s = opened + 1
       /\ opened' = s
       /\ at' = [at EXCEPT ![c] = s]
       /\ conn' = [conn EXCEPT ![s] = 1]
       /\ sock' = [sock EXCEPT ![s] = 1]
       /\ link' = [link EXCEPT ![s] = "up"]
       /\ sup' = [sup EXCEPT ![s] = "read"]
  /\ Goto(c, "add")
  /\ UNCHANGED <<joined, closer, cur, chans, sclosed, health, attempt, replay,
                 wire, to, bounds>>

\* All are full: newShard, whose start dials while Adapter.mu is held.
PickNew(c) ==
  /\ MayRoute(c) /\ ~ \E s \in Shards : Spare(s)
  /\ \E s \in Shards :
       /\ s = opened + 1
       /\ opened' = s
       /\ at' = [at EXCEPT ![c] = s]
       /\ conn' = [conn EXCEPT ![s] = 1]
       /\ sock' = [sock EXCEPT ![s] = 1]
       /\ link' = [link EXCEPT ![s] = "up"]
       /\ sup' = [sup EXCEPT ![s] = "read"]
  /\ Goto(c, "add")
  /\ UNCHANGED <<joined, closer, cur, chans, sclosed, health, attempt, replay,
                 wire, to, bounds>>

\* The first dial fails; Join returns the error and joined keeps the slug.
PickDialFails(c) ==
  /\ MayRoute(c) /\ ~ \E s \in Shards : Spare(s)
  /\ fails < MaxFails
  /\ fails' = fails + 1
  /\ Return(c)
  /\ UNCHANGED <<adapterVars, shardVars, netVars, drops, ops>>

BeginLeave(c) ==
  /\ pc[c] = "idle" /\ c \in joined /\ ops < MaxOps
  /\ joined' = joined \ {c}
  /\ Goto(c, "find")
  /\ ops' = ops + 1
  /\ UNCHANGED <<opened, closer, cur, shardVars, netVars, at, to, drops, fails>>

\* ircLeave: the first shard that has the channel, if any.
FindShard(c) ==
  /\ pc[c] = "find"
  /\ \E s \in Shards :
       /\ Has(s, c) /\ \A t \in Shards : Has(t, c) => s <= t
       /\ at' = [at EXCEPT ![c] = s]
  /\ Goto(c, "remove")
  /\ UNCHANGED <<adapterVars, shardVars, netVars, to, bounds>>

FindNothing(c) ==
  /\ pc[c] = "find" /\ ~ \E s \in Shards : Has(s, c)
  /\ Return(c)
  /\ UNCHANGED <<adapterVars, shardVars, netVars, bounds>>

-----------------------------------------------------------------------------
(* shard.join and shard.leave: one critical section, then one line.        *)
(* A channel has one caller, so shard.join never finds the slug recorded   *)
(* and shard.leave never finds it gone: their early returns for that do    *)
(* not occur here.                                                         *)

JoinClosed(c) ==
  /\ pc[c] = "add" /\ sclosed[at[c]] = "yes"
  /\ Return(c)
  /\ UNCHANGED <<adapterVars, shardVars, netVars, bounds>>

Record(c) ==
  /\ chans' = [chans EXCEPT ![at[c]] = @ \cup {c}]
  /\ UNCHANGED <<conn, sclosed, health, attempt, sup, replay>>

\* A join that leaves the line to the next reconnect.
ShardJoinSilent(c) ==
  /\ pc[c] = "add" /\ sclosed[at[c]] = "no"
  /\ Record(c)
  /\ Return(c)
  /\ UNCHANGED <<adapterVars, netVars, bounds>>

\* Record the slug and read conn under one lock; write JOIN if connected.
ShardJoin(c) ==
  /\ pc[c] = "add" /\ sclosed[at[c]] = "no"
  /\ Record(c)
  /\ IF conn[at[c]] = 0
     THEN Return(c)
     ELSE /\ to' = [to EXCEPT ![c] = conn[at[c]]]
          /\ Goto(c, "joinline") /\ UNCHANGED at
  /\ UNCHANGED <<adapterVars, netVars, bounds>>

\* A line reaches Twitch if it is written to the newest connection while that
\* is alive; otherwise the write fails, and the code ignores the error.
Reaches(s, k) == k = sock[s] /\ link[s] = "up"

JoinLine(c) ==
  /\ pc[c] = "joinline"
  /\ wire' = IF Reaches(at[c], to[c])
             THEN [wire EXCEPT ![at[c]] = @ \cup {c}] ELSE wire
  /\ Return(c)
  /\ UNCHANGED <<adapterVars, shardVars, sock, link, bounds>>

ShardLeave(c) ==
  /\ pc[c] = "remove"
  /\ chans' = [chans EXCEPT ![at[c]] = @ \ {c}]
  /\ IF conn[at[c]] = 0
     THEN Return(c)
     ELSE /\ to' = [to EXCEPT ![c] = conn[at[c]]]
          /\ Goto(c, "partline") /\ UNCHANGED at
  /\ UNCHANGED <<adapterVars, conn, sclosed, health, attempt, sup, replay,
                 netVars, bounds>>

PartLine(c) ==
  /\ pc[c] = "partline"
  /\ wire' = IF Reaches(at[c], to[c])
             THEN [wire EXCEPT ![at[c]] = @ \ {c}] ELSE wire
  /\ Return(c)
  /\ UNCHANGED <<adapterVars, shardVars, sock, link, bounds>>

-----------------------------------------------------------------------------
(* The supervise goroutine of a shard.                                     *)

\* External: Twitch or the network drops the connection.
Drop(s) ==
  /\ link[s] = "up" /\ drops < MaxDrops
  /\ link' = [link EXCEPT ![s] = "dead"]
  /\ wire' = [wire EXCEPT ![s] = {}]
  /\ drops' = drops + 1
  /\ UNCHANGED <<adapterVars, shardVars, sock, callerVars, fails, ops>>

Bump(n) == IF n < DownAfter THEN n + 1 ELSE n
HealthAt(n) == IF n >= DownAfter THEN "down" ELSE "degraded"

\* The top of reconnect's loop: the next attempt and the health it reports.
NextAttempt(s, n) ==
  /\ attempt' = [attempt EXCEPT ![s] = n]
  /\ health' = [health EXCEPT ![s] = HealthAt(n)]
  /\ sup' = [sup EXCEPT ![s] = "wait"]

\* readLoop fails and the shard is not shutting down: reconnect unpublishes
\* the connection, closes it and starts its first attempt.
ReadFails(s) ==
  /\ sup[s] = "read" /\ link[s] = "dead" /\ ~Cancelled
  /\ conn' = [conn EXCEPT ![s] = 0]
  /\ NextAttempt(s, Bump(0))
  /\ UNCHANGED <<adapterVars, chans, sclosed, replay, netVars, callerVars, bounds>>

\* A sleep that does not watch the context.
SuperviseReturnsLate(s) ==
  /\ sup[s] \in {"read", "wait"} /\ Cancelled
  /\ sup' = [sup EXCEPT ![s] = IF @ = "read" THEN "done" ELSE "dial"]
  /\ UNCHANGED <<adapterVars, chans, conn, sclosed, health, attempt, replay,
                 netVars, callerVars, bounds>>

\* readLoop or sleep ends because the context is cancelled.
SuperviseReturns(s) ==
  /\ sup[s] \in {"read", "wait"} /\ Cancelled
  /\ sup' = [sup EXCEPT ![s] = "done"]
  /\ UNCHANGED <<adapterVars, chans, conn, sclosed, health, attempt, replay,
                 netVars, callerVars, bounds>>

\* The backoff delay has passed; the next dial starts.
BackoffOver(s) ==
  /\ sup[s] = "wait" /\ ~Cancelled
  /\ sup' = [sup EXCEPT ![s] = "dial"]
  /\ UNCHANGED <<adapterVars, chans, conn, sclosed, health, attempt, replay,
                 netVars, callerVars, bounds>>

\* The dial or its handshake fails, or the context is cancelled meanwhile.
DialFails(s) ==
  /\ sup[s] = "dial" /\ (Cancelled \/ fails < MaxFails)
  /\ fails' = IF Cancelled THEN fails ELSE fails + 1
  /\ NextAttempt(s, Bump(attempt[s]))
  /\ UNCHANGED <<adapterVars, chans, conn, sclosed, replay, netVars, callerVars,
                 drops, ops>>

\* connect succeeds: publish the connection and snapshot the channel set in
\* one critical section, even if Close has cancelled the context meanwhile.
Reconnect(s) ==
  /\ sup[s] = "dial"
  /\ sock' = [sock EXCEPT ![s] = @ + 1]
  /\ link' = [link EXCEPT ![s] = "up"]
  /\ conn' = [conn EXCEPT ![s] = sock[s] + 1]
  /\ replay' = [replay EXCEPT ![s] = chans[s]]
  /\ sup' = [sup EXCEPT ![s] = "join"]
  /\ UNCHANGED <<adapterVars, chans, sclosed, health, attempt, wire, callerVars, bounds>>

\* writeJoins writes one JOIN, in the order of a map iteration.
ReplayLine(s) ==
  /\ sup[s] = "join" /\ link[s] = "up" /\ ~Cancelled
  /\ \E c \in replay[s] :
       /\ replay' = [replay EXCEPT ![s] = @ \ {c}]
       /\ wire' = [wire EXCEPT ![s] = @ \cup {c}]
  /\ UNCHANGED <<adapterVars, chans, conn, sclosed, health, attempt, sup,
                 sock, link, callerVars, bounds>>

\* A failed replay that ends the supervisor.
ReplayFailsForGood(s) ==
  /\ sup[s] = "join" /\ replay[s] # {}
  /\ link[s] = "dead" \/ Cancelled
  /\ sup' = [sup EXCEPT ![s] = "done"]
  /\ UNCHANGED <<adapterVars, chans, conn, sclosed, health, attempt, replay,
                 netVars, callerVars, bounds>>

\* A write fails: unpublish, close, and try again.
ReplayFails(s) ==
  /\ sup[s] = "join" /\ replay[s] # {}
  /\ link[s] = "dead" \/ Cancelled
  /\ conn' = [conn EXCEPT ![s] = 0]
  /\ link' = [link EXCEPT ![s] = "dead"]
  /\ wire' = [wire EXCEPT ![s] = {}]
  /\ replay' = [replay EXCEPT ![s] = {}]
  /\ NextAttempt(s, Bump(attempt[s]))
  /\ UNCHANGED <<adapterVars, chans, sclosed, sock, callerVars, bounds>>

\* A write to a dead socket that the kernel still buffers succeeds and is lost.
ReplayLost(s) ==
  /\ sup[s] = "join" /\ link[s] = "dead" /\ ~Cancelled
  /\ \E c \in replay[s] : replay' = [replay EXCEPT ![s] = @ \ {c}]
  /\ UNCHANGED <<adapterVars, chans, conn, sclosed, health, attempt, sup,
                 netVars, callerVars, bounds>>

ReplayDone(s) ==
  /\ sup[s] = "join" /\ replay[s] = {}
  /\ health' = [health EXCEPT ![s] = "ok"]
  /\ attempt' = [attempt EXCEPT ![s] = 0]
  /\ sup' = [sup EXCEPT ![s] = "read"]
  /\ UNCHANGED <<adapterVars, chans, conn, sclosed, replay, netVars, callerVars, bounds>>

-----------------------------------------------------------------------------
(* Adapter.Close: flag, cancel, close each shard and wait, close events.   *)
(* No shard opens once the flag is set, so Open is Close's copy of shards. *)

CloseBegin ==
  /\ closer = "idle"
  /\ closer' = "cancel" /\ cur' = 0
  /\ UNCHANGED <<joined, opened, shardVars, netVars, callerVars, bounds>>

CloseCancel ==
  /\ closer = "cancel"
  /\ closer' = "shut" /\ cur' = 1
  /\ UNCHANGED <<joined, opened, shardVars, netVars, callerVars, bounds>>

\* shard.close: refuse joins, close the connection, then wait.
CloseShard ==
  /\ closer = "shut"
  /\ Open(cur)
  /\ sclosed' = [sclosed EXCEPT ![cur] = "yes"]
  /\ link' = IF conn[cur] = 0 THEN link ELSE [link EXCEPT ![cur] = "dead"]
  /\ wire' = IF conn[cur] = 0 THEN wire ELSE [wire EXCEPT ![cur] = {}]
  /\ closer' = "await"
  /\ UNCHANGED <<joined, opened, cur, chans, conn, health, attempt, sup, replay,
                 sock, callerVars, bounds>>

\* s.wg.Wait() returns.
Waited(s) == sup[s] = "done"

CloseAwait ==
  /\ closer = "await" /\ Waited(cur)
  /\ closer' = "shut" /\ cur' = cur + 1
  /\ UNCHANGED <<joined, opened, shardVars, netVars, callerVars, bounds>>

\* close(a.events)
CloseEvents ==
  /\ closer = "shut" /\ ~Open(cur)
  /\ closer' = "done"
  /\ UNCHANGED <<joined, opened, cur, shardVars, netVars, callerVars, bounds>>

-----------------------------------------------------------------------------
CallerStep(c) ==
  \/ PickNothing(c) \/ PickSpare(c) \/ PickNew(c) \/ PickDialFails(c)
  \/ FindShard(c) \/ FindNothing(c)
  \/ JoinClosed(c) \/ ShardJoin(c) \/ JoinLine(c)
  \/ ShardLeave(c) \/ PartLine(c)

SupStep(s) ==
  \/ ReadFails(s) \/ SuperviseReturns(s)
  \/ BackoffOver(s) \/ DialFails(s) \/ Reconnect(s)
  \/ ReplayLine(s) \/ ReplayFails(s) \/ ReplayLost(s) \/ ReplayDone(s)

CloseStep == CloseCancel \/ CloseShard \/ CloseAwait \/ CloseEvents

Finished == closer = "done" /\ \A c \in Channels : pc[c] = "idle"

Next ==
  \/ \E c \in Channels : CallerStep(c) \/ BeginJoin(c) \/ BeginLeave(c)
  \/ \E s \in Shards : SupStep(s) \/ Drop(s)
  \/ CloseBegin \/ CloseStep
  \/ Finished /\ UNCHANGED vars

Spec == Init /\ [][Next]_vars

\* Goroutines are scheduled; a dial that is tried again and again succeeds.
FairSpec ==
  /\ Spec
  /\ \A c \in Channels : WF_vars(CallerStep(c))
  /\ \A s \in Shards : WF_vars(SupStep(s))
  /\ WF_vars(CloseStep)

-----------------------------------------------------------------------------
(* Properties.                                                             *)

\* "A slug added mid-reconnect is never silently lost" (shard.join): once a
\* shard reads again from a live connection, Twitch has been told to join
\* every channel of its set, whatever joins raced the reconnect; a call that
\* is about to write the line is the one exception.
Replayed ==
  /\ TypeOK
  /\ \A s \in Shards :
       sup[s] = "read" /\ link[s] = "up" =>
         \A c \in chans[s] : c \in wire[s] \/ (pc[c] = "joinline" /\ at[c] = s)

\* Close closes the event channel only after every supervisor has returned,
\* also of a shard that a concurrent Join opened: nobody sends on the closed
\* channel.
ClosedMeansQuiet ==
  closer = "done" => \A s \in Shards : sup[s] \in {"none", "done"}

\* "A dropped socket surfaces only as a brief health blip, never as lost
\* membership": a channel of a shard is joined at Twitch sooner or later, or
\* it is left, or the adapter is closed.
MembershipRestored ==
  \A s \in Shards : \A c \in Channels :
    c \in chans[s] ~> (c \in wire[s] \/ c \notin chans[s] \/ Closed)

\* Close returns although supervisors are reading, dialling or replaying.
CloseReturns == Closed ~> closer = "done"

\* "Leave unregisters the channel from both transports": while no call is at
\* work, a shard that reads is joined at Twitch to channels of its set only.
LeaveParts ==
  \A s \in Shards : \A c \in wire[s] :
    sup[s] = "read" /\ (\A d \in Channels : pc[d] = "idle") => c \in chans[s]

\* "to stay under the per-connection channel cap" (refuted, see the README).
CapRespected == \A s \in Shards : Cardinality(chans[s]) <= PerConn
=============================================================================
