----------------------------- MODULE KickAdapter -----------------------------
(* The Kick adapter: one Pusher connection for every chatroom                 *)
(* (kick.Adapter), the supervisor that reconnects and subscribes again, and   *)
(* the resolver that turns a slug into a chatroom id behind a circuit breaker *)
(* (kick.Resolver).  Joins run concurrently with each other, with the         *)
(* supervisor and with Close.                                                 *)
(*                                                                            *)
(* A channel stands for its slug and, once resolved, for its chatroom id.     *)
EXTENDS Integers, FiniteSets

CONSTANTS
  KkChannels,       \* Kick channels
  KkJoins,          \* concurrent calls of Join
  EventCap,         \* capacity of the events channel
  Threshold,        \* breakerThreshold
  MaxKkConns,       \* bound on connections opened
  MaxKkJoins        \* bound on calls of Join

ASSUME KickConstants ==
  {EventCap, Threshold, MaxKkConns, MaxKkJoins} \subseteq Nat \ {0} /\ IsFiniteSet(KkJoins)

VARIABLES
  kkJoined,    \* engine.joined: the channels the engine lists
  kkSubs,      \* subs: the chatrooms to read
  kkConn,      \* conn: the current connection, 0 for nil
  kkStarted,   \* started
  kkClose,     \* Close: "no", "waits" (closed is set, ctx cancelled) or "done"
  kkSup,       \* the supervisor: where it is, its connection, its snapshot of subs
  kkHealth,    \* health
  kkJoin,      \* each call of Join
  kkBuf,       \* events waiting for the engine
  kkOpened,    \* connections opened so far
  kkAlive,     \* connections that have not dropped
  kkServer,    \* chatrooms Pusher has subscribed on each connection
  kkCache,     \* chatroom ids in the channels table
  kkFailures,  \* failures of the direct lookup in a row
  kkOpen,      \* the breaker is open
  kkDirect,    \* direct lookups that failed since a success or a cooldown
  kkCalls,     \* calls of Join so far
  kkPanic      \* an event was sent on the closed events channel

kkVars == <<kkJoined, kkSubs, kkConn, kkStarted, kkClose, kkSup, kkHealth, kkJoin, kkBuf, kkOpened,
            kkAlive, kkServer, kkCache, kkFailures, kkOpen, kkDirect, kkCalls, kkPanic>>
resolverVars == <<kkCache, kkFailures, kkOpen, kkDirect>>
netVars == <<kkOpened, kkAlive, kkServer>>

KkConns == 1 .. MaxKkConns
JoinIdle == [pc |-> "idle"]
KickInit ==
  /\ kkJoined = {} /\ kkSubs = {} /\ kkConn = 0 /\ kkStarted = FALSE /\ kkClose = "no"
  /\ kkSup = [pc |-> "none", conn |-> 0, ids |-> {}] /\ kkHealth = "ok"
  /\ kkJoin = [j \in KkJoins |-> JoinIdle] /\ kkBuf = 0 /\ kkCalls = 0 /\ kkPanic = FALSE
  /\ kkOpened = 0 /\ kkAlive = {} /\ kkServer = [n \in KkConns |-> {}]
  /\ kkCache = {} /\ kkFailures = 0 /\ kkOpen = FALSE /\ kkDirect = 0

-----------------------------------------------------------------------------
(* Shared steps. *)

JoinAt(j, rec) == kkJoin' = [kkJoin EXCEPT ![j] = rec]
JoinGoes(j, pc) == kkJoin' = [kkJoin EXCEPT ![j].pc = pc]

\* Engine.Join: an error takes the channel off the list again.
JoinErr(j) == JoinAt(j, JoinIdle) /\ kkJoined' = kkJoined \ {kkJoin[j].ch}

\* emit: blocks while the buffer is full unless the context is cancelled; once
\* the channel is closed either branch of the select may be taken.
Emit ==
  \/ kkClose # "no" /\ UNCHANGED <<kkBuf, kkPanic>>
  \/ kkClose # "done" /\ kkBuf < EventCap /\ kkBuf' = kkBuf + 1 /\ UNCHANGED kkPanic
  \/ kkClose = "done" /\ kkPanic' = TRUE /\ UNCHANGED kkBuf
SetHealth(h) ==
  /\ kkHealth' = h
  /\ IF h # kkHealth THEN Emit ELSE UNCHANGED <<kkBuf, kkPanic>>

\* A frame reaches Pusher only on a connection that lives.
Subscribe(n, ids) ==
  kkServer' = IF n \in kkAlive THEN [kkServer EXCEPT ![n] = @ \cup ids] ELSE kkServer

DialOpens == kkOpened < MaxKkConns /\ kkOpened' = kkOpened + 1 /\ kkAlive' = kkAlive \cup {kkOpened + 1}

-----------------------------------------------------------------------------
(* Join: resolve, connect when nobody has, subscribe. *)

BeginJoin(j, c) ==
  /\ kkJoin[j] = JoinIdle /\ kkCalls < MaxKkJoins
  /\ kkCalls' = kkCalls + 1 /\ kkJoined' = kkJoined \cup {c}
  /\ JoinAt(j, [pc |-> "resolve", ch |-> c, conn |-> 0, blocked |-> FALSE])
  /\ UNCHANGED <<kkSubs, kkConn, kkStarted, kkClose, kkSup, kkHealth, kkBuf, netVars, resolverVars, kkPanic>>

\* Resolve: the cache, else the direct lookup unless the breaker is open.
Resolve(j) ==
  /\ kkJoin[j].pc = "resolve"
  /\ CASE kkJoin[j].ch \in kkCache -> JoinGoes(j, "check")
       [] kkOpen -> JoinAt(j, [kkJoin[j] EXCEPT !.pc = "fallback", !.blocked = TRUE])
       [] OTHER -> JoinGoes(j, "direct")
  /\ UNCHANGED <<kkJoined, kkSubs, kkConn, kkStarted, kkClose, kkSup, kkHealth, kkBuf, netVars,
                 resolverVars, kkCalls, kkPanic>>

OnSuccess(c) ==
  /\ kkFailures' = 0 /\ kkOpen' = FALSE /\ kkDirect' = 0
  /\ kkCache' = kkCache \cup {c}

\* A bug for comparison: only refusals count, not timeouts or odd statuses.
OnFailureBlocked(blocked) ==
  /\ kkFailures' = IF blocked /\ kkFailures < Threshold THEN kkFailures + 1 ELSE kkFailures
  /\ kkOpen' = (kkOpen \/ kkFailures' >= Threshold)

OnFailure(blocked) ==
  /\ kkFailures' = IF kkFailures < Threshold THEN kkFailures + 1 ELSE kkFailures
  /\ kkOpen' = (kkOpen \/ kkFailures' >= Threshold)

\* httpFetcher.Fetch: an id, a refusal, an unknown slug, or another error.
FetchFound(j) ==
  /\ kkJoin[j].pc \in {"direct", "fallback"}
  /\ OnSuccess(kkJoin[j].ch) /\ JoinGoes(j, "check")
  /\ UNCHANGED <<kkJoined, kkSubs, kkConn, kkStarted, kkClose, kkSup, kkHealth, kkBuf, netVars, kkCalls, kkPanic>>
FetchUnknown(j) ==
  /\ kkJoin[j].pc \in {"direct", "fallback"} /\ JoinErr(j)
  /\ UNCHANGED <<kkSubs, kkConn, kkStarted, kkClose, kkSup, kkHealth, kkBuf, netVars, resolverVars, kkCalls, kkPanic>>
DirectFails(j, blocked) ==
  /\ kkJoin[j].pc = "direct"
  /\ OnFailure(blocked) /\ kkDirect' = kkDirect + 1
  /\ JoinAt(j, [kkJoin[j] EXCEPT !.pc = "fallback", !.blocked = blocked])
  /\ UNCHANGED <<kkJoined, kkSubs, kkConn, kkStarted, kkClose, kkSup, kkHealth, kkBuf, netVars,
                 kkCache, kkCalls, kkPanic>>
FallbackFails(j) ==
  /\ kkJoin[j].pc = "fallback" /\ JoinErr(j)
  /\ UNCHANGED <<kkSubs, kkConn, kkStarted, kkClose, kkSup, kkHealth, kkBuf, netVars, resolverVars, kkCalls, kkPanic>>

\* breakerCooldown passes.
BreakerCooldown ==
  /\ kkOpen /\ kkOpen' = FALSE /\ kkDirect' = 0
  /\ UNCHANGED <<kkJoined, kkSubs, kkConn, kkStarted, kkClose, kkSup, kkHealth, kkJoin, kkBuf, netVars,
                 kkCache, kkFailures, kkCalls, kkPanic>>

JoinChecks(j) ==
  /\ kkJoin[j].pc = "check"
  /\ CASE kkClose # "no" -> JoinErr(j)
       [] kkClose = "no" /\ kkJoin[j].ch \in kkSubs -> JoinAt(j, JoinIdle) /\ UNCHANGED kkJoined
       [] OTHER -> JoinGoes(j, IF kkStarted THEN "add" ELSE "dial") /\ UNCHANGED kkJoined
  /\ UNCHANGED <<kkSubs, kkConn, kkStarted, kkClose, kkSup, kkHealth, kkBuf, netVars, resolverVars, kkCalls, kkPanic>>

\* ensureConnected: the dial is made without the lock and may come second.
JoinDials(j) ==
  /\ kkJoin[j].pc = "dial"
  /\ \/ /\ DialOpens /\ JoinAt(j, [kkJoin[j] EXCEPT !.pc = "install", !.conn = kkOpened + 1])
        /\ UNCHANGED <<kkJoined, kkHealth, kkBuf, kkPanic>>
     \/ JoinErr(j) /\ SetHealth("down") /\ UNCHANGED <<kkOpened, kkAlive>>
  /\ UNCHANGED <<kkSubs, kkConn, kkStarted, kkClose, kkSup, kkServer, resolverVars, kkCalls>>

JoinInstalls(j) ==
  /\ kkJoin[j].pc = "install"
  /\ LET n == kkJoin[j].conn IN
       CASE kkClose # "no" ->
              JoinErr(j) /\ kkAlive' = kkAlive \ {n} /\ UNCHANGED <<kkConn, kkStarted, kkSup, kkHealth>>
         [] kkClose = "no" /\ kkStarted ->
              JoinGoes(j, "add") /\ kkAlive' = kkAlive \ {n} /\ UNCHANGED <<kkJoined, kkConn, kkStarted, kkSup, kkHealth>>
         [] OTHER ->
              /\ kkConn' = n /\ kkStarted' = TRUE /\ kkHealth' = "ok"
              /\ kkSup' = [pc |-> "hello", conn |-> n, ids |-> {}]
              /\ JoinGoes(j, "add") /\ UNCHANGED <<kkJoined, kkAlive>>
  /\ UNCHANGED <<kkSubs, kkClose, kkBuf, kkOpened, kkServer, resolverVars, kkCalls, kkPanic>>
JoinAdds(j) ==
  /\ kkJoin[j].pc = "add"
  /\ IF kkClose # "no" THEN JoinErr(j) /\ UNCHANGED kkSubs
     ELSE /\ kkSubs' = kkSubs \cup {kkJoin[j].ch} /\ UNCHANGED kkJoined
          /\ JoinAt(j, [kkJoin[j] EXCEPT !.pc = "write", !.conn = kkConn])
  /\ UNCHANGED <<kkConn, kkStarted, kkClose, kkSup, kkHealth, kkBuf, netVars, resolverVars, kkCalls, kkPanic>>
JoinWrites(j) ==
  /\ kkJoin[j].pc = "write"
  /\ Subscribe(kkJoin[j].conn, {kkJoin[j].ch}) /\ JoinAt(j, JoinIdle)
  /\ UNCHANGED <<kkJoined, kkSubs, kkConn, kkStarted, kkClose, kkSup, kkHealth, kkBuf, kkOpened, kkAlive,
                 resolverVars, kkCalls, kkPanic>>

\* Engine.Leave and Adapter.Leave.  Every caller names the channel by its slug
\* alone, and subs is indexed by chatroom id: the adapter finds no such entry.
ChatroomIdOf(ref) == ref.id
LeaveRef(c) == [slug |-> c, id |-> "none"]
KickLeave(c) ==
  /\ c \in kkJoined /\ kkJoined' = kkJoined \ {c}
  /\ LET ids == {ChatroomIdOf(LeaveRef(c))} IN
       /\ kkSubs' = kkSubs \ ids
       /\ kkServer' = [n \in KkConns |-> IF n = kkConn THEN kkServer[n] \ (ids \cap kkSubs) ELSE kkServer[n]]
  /\ UNCHANGED <<kkConn, kkStarted, kkClose, kkSup, kkHealth, kkJoin, kkBuf, kkOpened, kkAlive,
                 resolverVars, kkCalls, kkPanic>>

-----------------------------------------------------------------------------
(* The supervisor. *)

SupGoes(pc) == kkSup' = [kkSup EXCEPT !.pc = pc]

\* connection_established: the chatrooms are listed under the lock and
\* subscribed one by one after it.
ReadEstablished ==
  /\ kkSup.pc = "hello" /\ kkSup.conn \in kkAlive
  /\ kkSup' = [kkSup EXCEPT !.pc = "read", !.ids = kkSubs]
  /\ UNCHANGED <<kkJoined, kkSubs, kkConn, kkStarted, kkClose, kkHealth, kkJoin, kkBuf, netVars, resolverVars, kkCalls, kkPanic>>
SubscribeAll ==
  /\ kkSup.pc = "read" /\ kkSup.ids # {}
  /\ \E c \in kkSup.ids : Subscribe(kkSup.conn, {c}) /\ kkSup' = [kkSup EXCEPT !.ids = @ \ {c}]
  /\ UNCHANGED <<kkJoined, kkSubs, kkConn, kkStarted, kkClose, kkHealth, kkJoin, kkBuf, kkOpened, kkAlive,
                 resolverVars, kkCalls, kkPanic>>

\* handleChatMessage: a message of a chatroom that is not in subs is dropped.
HandleChatMessage(c) ==
  /\ kkSup.pc = "read" /\ kkSup.ids = {} /\ kkSup.conn \in kkAlive /\ c \in kkServer[kkSup.conn]
  /\ c \in kkSubs /\ Emit
  /\ UNCHANGED <<kkJoined, kkSubs, kkConn, kkStarted, kkClose, kkSup, kkHealth, kkJoin, netVars, resolverVars, kkCalls>>

ConnDrops(n) ==
  /\ n \in kkAlive /\ kkAlive' = kkAlive \ {n}
  /\ kkServer' = [kkServer EXCEPT ![n] = {}]
  /\ UNCHANGED <<kkJoined, kkSubs, kkConn, kkStarted, kkClose, kkSup, kkHealth, kkJoin, kkBuf, kkOpened,
                 resolverVars, kkCalls, kkPanic>>

\* Read fails: the end of supervise when the context is cancelled, else
\* reconnect, which gives the connection up first.
ReadFails ==
  /\ kkSup.pc \in {"hello", "read"} /\ kkSup.ids = {}
  /\ kkSup.conn \notin kkAlive \/ kkClose # "no"
  /\ IF kkClose # "no" THEN SupGoes("ended") /\ UNCHANGED kkConn
     ELSE SupGoes("degrade") /\ kkConn' = 0
  /\ UNCHANGED <<kkJoined, kkSubs, kkStarted, kkClose, kkHealth, kkJoin, kkBuf, netVars, resolverVars, kkCalls, kkPanic>>
Degrade(h) ==
  /\ kkSup.pc = "degrade" /\ SetHealth(h) /\ SupGoes("redial")
  /\ UNCHANGED <<kkJoined, kkSubs, kkConn, kkStarted, kkClose, kkJoin, netVars, resolverVars, kkCalls>>
\* The sleep or the dial notices the cancelled context; a failed dial tries again.
RedialFails ==
  /\ kkSup.pc = "redial" /\ SupGoes(IF kkClose # "no" THEN "ended" ELSE "degrade")
  /\ UNCHANGED <<kkJoined, kkSubs, kkConn, kkStarted, kkClose, kkHealth, kkJoin, kkBuf, netVars, resolverVars, kkCalls, kkPanic>>

\* A bug for comparison: the new connection is read but not published.
RedialedUnpublished ==
  /\ kkSup.pc = "redial" /\ kkClose = "no" /\ DialOpens
  /\ kkSup' = [pc |-> "recover", conn |-> kkOpened + 1, ids |-> {}]
  /\ UNCHANGED <<kkJoined, kkSubs, kkConn, kkStarted, kkClose, kkHealth, kkJoin, kkBuf, kkServer, resolverVars, kkCalls, kkPanic>>

Redialed ==
  /\ kkSup.pc = "redial" /\ kkClose = "no" /\ DialOpens
  /\ kkConn' = kkOpened + 1 /\ kkSup' = [pc |-> "recover", conn |-> kkOpened + 1, ids |-> {}]
  /\ UNCHANGED <<kkJoined, kkSubs, kkStarted, kkClose, kkHealth, kkJoin, kkBuf, kkServer, resolverVars, kkCalls, kkPanic>>
Recovered ==
  /\ kkSup.pc = "recover" /\ SetHealth("ok") /\ SupGoes("hello")
  /\ UNCHANGED <<kkJoined, kkSubs, kkConn, kkStarted, kkClose, kkJoin, netVars, resolverVars, kkCalls>>

EngineForwards ==
  /\ kkBuf > 0 /\ kkBuf' = kkBuf - 1
  /\ UNCHANGED <<kkJoined, kkSubs, kkConn, kkStarted, kkClose, kkSup, kkHealth, kkJoin, netVars, resolverVars, kkCalls, kkPanic>>

\* Close cancels the context, closes the connection it saw and waits for the
\* supervisor before it closes the events channel.
KickClose ==
  /\ kkClose = "no" /\ kkClose' = "waits" /\ kkAlive' = kkAlive \ {kkConn}
  /\ UNCHANGED <<kkJoined, kkSubs, kkConn, kkStarted, kkSup, kkHealth, kkJoin, kkBuf, kkOpened, kkServer,
                 resolverVars, kkCalls, kkPanic>>

\* A bug for comparison: Close does not wait.
KickClosesAtOnce ==
  /\ kkClose = "waits" /\ kkClose' = "done"
  /\ UNCHANGED <<kkJoined, kkSubs, kkConn, kkStarted, kkSup, kkHealth, kkJoin, kkBuf, netVars, resolverVars, kkCalls, kkPanic>>

KickCloseReturns ==
  /\ kkClose = "waits" /\ kkSup.pc \in {"none", "ended"} /\ kkClose' = "done"
  /\ UNCHANGED <<kkJoined, kkSubs, kkConn, kkStarted, kkSup, kkHealth, kkJoin, kkBuf, netVars, resolverVars, kkCalls, kkPanic>>

KickNext ==
  \/ \E j \in KkJoins :
       \/ \E c \in KkChannels : BeginJoin(j, c)
       \/ \E blocked \in BOOLEAN : DirectFails(j, blocked)
       \/ Resolve(j) \/ FetchFound(j) \/ FetchUnknown(j) \/ FallbackFails(j)
       \/ JoinChecks(j) \/ JoinDials(j) \/ JoinInstalls(j) \/ JoinAdds(j) \/ JoinWrites(j)
  \/ \E c \in KkChannels : KickLeave(c) \/ HandleChatMessage(c)
  \/ \E n \in KkConns : ConnDrops(n)
  \/ \E h \in {"degraded", "down"} : Degrade(h)
  \/ BreakerCooldown \/ ReadEstablished \/ SubscribeAll \/ ReadFails \/ RedialFails \/ Redialed \/ Recovered
  \/ EngineForwards \/ KickClose \/ KickCloseReturns

KickSpec == KickInit /\ [][KickNext]_kkVars

-----------------------------------------------------------------------------
KickTypeOK ==
  /\ kkJoined \subseteq KkChannels /\ kkSubs \subseteq KkChannels
  /\ kkConn \in 0 .. MaxKkConns /\ kkBuf \in 0 .. EventCap /\ kkFailures \in 0 .. Threshold
  /\ kkHealth \in {"ok", "degraded", "down"}

\* The feed survives socket churn: when the connection is up, the handshake is
\* answered and no Join is on its way, Pusher sends every chatroom in subs on
\* the connection that the supervisor reads, wherever Joins and drops fell.
KickMembershipRestored ==
  kkClose = "no" /\ kkSup.pc = "read" /\ kkSup.ids = {} /\ kkSup.conn \in kkAlive
    /\ (\A j \in KkJoins : kkJoin[j].pc # "write")
  => kkConn = kkSup.conn /\ kkSubs \subseteq kkServer[kkConn]

\* When Close has returned the supervisor has ended, and a connection that a
\* Join or the supervisor opened meanwhile is not read by anybody.
KickClosedIsQuiet == kkClose = "done" => kkSup.pc \in {"none", "ended"}

\* "a blocked endpoint doesn't get hammered": while no lookup succeeds, at most
\* Threshold direct lookups, and one more for each other Join that was already
\* past the breaker, are refused before the cooldown is over.
BreakerSpares == kkDirect <= Threshold + Cardinality(KkJoins) - 1

\* "Leave stops reading a channel": when no Join is on its way, the chatrooms
\* that are read are channels that are joined.
KickLeaveStops == (\A j \in KkJoins : kkJoin[j] = JoinIdle) => kkSubs \subseteq kkJoined

\* emit gives up once the adapter's context is cancelled: nothing is sent on the
\* events channel that Close has closed.
KickSendsBeforeClose == ~kkPanic

\* The Kick reader keeps what it joined and no more than it may: a live
\* connection is subscribed to every chatroom of the map, a closed adapter
\* reads nothing, and the breaker spares an endpoint that refuses.
KickSound == KickTypeOK /\ KickMembershipRestored /\ KickClosedIsQuiet /\ BreakerSpares
=============================================================================
