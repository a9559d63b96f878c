------------------------------- MODULE EventSub -------------------------------
(***************************************************************************)
(* The signed-in read path of the Twitch adapter                           *)
(* (src/internal/platform/twitch: eventsub_supervisor.go,                  *)
(* eventsub_session.go, eventsub_helix.go, and Authenticate,               *)
(* Deauthenticate, onESState, Join, Leave of adapter.go).  A supervisor    *)
(* keeps one WebSocket to Twitch, subscribes every channel on it, and      *)
(* tells the adapter when a channel's chat comes up or goes down, so that  *)
(* the adapter moves the channel from IRC to EventSub and back.            *)
(*                                                                         *)
(* Processes: one caller for each channel (Join, Leave), the account's     *)
(* caller (Authenticate, Deauthenticate), the supervisor's run goroutine,  *)
(* and a pool of the short-lived goroutines it starts (onWelcome,          *)
(* subscribeChannel, onRevoke, the deletions of leave).  A step is one     *)
(* critical section or one request.  A channel's state object is the pair  *)
(* of its name and a generation, because a goroutine may still hold the    *)
(* object of a registration that is over.                                  *)
(*                                                                         *)
(* Abstractions: IRC is the set of channels it holds, which TwitchIRC      *)
(* refines; the two AutoMod topics are one; the account signs in and out   *)
(* once; health, the automod flag and the length of the backoff, which     *)
(* nothing here reads, are left out.                                       *)
(***************************************************************************)
EXTENDS Integers, Sequences, FiniteSets

CONSTANTS
  Channels,      \* channel logins
  Workers,       \* bound: goroutines that are alive at the same time
  MaxEvents,     \* bound: calls of Join and Leave, connections that are lost
                 \* or moved, requests that fail, revocations, all together
  SubsPerConn,   \* maxSubsPerConn
  ConnsPerUser   \* maxConnsPerUser

ASSUME EventSubAssumption ==
  /\ IsFiniteSet(Channels) /\ IsFiniteSet(Workers)
  /\ MaxEvents \in Nat
  /\ SubsPerConn \in Nat \ {0} /\ ConnsPerUser \in Nat \ {0}

Topics == <<"chat", "automod">>   \* subTypesFor, in the order of its list
Chat == 1
Gens == 1 .. MaxEvents + 1   \* a registration needs a Join of its own

VARIABLES
  \* the adapter
  joined,   \* Adapter.joined
  irc,      \* the channels that the IRC shards hold
  es,       \* Adapter.es: "none" before sign-in, "on", "off" after sign-out
  pc,       \* where the caller of a channel is
  saw,      \* Adapter.es as that caller has read it
  apc,      \* where the account's caller is
  atodo,    \* the channels it has yet to register or to move back to IRC
  \* the supervisor
  reg,      \* esSupervisor.channels: the generation registered, 0 is none
  gen,      \* the registrations of a channel so far
  up,       \* channel -> generation -> esChannelState.up
  bid,      \* channel -> generation -> is the broadcaster id resolved
  subs,     \* channel -> generation -> topic -> id; 0 is none, -1 is unknown
  sid,      \* esSupervisor.sessionID, 0 is ""
  budget,   \* subBudget.conns
  rpc,      \* where run is
  carried,  \* run's local
  rtodo,    \* the channels that markAllDown has yet to report
  rcur,     \* the one whose callback is past its test, if any
  \* the short-lived goroutines
  wpc,      \* where a goroutine is
  wobj,     \* the state object it works on
  wsid,     \* the session it was started with
  wtop,     \* the topic it is at
  wchat,    \* subscribeChannel's chatUp
  wans,     \* Twitch's answer: an id, -1 for 409, 0 for an error
  wtodo,    \* onWelcome's pending
  wids,     \* the ids that leave has yet to delete
  \* Twitch
  conn,     \* the connections opened so far
  sess,     \* the id of the session on the newest one
  link,     \* "new" before its welcome, "up", "moving" to another URL, "dead"
  tsub,     \* channel -> topic -> the subscription enabled, 0 is none
  \* what the bound counts
  fails, revokes, ops, losses, moves,
  leaves    \* how many of the ops are Leaves

adapterVars == <<joined, irc, es, pc, saw, apc, atodo>>
objVars == <<reg, gen, up, bid, subs, sid, budget>>
runVars == <<rpc, carried, rtodo, rcur>>
workVars == <<wpc, wobj, wsid, wtop, wchat, wans, wtodo, wids>>
twitchVars == <<conn, sess, link, tsub>>
bounds == <<fails, revokes, ops, losses, moves, leaves>>
vars == <<adapterVars, objVars, runVars, workVars, twitchVars, bounds>>

Objects == Channels \X Gens
NoObj == <<"none", 0>>

TypeAdapter ==
  /\ joined \subseteq Channels /\ irc \subseteq Channels
  /\ es \in {"none", "on", "off"}
  /\ pc \in [Channels -> {"idle", "ircjoin", "esjoin", "ircleave", "esleave"}]
  /\ saw \in [Channels -> {"none", "on", "off"}]
  /\ apc \in {"idle", "register", "signedin", "cancel", "await", "rejoin", "done"}
  /\ atodo \subseteq Channels
TypeSupervisor ==
  /\ reg \in [Channels -> 0 .. MaxEvents + 1] /\ gen \in [Channels -> 0 .. MaxEvents + 1]
  /\ up \in [Channels -> [Gens -> {"no", "yes"}]]
  /\ bid \in [Channels -> [Gens -> {"no", "yes"}]]
  /\ subs \in [Channels -> [Gens -> [DOMAIN Topics -> Nat \cup {-1}]]]
  /\ sid \in Nat
  /\ budget \in Seq(0 .. SubsPerConn) /\ Len(budget) <= ConnsPerUser
  /\ rpc \in {"off", "dial", "session", "flip", "flipirc", "sleep", "done"}
  /\ carried \in {"no", "yes"} /\ rtodo \subseteq Channels /\ rcur \subseteq Channels
TypeWorkers ==
  /\ wpc \in [Workers -> {"free", "welcome", "welcomeback", "start", "reserve", "create", "record",
                          "finish", "upcheck", "upirc", "revoke", "downcheck", "downirc",
                          "delete"}]
  /\ wobj \in [Workers -> Objects \cup {NoObj}]
  /\ wsid \in [Workers -> Nat] /\ wtop \in [Workers -> 0 .. 2]
  /\ wchat \in [Workers -> {"no", "yes"}]
  /\ wans \in [Workers -> Nat \cup {-1}]
  /\ wtodo \in [Workers -> SUBSET Objects]
  /\ \A w \in Workers : wids[w] \subseteq Nat
TypeTwitch ==
  /\ conn \in Nat /\ sess \in Nat
  /\ link \in {"new", "up", "moving", "dead"}
  /\ tsub \in [Channels -> [DOMAIN Topics -> Nat]]

\* Types, and the budget: no connection is given more than its share.
TypeOK ==
  /\ TypeAdapter /\ TypeSupervisor /\ TypeWorkers /\ TypeTwitch
  /\ fails \in Nat /\ revokes \in Nat /\ ops \in Nat
  /\ losses \in Nat /\ moves \in Nat /\ leaves \in Nat

NoSubs == [t \in DOMAIN Topics |-> 0]
NoTwitchSubs == [c \in Channels |-> NoSubs]

\* Before the account signs in; some channels are joined already.
Init ==
  /\ joined \in SUBSET Channels /\ irc = joined /\ es = "none"
  /\ pc = [c \in Channels |-> "idle"] /\ saw = [c \in Channels |-> "none"]
  /\ apc = "idle" /\ atodo = {}
  /\ reg = [c \in Channels |-> 0] /\ gen = [c \in Channels |-> 0]
  /\ up = [c \in Channels |-> [g \in Gens |-> "no"]]
  /\ bid = [c \in Channels |-> [g \in Gens |-> "no"]]
  /\ subs = [c \in Channels |-> [g \in Gens |-> NoSubs]]
  /\ sid = 0 /\ budget = << >>
  /\ rpc = "off" /\ carried = "no" /\ rtodo = {} /\ rcur = {}
  /\ wpc = [w \in Workers |-> "free"] /\ wobj = [w \in Workers |-> NoObj]
  /\ wsid = [w \in Workers |-> 0] /\ wtop = [w \in Workers |-> 0]
  /\ wchat = [w \in Workers |-> "no"] /\ wans = [w \in Workers |-> 0]
  /\ wtodo = [w \in Workers |-> {}] /\ wids = [w \in Workers |-> {}]
  /\ conn = 0 /\ sess = 0 /\ link = "dead" /\ tsub = NoTwitchSubs
  /\ fails = 0 /\ revokes = 0 /\ ops = 0 /\ losses = 0 /\ moves = 0 /\ leaves = 0

MayHappen == fails + revokes + ops + losses + moves < MaxEvents

Cancelled == apc \in {"await", "rejoin", "done"}   \* the supervisor's context

-----------------------------------------------------------------------------
(* Goroutines.                                                             *)

\* go f(...): a free worker starts at a step with these locals.
Spawn(step, obj, s, top, del) ==
  \E w \in Workers :
    /\ wpc[w] = "free"
    /\ wpc' = [wpc EXCEPT ![w] = step]
    /\ wobj' = [wobj EXCEPT ![w] = obj]
    /\ wsid' = [wsid EXCEPT ![w] = s]
    /\ wtop' = [wtop EXCEPT ![w] = top]
    /\ wids' = [wids EXCEPT ![w] = del]
    /\ UNCHANGED <<wchat, wans, wtodo>>

\* A goroutine ends and forgets its locals.
End(w) ==
  /\ wpc' = [wpc EXCEPT ![w] = "free"] /\ wobj' = [wobj EXCEPT ![w] = NoObj]
  /\ wsid' = [wsid EXCEPT ![w] = 0] /\ wtop' = [wtop EXCEPT ![w] = 0]
  /\ wchat' = [wchat EXCEPT ![w] = "no"] /\ wans' = [wans EXCEPT ![w] = 0]
  /\ wtodo' = [wtodo EXCEPT ![w] = {}] /\ wids' = [wids EXCEPT ![w] = {}]

\* onWelcome's loop: subscribe the next of these objects, or end.
SubscribeNext(w, pending) ==
  IF pending = {}
  THEN End(w)
  ELSE \E o \in pending :
         /\ wpc' = [wpc EXCEPT ![w] = "start"]
         /\ wobj' = [wobj EXCEPT ![w] = o]
         /\ wtodo' = [wtodo EXCEPT ![w] = pending \ {o}]
         /\ wtop' = [wtop EXCEPT ![w] = 0] /\ wchat' = [wchat EXCEPT ![w] = "no"]
         /\ wans' = [wans EXCEPT ![w] = 0]
         /\ UNCHANGED <<wsid, wids>>

\* subscribeChannel returns to whoever called it.
SubscribeReturns(w) == SubscribeNext(w, wtodo[w])

Goto(w, step) ==
  /\ wpc' = [wpc EXCEPT ![w] = step]
  /\ UNCHANGED <<wobj, wsid, wtop, wchat, wans, wtodo, wids>>

-----------------------------------------------------------------------------
(* subBudget.                                                              *)

HasRoom(i) == budget[i] < SubsPerConn
BudgetOk == (\E i \in DOMAIN budget : HasRoom(i)) \/ Len(budget) < ConnsPerUser
BudgetAdd ==
  IF \E i \in DOMAIN budget : HasRoom(i)
  THEN LET i == CHOOSE j \in DOMAIN budget : HasRoom(j) /\ \A k \in 1 .. j - 1 : ~HasRoom(k)
       IN [budget EXCEPT ![i] = @ + 1]
  ELSE Append(budget, 1)

\* n times remove(0): the first connection gives up slots, never below zero.
BudgetRemove(n) ==
  IF budget = << >> THEN budget
  ELSE [budget EXCEPT ![1] = IF @ >= n THEN @ - n ELSE 0]

-----------------------------------------------------------------------------
(* The adapter: Join and Leave.                                            *)

CallerGoto(c, step) == pc' = [pc EXCEPT ![c] = step]
CallerReturns(c) == CallerGoto(c, "idle") /\ saw' = [saw EXCEPT ![c] = "none"]
\* The EventSub half of the call, if there was a supervisor.
CallerThen(c, step) ==
  IF saw[c] = "on" THEN CallerGoto(c, step) /\ UNCHANGED saw ELSE CallerReturns(c)

BeginJoin(c) ==
  /\ pc[c] = "idle" /\ MayHappen
  /\ joined' = joined \cup {c}
  /\ saw' = [saw EXCEPT ![c] = es]
  /\ CallerGoto(c, "ircjoin")
  /\ ops' = ops + 1
  /\ UNCHANGED <<irc, es, apc, atodo, objVars, runVars, workVars, twitchVars,
                 fails, revokes, losses, moves, leaves>>

\* ircJoin where its error is ignored: the channel may stay off IRC.
MayJoinIrc(c) ==
  \/ irc' = irc \cup {c} /\ UNCHANGED fails
  \/ MayHappen /\ c \notin irc /\ fails' = fails + 1 /\ UNCHANGED irc

\* ircJoin; on an error Join returns without registering with EventSub.
JoinIrc(c) ==
  /\ pc[c] = "ircjoin"
  /\ \/ /\ irc' = irc \cup {c}
        /\ CallerThen(c, "esjoin")
        /\ UNCHANGED fails
     \/ /\ MayHappen /\ c \notin irc
        /\ fails' = fails + 1
        /\ CallerReturns(c) /\ UNCHANGED irc
  /\ UNCHANGED <<joined, es, apc, atodo, objVars, runVars, workVars, twitchVars,
                 revokes, ops, losses, moves, leaves>>

\* esSupervisor.join: a new object, subscribed at once if a session is live.
Register(c) ==
  IF reg[c] # 0
  THEN UNCHANGED <<objVars, workVars>>
  ELSE /\ gen' = [gen EXCEPT ![c] = @ + 1]
       /\ reg' = [reg EXCEPT ![c] = gen[c] + 1]
       /\ IF sid = 0 THEN UNCHANGED workVars
          ELSE Spawn("start", <<c, gen[c] + 1>>, sid, 0, {})
       /\ UNCHANGED <<up, bid, subs, sid, budget>>

EsJoin(c) ==
  /\ pc[c] = "esjoin"
  /\ Register(c)
  /\ CallerReturns(c)
  /\ UNCHANGED <<joined, irc, es, apc, atodo, runVars, twitchVars, bounds>>

BeginLeave(c) ==
  /\ pc[c] = "idle" /\ c \in joined /\ MayHappen
  /\ joined' = joined \ {c}
  /\ saw' = [saw EXCEPT ![c] = es]
  /\ CallerGoto(c, "ircleave")
  /\ ops' = ops + 1 /\ leaves' = leaves + 1
  /\ UNCHANGED <<irc, es, apc, atodo, objVars, runVars, workVars, twitchVars,
                 fails, revokes, losses, moves>>

LeaveIrc(c) ==
  /\ pc[c] = "ircleave"
  /\ irc' = irc \ {c}
  /\ CallerThen(c, "esleave")
  /\ UNCHANGED <<joined, es, apc, atodo, objVars, runVars, workVars, twitchVars, bounds>>

\* esSupervisor.leave: forget the object, delete its subscriptions elsewhere.
Held(c, g) == {t \in DOMAIN Topics : subs[c][g][t] # 0}
KnownIds(c, g) == {subs[c][g][t] : t \in {u \in Held(c, g) : subs[c][g][u] > 0}}
EsLeave(c) ==
  /\ pc[c] = "esleave"
  /\ IF reg[c] = 0 THEN UNCHANGED <<objVars, workVars>>
     ELSE /\ reg' = [reg EXCEPT ![c] = 0]
          /\ budget' = BudgetRemove(Cardinality(Held(c, reg[c])))
          /\ Spawn("delete", NoObj, 0, 0, KnownIds(c, reg[c]))
          /\ UNCHANGED <<gen, up, bid, subs, sid>>
  /\ CallerReturns(c)
  /\ UNCHANGED <<joined, irc, es, apc, atodo, runVars, twitchVars, bounds>>

-----------------------------------------------------------------------------
(* The adapter: Authenticate and Deauthenticate.                           *)

Authenticate ==
  /\ apc = "idle" /\ es = "none"
  /\ es' = "on"
  /\ rpc' = "dial"
  /\ atodo' = joined
  /\ apc' = "register"
  /\ UNCHANGED <<joined, irc, pc, saw, objVars, carried, rtodo, rcur, workVars, twitchVars, bounds>>

AuthenticateJoin(c) ==
  /\ apc = "register" /\ c \in atodo
  /\ Register(c)
  /\ atodo' = atodo \ {c}
  /\ UNCHANGED <<joined, irc, es, pc, saw, apc, runVars, twitchVars, bounds>>

\* A step of the account's caller that only moves it on.
AccountGoes(from, to) ==
  /\ apc = from /\ apc' = to
  /\ UNCHANGED <<joined, irc, es, pc, saw, atodo, objVars, runVars, workVars, twitchVars, bounds>>

AuthenticateReturns == atodo = {} /\ AccountGoes("register", "signedin")

\* channelUp
IsUp(c) == reg[c] # 0 /\ up[c][reg[c]] = "yes"

\* Under Adapter.mu: unpublish the supervisor, note what it reads.
Deauthenticate ==
  /\ apc = "signedin" /\ apc' = "cancel"
  /\ es' = "off"
  /\ atodo' = {c \in joined : IsUp(c)}
  /\ UNCHANGED <<joined, irc, pc, saw, objVars, runVars, workVars, twitchVars, bounds>>

\* esSupervisor.close: cancel the context, then wait for run.
CancelSupervisor == AccountGoes("cancel", "await")

\* A close that does not wait.
AwaitNothing == AccountGoes("await", "rejoin")
AwaitSupervisor == rpc = "done" /\ AccountGoes("await", "rejoin")

\* ircJoin of every channel noted; its error is ignored.
Rejoin(c) ==
  /\ apc = "rejoin" /\ c \in atodo
  /\ atodo' = atodo \ {c}
  /\ MayJoinIrc(c)
  /\ UNCHANGED <<joined, es, pc, saw, apc, objVars, runVars, workVars, twitchVars,
                 revokes, ops, losses, moves, leaves>>

DeauthenticateReturns == atodo = {} /\ AccountGoes("rejoin", "done")

-----------------------------------------------------------------------------
(* run: the connection loop.                                               *)

\* The connection is closed, and Twitch drops its subscriptions.
HangUp == link' = "dead" /\ tsub' = NoTwitchSubs /\ UNCHANGED <<conn, sess>>

\* The loop's condition, or Read fails because the context is cancelled.
RunStops ==
  /\ rpc \in {"dial", "session"} /\ Cancelled
  /\ rpc' = "done" /\ HangUp
  /\ UNCHANGED <<adapterVars, objVars, carried, rtodo, rcur, workVars, bounds>>

\* A dial of the reconnect URL keeps the subscriptions, and Twitch may keep the
\* session's id; a fresh session starts empty.
DialOk ==
  /\ rpc = "dial" /\ ~Cancelled
  /\ conn' = conn + 1
  /\ IF carried = "yes"
     THEN sess' \in {sess, conn + 1} /\ UNCHANGED tsub
     ELSE sess' = conn + 1 /\ tsub' = NoTwitchSubs
  /\ link' = "new"
  /\ rpc' = "session"
  /\ UNCHANGED <<adapterVars, objVars, carried, rtodo, rcur, workVars, bounds>>

\* The channels that markAllDown reports.
Flipped == {c \in Channels : IsUp(c)}
\* markAllDown's critical section; the callbacks follow.
MarkAllDown ==
  /\ sid' = 0 /\ budget' = << >>
  /\ rtodo' = Flipped
  /\ up' = [c \in Channels |-> IF reg[c] = 0 THEN up[c] ELSE [up[c] EXCEPT ![reg[c]] = "no"]]
  /\ subs' = [c \in Channels |->
                IF reg[c] = 0 THEN subs[c] ELSE [subs[c] EXCEPT ![reg[c]] = NoSubs]]
  /\ UNCHANGED <<reg, gen, bid, rcur>>

DialFails ==
  /\ rpc = "dial" /\ (Cancelled \/ MayHappen)
  /\ fails' = IF Cancelled THEN fails ELSE fails + 1
  /\ MarkAllDown
  /\ carried' = "no"
  /\ rpc' = "flip"
  /\ HangUp
  /\ UNCHANGED <<adapterVars, workVars, revokes, ops, losses, moves, leaves>>

\* The welcome frame: go onWelcome(id, recreate).
Welcome ==
  /\ rpc = "session" /\ link = "new"
  /\ Spawn(IF carried = "yes" THEN "welcomeback" ELSE "welcome", NoObj, sess, 0, {})
  /\ link' = "up"
  /\ carried' = "no"
  /\ UNCHANGED <<adapterVars, objVars, rpc, rtodo, rcur, conn, sess, tsub, bounds>>

\* External: the connection dies, and with it its subscriptions.
Lose ==
  /\ rpc = "session" /\ link \in {"new", "up"} /\ MayHappen
  /\ losses' = losses + 1
  /\ HangUp
  /\ UNCHANGED <<adapterVars, objVars, runVars, workVars, fails, revokes, ops, moves, leaves>>

\* session.run returns an error.
SessionLost ==
  /\ rpc = "session" /\ link = "dead" /\ ~Cancelled
  /\ MarkAllDown
  /\ carried' = "no"
  /\ rpc' = "flip"
  /\ UNCHANGED <<adapterVars, workVars, twitchVars, bounds>>

\* session_reconnect: close this connection and dial the URL Twitch gave.
SessionMoves ==
  /\ rpc = "session" /\ link = "up" /\ ~Cancelled /\ MayHappen
  /\ moves' = moves + 1
  /\ link' = "moving"
  /\ carried' = "yes"
  /\ rpc' = "dial"
  /\ UNCHANGED <<adapterVars, objVars, rtodo, rcur, workVars, conn, sess, tsub,
                 fails, revokes, ops, losses, leaves>>

\* onESState(slug, false): is the channel still joined?
FlipCheck(c) ==
  /\ rpc = "flip" /\ c \in rtodo
  /\ rtodo' = rtodo \ {c}
  /\ IF c \in joined THEN rpc' = "flipirc" /\ rcur' = {c} ELSE UNCHANGED <<rpc, rcur>>
  /\ UNCHANGED <<adapterVars, objVars, carried, workVars, twitchVars, bounds>>

\* Then ircJoin.
FlipIrc(c) ==
  /\ rpc = "flipirc" /\ c \in rcur
  /\ MayJoinIrc(c)
  /\ rpc' = "flip" /\ rcur' = {}
  /\ UNCHANGED <<joined, es, pc, saw, apc, atodo, objVars, carried, rtodo, workVars,
                 twitchVars, revokes, ops, losses, moves, leaves>>

FlipsDone ==
  /\ rpc = "flip" /\ rtodo = {}
  /\ rpc' = "sleep"
  /\ UNCHANGED <<adapterVars, objVars, carried, rtodo, rcur, workVars, twitchVars, bounds>>

SleepDone ==
  /\ rpc = "sleep"
  /\ rpc' = IF Cancelled THEN "done" ELSE "dial"
  /\ UNCHANGED <<adapterVars, objVars, carried, rtodo, rcur, workVars, twitchVars, bounds>>

-----------------------------------------------------------------------------
(* onWelcome and subscribeChannel.                                         *)

\* A welcome that takes every session for a carried one.
OnWelcomeCarried(w) ==
  /\ wpc[w] \in {"welcome", "welcomeback"}
  /\ sid' = wsid[w]
  /\ End(w)
  /\ UNCHANGED <<adapterVars, reg, gen, up, bid, subs, budget, runVars, twitchVars, bounds>>
\* Record the session; a fresh one subscribes every channel.
OnWelcome(w) ==
  /\ wpc[w] \in {"welcome", "welcomeback"}
  /\ sid' = wsid[w]
  /\ IF wpc[w] = "welcome"
     THEN /\ budget' = << >>
          /\ SubscribeNext(w, {<<c, reg[c]>> : c \in {d \in Channels : reg[d] # 0}})
     ELSE End(w) /\ UNCHANGED budget
  /\ UNCHANGED <<adapterVars, reg, gen, up, bid, subs, runVars, twitchVars, bounds>>

\* The token and the broadcaster id.
Start(w) ==
  /\ wpc[w] = "start" /\ ~Cancelled
  /\ bid' = [bid EXCEPT ![wobj[w][1]][wobj[w][2]] = "yes"]
  /\ wpc' = [wpc EXCEPT ![w] = "reserve"]
  /\ wtop' = [wtop EXCEPT ![w] = Chat]
  /\ UNCHANGED <<adapterVars, reg, gen, up, subs, sid, budget, runVars,
                 wobj, wsid, wchat, wans, wtodo, wids, twitchVars, bounds>>

StartFails(w) ==
  /\ wpc[w] = "start" /\ (Cancelled \/ MayHappen)
  /\ fails' = IF Cancelled THEN fails ELSE fails + 1
  /\ SubscribeReturns(w)
  /\ UNCHANGED <<adapterVars, objVars, runVars, twitchVars, revokes, ops, losses, moves, leaves>>

\* "Session changed under us": give up without touching up.
ReserveStale(w) ==
  /\ wpc[w] = "reserve" /\ sid # wsid[w]
  /\ SubscribeReturns(w)
  /\ UNCHANGED <<adapterVars, objVars, runVars, twitchVars, bounds>>

\* A slot of the budget; at the cap the loop ends.
Reserve(w) ==
  /\ wpc[w] = "reserve" /\ sid = wsid[w]
  /\ budget' = IF BudgetOk THEN BudgetAdd ELSE budget
  /\ Goto(w, IF BudgetOk THEN "create" ELSE "finish")
  /\ UNCHANGED <<adapterVars, reg, gen, up, bid, subs, sid, runVars, twitchVars, bounds>>

Answer(w, a) ==
  /\ wans' = [wans EXCEPT ![w] = a]
  /\ wpc' = [wpc EXCEPT ![w] = "record"]
  /\ UNCHANGED <<wobj, wsid, wtop, wchat, wtodo, wids>>

\* External: Twitch knows the session that the request names.
SessionKnown(w) == link \in {"new", "up"} /\ wsid[w] = sess /\ ~Cancelled
Enabled(w) == tsub[wobj[w][1]][wtop[w]]
Enable(w, i) == tsub' = [tsub EXCEPT ![wobj[w][1]][wtop[w]] = i]
\* A subscription's id is new; ids that nobody remembers any more are reused,
\* which nobody can tell.
IdsInUse ==
  {tsub[c][t] : c \in Channels, t \in DOMAIN Topics}
    \cup {subs[o[1]][o[2]][t] : o \in Objects, t \in DOMAIN Topics}
    \cup {wans[w] : w \in Workers} \cup UNION {wids[w] : w \in Workers}
FreshId == CHOOSE i \in 1 .. Cardinality(IdsInUse) + 1 :
             i \notin IdsInUse /\ \A j \in 1 .. i - 1 : j \in IdsInUse

CreateOk(w) ==
  /\ wpc[w] = "create" /\ SessionKnown(w) /\ Enabled(w) = 0
  /\ Enable(w, FreshId) /\ Answer(w, FreshId)
  /\ UNCHANGED <<adapterVars, objVars, runVars, conn, sess, link, bounds>>

\* 409: success, but the id is not known.
CreateConflict(w) ==
  /\ wpc[w] = "create" /\ SessionKnown(w) /\ Enabled(w) # 0
  /\ Answer(w, -1)
  /\ UNCHANGED <<adapterVars, objVars, runVars, twitchVars, bounds>>

CreateRefused(w) ==
  /\ wpc[w] = "create" /\ ~SessionKnown(w)
  /\ Answer(w, 0)
  /\ UNCHANGED <<adapterVars, objVars, runVars, twitchVars, bounds>>

\* 403 for AutoMod: the account does not moderate the channel, "expected, not
\* an error", so no trouble either.
CreateForbidden(w) ==
  /\ wpc[w] = "create" /\ SessionKnown(w) /\ wtop[w] # Chat /\ Enabled(w) = 0
  /\ Answer(w, 0)
  /\ UNCHANGED <<adapterVars, objVars, runVars, twitchVars, bounds>>

\* The request fails, or its answer is lost.
CreateFails(w) ==
  /\ wpc[w] = "create" /\ SessionKnown(w) /\ MayHappen
  /\ fails' = fails + 1
  /\ Answer(w, 0)
  /\ \/ UNCHANGED tsub
     \/ Enabled(w) = 0 /\ Enable(w, FreshId)
  /\ UNCHANGED <<adapterVars, objVars, runVars, conn, sess, link,
                 revokes, ops, losses, moves, leaves>>

\* Book the answer; the next topic, or the end of the loop.
Record(w) ==
  LET c == wobj[w][1]  g == wobj[w][2]  t == wtop[w] IN
  /\ wpc[w] = "record"
  /\ IF wans[w] = 0
     THEN budget' = BudgetRemove(1) /\ UNCHANGED <<subs, wchat>>
     ELSE /\ subs' = [subs EXCEPT ![c][g][t] = wans[w]]
          /\ wchat' = IF t = Chat THEN [wchat EXCEPT ![w] = "yes"] ELSE wchat
          /\ UNCHANGED budget
  /\ wans' = [wans EXCEPT ![w] = 0]
  /\ wtop' = [wtop EXCEPT ![w] = IF t = Len(Topics) THEN 0 ELSE t + 1]
  /\ wpc' = [wpc EXCEPT ![w] = IF t = Len(Topics) THEN "finish" ELSE "reserve"]
  /\ UNCHANGED <<adapterVars, reg, gen, up, bid, sid, runVars, wobj, wsid, wtodo, wids,
                 twitchVars, bounds>>

\* A report of every channel that was not up.
FinishUp(w) ==
  LET c == wobj[w][1]  g == wobj[w][2] IN
  /\ wpc[w] = "finish"
  /\ up' = [up EXCEPT ![c][g] = wchat[w]]
  /\ IF up[c][g] = "no" THEN Goto(w, "upcheck") ELSE SubscribeReturns(w)
  /\ UNCHANGED <<adapterVars, reg, gen, bid, subs, sid, budget, runVars, twitchVars, bounds>>
\* The last critical section: up follows chatUp, only a rise is reported.
Finish(w) ==
  LET c == wobj[w][1]  g == wobj[w][2] IN
  /\ wpc[w] = "finish"
  /\ up' = [up EXCEPT ![c][g] = wchat[w]]
  /\ IF wchat[w] = "yes" /\ up[c][g] = "no" THEN Goto(w, "upcheck") ELSE SubscribeReturns(w)
  /\ UNCHANGED <<adapterVars, reg, gen, bid, subs, sid, budget, runVars, twitchVars, bounds>>

\* onESState(slug, true): is the channel still joined, then ircLeave.
UpCheck(w) ==
  /\ wpc[w] = "upcheck"
  /\ IF wobj[w][1] \in joined THEN Goto(w, "upirc") ELSE SubscribeReturns(w)
  /\ UNCHANGED <<adapterVars, objVars, runVars, twitchVars, bounds>>

UpIrc(w) ==
  /\ wpc[w] = "upirc"
  /\ irc' = irc \ {wobj[w][1]}
  /\ SubscribeReturns(w)
  /\ UNCHANGED <<joined, es, pc, saw, apc, atodo, objVars, runVars, twitchVars, bounds>>

-----------------------------------------------------------------------------
(* onRevoke, and the deletions of leave.                                   *)

\* External: Twitch revokes a subscription; go onRevoke(id, topic, channel).
Revoke(c, t) ==
  /\ rpc = "session" /\ link = "up" /\ MayHappen
  /\ tsub[c][t] # 0
  /\ tsub' = [tsub EXCEPT ![c][t] = 0]
  /\ revokes' = revokes + 1
  /\ Spawn("revoke", <<c, 1>>, 0, t, {})
  /\ UNCHANGED <<adapterVars, objVars, runVars, conn, sess, link,
                 fails, ops, losses, moves, leaves>>

\* A channel is registered whose broadcaster id matches.
Target(c) == reg[c] # 0 /\ bid[c][reg[c]] = "yes"

RevokeUnknown(w) ==
  /\ wpc[w] = "revoke" /\ ~Target(wobj[w][1])
  /\ End(w)
  /\ UNCHANGED <<adapterVars, objVars, runVars, twitchVars, bounds>>

\* Drop the bookkeeping and read the session in one critical section.
OnRevoke(w) ==
  LET c == wobj[w][1]  g == reg[c]  t == wtop[w] IN
  /\ wpc[w] = "revoke" /\ Target(c)
  /\ subs' = [subs EXCEPT ![c][g][t] = 0]
  /\ budget' = BudgetRemove(1)
  /\ up' = IF t = Chat THEN [up EXCEPT ![c][g] = "no"] ELSE up
  /\ IF sid = 0 /\ ~(t = Chat /\ up[c][g] = "yes")
     THEN End(w)
     ELSE /\ wobj' = [wobj EXCEPT ![w] = <<c, g>>]
          /\ wsid' = [wsid EXCEPT ![w] = sid]
          /\ wtop' = [wtop EXCEPT ![w] = 0]
          /\ wpc' = [wpc EXCEPT ![w] =
                       IF t = Chat /\ up[c][g] = "yes" THEN "downcheck" ELSE "start"]
          /\ UNCHANGED <<wchat, wans, wtodo, wids>>
  /\ UNCHANGED <<adapterVars, reg, gen, bid, sid, runVars, twitchVars, bounds>>

\* Retry the channel once, if there was a session.
Retry(w) == IF wsid[w] = 0 THEN End(w) ELSE Goto(w, "start")

DownCheck(w) ==
  /\ wpc[w] = "downcheck"
  /\ IF wobj[w][1] \in joined THEN Goto(w, "downirc") ELSE Retry(w)
  /\ UNCHANGED <<adapterVars, objVars, runVars, twitchVars, bounds>>

DownIrc(w) ==
  /\ wpc[w] = "downirc"
  /\ MayJoinIrc(wobj[w][1])
  /\ Retry(w)
  /\ UNCHANGED <<joined, es, pc, saw, apc, atodo, objVars, runVars, twitchVars,
                 revokes, ops, losses, moves, leaves>>

\* DELETE by id: a 404 is fine, an error is ignored.
Delete(w, i) ==
  /\ wpc[w] = "delete" /\ i \in wids[w]
  /\ wids' = [wids EXCEPT ![w] = @ \ {i}]
  /\ \/ /\ ~Cancelled
        /\ tsub' = [c \in Channels |-> [t \in DOMAIN Topics |->
                      IF tsub[c][t] = i THEN 0 ELSE tsub[c][t]]]
        /\ UNCHANGED fails
     \/ /\ Cancelled \/ MayHappen
        /\ fails' = IF Cancelled THEN fails ELSE fails + 1
        /\ UNCHANGED tsub
  /\ UNCHANGED <<adapterVars, objVars, runVars, wpc, wobj, wsid, wtop, wchat, wans, wtodo,
                 conn, sess, link, revokes, ops, losses, moves, leaves>>

DeletesDone(w) ==
  /\ wpc[w] = "delete" /\ wids[w] = {}
  /\ End(w)
  /\ UNCHANGED <<adapterVars, objVars, runVars, twitchVars, bounds>>

-----------------------------------------------------------------------------
CallerStep(c) == JoinIrc(c) \/ EsJoin(c) \/ LeaveIrc(c) \/ EsLeave(c)
SignInStep == (\E c \in Channels : AuthenticateJoin(c)) \/ AuthenticateReturns
SignOutStep ==
  \/ CancelSupervisor \/ AwaitSupervisor
  \/ (\E c \in Channels : Rejoin(c)) \/ DeauthenticateReturns
RunStep ==
  \/ RunStops \/ DialOk \/ DialFails \/ Welcome \/ SessionLost
  \/ \E c \in Channels : FlipCheck(c) \/ FlipIrc(c)
  \/ FlipsDone \/ SleepDone
SubscribeStep(w) ==
  \/ OnWelcome(w) \/ Start(w) \/ StartFails(w) \/ ReserveStale(w) \/ Reserve(w)
  \/ CreateOk(w) \/ CreateConflict(w) \/ CreateRefused(w) \/ CreateForbidden(w)
  \/ CreateFails(w)
  \/ Record(w) \/ Finish(w) \/ UpCheck(w) \/ UpIrc(w)
RevokeStep(w) == RevokeUnknown(w) \/ OnRevoke(w) \/ DownCheck(w) \/ DownIrc(w)
DeleteStep(w) == (\E i \in wids[w] : Delete(w, i)) \/ DeletesDone(w)
WorkerStep(w) == SubscribeStep(w) \/ RevokeStep(w) \/ DeleteStep(w)
Environment ==
  \/ \E c \in Channels : BeginJoin(c) \/ BeginLeave(c)
  \/ Authenticate \/ Deauthenticate
  \/ Lose \/ SessionMoves
  \/ \E c \in Channels, t \in DOMAIN Topics : Revoke(c, t)

\* No goroutine or call is at work.
AtRest ==
  /\ \A w \in Workers : wpc[w] = "free"
  /\ \A c \in Channels : pc[c] = "idle"
  /\ apc \in {"idle", "signedin", "done"}
  /\ (rpc = "session" /\ link = "up") \/ rpc \in {"off", "sleep", "done"}

\* Nobody has anything to do: the daemon waits for the outside world.
Idle == AtRest /\ UNCHANGED vars

Next ==
  \/ Environment \/ SignInStep \/ SignOutStep \/ RunStep
  \/ \E c \in Channels : CallerStep(c)
  \/ \E w \in Workers : WorkerStep(w)
  \/ Idle

Spec == Init /\ [][Next]_vars

-----------------------------------------------------------------------------
(* Properties.                                                             *)

\* Messages of the channel reach the adapter.
Read(c) == c \in irc \/ (tsub[c][Chat] # 0 /\ link = "up")

\* No request has failed, nothing was revoked, no channel was left, the account
\* is signed in, and connections were either lost or moved, not both.
Undisturbed ==
  /\ fails = 0 /\ revokes = 0 /\ leaves = 0 /\ es # "off"
  /\ losses = 0 \/ moves = 0

\* A session is live, the supervisor knows it, and its goroutines have ended.
\* (onWelcome of an older session may record its id last: see the README.)
Settled == AtRest /\ rpc = "session" /\ sid = sess

\* "The channel stays joined throughout" (onESState): in a settled session every
\* joined channel is read, however often the connection was lost, or moved, and
\* in whatever order the callbacks ran, as long as Twitch answers and revokes
\* nothing and the budget has a slot for every topic (Capacity of EventSubProofs).
\* (The types, the subscription budget's among them, hold throughout.)
ReadAtRest == TypeOK /\ (Settled /\ Undisturbed => \A c \in joined : Read(c))

\* What channelUp says is so: in a settled session a channel marked up has its
\* chat subscription enabled on that session.
UpIsLive ==
  Settled /\ Undisturbed => \A c \in Channels : IsUp(c) => tsub[c][Chat] # 0

\* Sign-out is final (Deauthenticate, "reverting to read-only"): when it
\* returns, the connection is closed and nothing is subscribed any more,
\* whatever goroutines are still under way.
SignedOutIsSilent ==
  apc \in {"rejoin", "done"} =>
    rpc = "done" /\ link = "dead" /\ tsub = NoTwitchSubs

\* "Channels reading over EventSub move back to IRC first, so the feed survives
\* the sign-out" (Deauthenticate).
SurvivesSignOut ==
  apc = "done" /\ AtRest /\ fails = 0 /\ leaves = 0 => \A c \in joined : Read(c)

\* "falling back to IRC whenever a channel's EventSub subscriptions aren't
\* live" (adapter.go); refuted too, see the README.
FallsBack == AtRest /\ fails = 0 /\ leaves = 0 => \A c \in joined : Read(c)
=============================================================================
