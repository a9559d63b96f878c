----------------------------- MODULE StreamHub ------------------------------
(* The event stream: internal/api/hub.go, handleStream in internal/api/stream.go and
   the web client frontends/web/src/daemon/client.ts at its other end.

   The hub is a pipeline sink: its one worker stamps each event with a sequence
   number, records it in a ring and pushes it to the clients that want it.  Every
   connection has a read pump (subscribe messages, replay) and a write pump.  The
   client subscribes with the highest sequence number it has processed and skips
   what is not above it.

   An event is its sequence number; log remembers its channel.  The mutex h.mu is
   held exactly while some push is still to be done (todo).  The server end of a
   connection is dropped together with the client's end: a server client object
   that outlives its socket shares nothing with its successor.                 *)
EXTENDS Naturals, Sequences, FiniteSets

CONSTANTS
  Clients,      \* web clients, each with at most one connection
  Channels,     \* channel keys
  Everyone,     \* the key of an event that is broadcast to all
  Filters,      \* the channel lists a client may subscribe with ({} means all)
  RingSize,     \* replayBuffer
  Buffer,       \* clientBuffer
  MaxEvents,    \* bound: events stamped in one life of the daemon
  MaxRestarts,  \* bound: restarts of the daemon
  MaxTroubles,  \* bound: restarts and lost connections together
  MaxUpdates,   \* bound: calls of updateChannels on one client
  Stoppable     \* clients on which the page may call stop()

ASSUME StreamAssumption ==
  /\ Everyone \notin Channels
  /\ Filters \subseteq SUBSET Channels /\ Filters # {}
  /\ RingSize \in Nat \ {0} /\ Buffer \in Nat \ {0}
  /\ MaxEvents \in Nat /\ MaxRestarts \in Nat /\ MaxTroubles \in Nat /\ MaxUpdates \in Nat
  /\ Stoppable \subseteq Clients

VARIABLES
  epoch,    \* how often the daemon has been restarted
  server,   \* "serving" | "cancelled" (Server.Close) | "closed" (hub.Close)
  log,      \* keys of the events stamped so far; h.seq is its length
  ring,     \* h.replay: slot -> sequence number, 0 when empty
  rnext,    \* h.rnext
  members,  \* h.clients
  todo,     \* client -> pushes the holder of h.mu has still to do
  full,     \* client -> "yes" between the first and second select of pushBytes
  sub,      \* client -> c.sub, as its server side knows it
  send,     \* client -> contents of c.send
  hand,     \* client -> its read pump: "read" | "replay" (about to call replayTo)
  since,    \* client -> the cursor of the replay
  link,     \* client -> "new" | "discover" | "up" | "retry"
  opened,   \* client -> "yes" once onopen has run on this connection
  stopped,  \* client -> "yes" after stop()
  ctl,      \* client -> subscribe messages on their way to the server
  wire,     \* client -> events on their way to the client
  want,     \* client -> currentChannels
  lastSeq,  \* client -> lastSeq
  troubles, \* restarts and lost connections so far (bound)
  updates,  \* client -> calls of updateChannels (bound)
  applied,  \* client -> events it applied, as <<epoch, seq>> (history)
  skipped,  \* client -> events it skipped, as <<epoch, seq>> (history)
  owed,     \* client -> events queued for it on this connection (history)
  dropped   \* client -> events pushBytes dropped on this connection (history)

hubVars == <<server, log, ring, rnext, members, todo, full>>
connVars == <<sub, send, hand, since, owed, dropped>>
clientVars == <<link, opened, stopped, ctl, wire, want, lastSeq, troubles, updates, applied, skipped>>
vars == <<epoch, hubVars, connVars, clientVars>>

seq == Len(log)
InSeq(s) == {s[i] : i \in DOMAIN s}
MuFree == \A c \in Clients : todo[c] = << >>

Init ==
  /\ epoch = 0 /\ server = "serving" /\ log = << >>
  /\ ring = [i \in 0 .. RingSize - 1 |-> 0] /\ rnext = 0
  /\ members = {}
  /\ todo = [c \in Clients |-> << >>] /\ full = [c \in Clients |-> "no"]
  /\ sub = [c \in Clients |-> {}] /\ send = [c \in Clients |-> << >>]
  /\ hand = [c \in Clients |-> "read"] /\ since = [c \in Clients |-> 0]
  /\ link = [c \in Clients |-> "new"] /\ opened = [c \in Clients |-> "no"]
  /\ stopped = [c \in Clients |-> "no"]
  /\ ctl = [c \in Clients |-> << >>] /\ wire = [c \in Clients |-> << >>]
  /\ want \in [Clients -> Filters]
  /\ lastSeq = [c \in Clients |-> 0]
  /\ troubles = 0 /\ updates = [c \in Clients |-> 0]
  /\ applied = [c \in Clients |-> {}] /\ skipped = [c \in Clients |-> {}]
  /\ owed = [c \in Clients |-> {}] /\ dropped = [c \in Clients |-> {}]

-----------------------------------------------------------------------------
(* The hub.                                                                  *)

(* subscription.matches, and broadcastAll. *)
Matches(filter, k) == k = Everyone \/ filter = {} \/ k \in filter

(* Mutant of NextSlot: the ring reuses its last slot. *)
NextSlotStuck(i) == IF i = RingSize - 1 THEN i ELSE i + 1
NextSlot(i) == (i + 1) % RingSize

(* Consume: stamp, record, and queue one push per matching client (h.mu is taken). *)
Consume(k) ==
  /\ server # "closed" /\ MuFree
  /\ seq < MaxEvents
  /\ log' = Append(log, k)
  /\ ring' = [ring EXCEPT ![rnext] = seq + 1]
  /\ rnext' = NextSlot(rnext)
  /\ todo' = [c \in Clients |->
                IF c \in members /\ Matches(sub[c], k) THEN <<seq + 1>> ELSE << >>]
  /\ owed' = [c \in Clients |->
                IF c \in members /\ Matches(sub[c], k) THEN owed[c] \cup {seq + 1} ELSE owed[c]]
  /\ UNCHANGED <<epoch, server, members, full, sub, send, hand, since, dropped, clientVars>>

(* The numbers of S up to n in order, as a loop over the events collects them. *)
Ordered(n, S) ==
  LET upto[s \in 0 .. n] == IF s = 0 THEN << >>
                            ELSE IF s \in S THEN Append(upto[s - 1], s) ELSE upto[s - 1]
  IN  upto[n]

(* replayTo: the events of the ring past the cursor that c wants, in order. *)
Missed(c) ==
  {s \in 1 .. seq : s > since[c] /\ (\E i \in DOMAIN ring : ring[i] = s) /\ Matches(sub[c], log[s])}
Pending(c) == Ordered(seq, Missed(c))

ReplayTo(c) ==
  /\ hand[c] = "replay" /\ MuFree
  /\ c \in members
  /\ todo' = [todo EXCEPT ![c] = Pending(c)]
  /\ owed' = [owed EXCEPT ![c] = @ \cup InSeq(Pending(c))]
  /\ hand' = [hand EXCEPT ![c] = "read"]
  /\ since' = [since EXCEPT ![c] = 0]
  /\ UNCHANGED <<epoch, server, log, ring, rnext, members, full, sub, send, dropped, clientVars>>

(* The connection is gone on both ends.  The client's onclose schedules a retry. *)
LinkLost(C, next) ==
  /\ members' = members \ C
  /\ sub' = [c \in Clients |-> IF c \in C THEN {} ELSE sub[c]]
  /\ send' = [c \in Clients |-> IF c \in C THEN << >> ELSE send[c]]
  /\ hand' = [c \in Clients |-> IF c \in C THEN "read" ELSE hand[c]]
  /\ since' = [c \in Clients |-> IF c \in C THEN 0 ELSE since[c]]
  /\ owed' = [c \in Clients |-> IF c \in C THEN {} ELSE owed[c]]
  /\ dropped' = [c \in Clients |-> IF c \in C THEN {} ELSE dropped[c]]
  /\ ctl' = [c \in Clients |-> IF c \in C THEN << >> ELSE ctl[c]]
  /\ wire' = [c \in Clients |-> IF c \in C THEN << >> ELSE wire[c]]
  /\ opened' = [c \in Clients |-> IF c \in C THEN "no" ELSE opened[c]]
  /\ link' = [c \in Clients |-> IF c \in C THEN next ELSE link[c]]

(* replayTo after hub.Close: c is no member any more and its channel is closed.  With
   nothing to replay it returns; otherwise the send panics, and net/http ends the
   handler.                                                                   *)
ReplayToClosed(c) ==
  /\ hand[c] = "replay" /\ MuFree
  /\ c \notin members
  /\ IF Pending(c) = << >>
     THEN /\ hand' = [hand EXCEPT ![c] = "read"]
          /\ since' = [since EXCEPT ![c] = 0]
          /\ UNCHANGED <<members, sub, send, owed, dropped, link, opened, ctl, wire>>
     ELSE LinkLost({c}, "retry")
  /\ UNCHANGED <<epoch, server, log, ring, rnext, todo, full, stopped, want, lastSeq, troubles, updates,
                 applied, skipped>>

(* pushBytes: room in the buffer, at once or after the drop. *)
PushSend(c) ==
  /\ todo[c] # << >>
  /\ Len(send[c]) < Buffer
  /\ send' = [send EXCEPT ![c] = Append(@, Head(todo[c]))]
  /\ todo' = [todo EXCEPT ![c] = Tail(@)]
  /\ full' = [full EXCEPT ![c] = "no"]
  /\ UNCHANGED <<epoch, server, log, ring, rnext, members, sub, hand, since, owed, dropped,
                 clientVars>>

PushFull(c) ==
  /\ todo[c] # << >>
  /\ full[c] = "no" /\ Len(send[c]) = Buffer
  /\ full' = [full EXCEPT ![c] = "yes"]
  /\ UNCHANGED <<epoch, server, log, ring, rnext, members, todo, connVars, clientVars>>

(* Mutant of PushDrop: the event to be pushed is the one that is given up. *)
PushDropNewest(c) ==
  /\ full[c] = "yes" /\ send[c] # << >>
  /\ todo' = [todo EXCEPT ![c] = Tail(@)]
  /\ full' = [full EXCEPT ![c] = "no"]
  /\ UNCHANGED <<epoch, server, log, ring, rnext, members, connVars, clientVars>>

(* The second select: the oldest event goes, although the write pump may have made
   room in between; an empty channel falls through.                           *)
PushDrop(c) ==
  /\ full[c] = "yes" /\ send[c] # << >>
  /\ send' = [send EXCEPT ![c] = Append(Tail(@), Head(todo[c]))]
  /\ dropped' = [dropped EXCEPT ![c] = @ \cup {Head(send[c])}]
  /\ todo' = [todo EXCEPT ![c] = Tail(@)]
  /\ full' = [full EXCEPT ![c] = "no"]
  /\ UNCHANGED <<epoch, server, log, ring, rnext, members, sub, hand, since, owed, clientVars>>

-----------------------------------------------------------------------------
(* handleStream.                                                             *)

(* register; the subscription starts empty, that is, with every channel.  The client
   gets here from connect(), which does not look at stopped again after its await. *)
Connect(c) ==
  /\ link[c] = "discover" /\ server = "serving" /\ MuFree
  /\ members' = members \cup {c}
  /\ link' = [link EXCEPT ![c] = "up"]
  /\ UNCHANGED <<epoch, server, log, ring, rnext, todo, full, connVars,
                 opened, stopped, ctl, wire, want, lastSeq, troubles, updates, applied, skipped>>

(* Read pump: a subscribe message replaces the subscription; a cursor asks for a
   replay, which waits for h.mu.                                              *)
ReadSubscribe(c) ==
  /\ link[c] = "up" /\ server = "serving"
  /\ hand[c] = "read" /\ ctl[c] # << >>
  /\ sub' = [sub EXCEPT ![c] = Head(ctl[c]).channels]
  /\ since' = [since EXCEPT ![c] = Head(ctl[c]).since]
  /\ hand' = [hand EXCEPT ![c] = IF Head(ctl[c]).since > 0 THEN "replay" ELSE "read"]
  /\ ctl' = [ctl EXCEPT ![c] = Tail(@)]
  /\ UNCHANGED <<epoch, hubVars, send, owed, dropped, link, opened, stopped, wire, want,
                 lastSeq, troubles, updates, applied, skipped>>

WritePump(c) ==
  /\ link[c] = "up" /\ send[c] # << >>
  /\ wire' = [wire EXCEPT ![c] = Append(@, Head(send[c]))]
  /\ send' = [send EXCEPT ![c] = Tail(@)]
  /\ UNCHANGED <<epoch, hubVars, sub, hand, since, owed, dropped, link, opened, stopped, ctl,
                 want, lastSeq, troubles, updates, applied, skipped>>

(* The connection breaks, or the cancelled context ends the read pump. *)
Disconnect(c) ==
  /\ link[c] = "up" /\ MuFree
  /\ troubles < MaxTroubles
  /\ troubles' = troubles + 1
  /\ LinkLost({c}, IF stopped[c] = "yes" THEN "new" ELSE "retry")
  /\ UNCHANGED <<epoch, server, log, ring, rnext, todo, full, stopped, want, lastSeq, updates,
                 applied, skipped>>

-----------------------------------------------------------------------------
(* The daemon stops and starts again.                                        *)

(* Server.Close: the base context is cancelled.  Shutdown does not wait for hijacked
   connections, so their handlers may still be running.                       *)
ServerClose ==
  /\ server = "serving"
  /\ server' = "cancelled"
  /\ UNCHANGED <<epoch, log, ring, rnext, members, todo, full, connVars, clientVars>>

(* hub.Close, from Runner.Close: every c.send is closed; the pumps drain them. *)
HubClose ==
  /\ server = "cancelled" /\ MuFree
  /\ server' = "closed"
  /\ members' = {}
  /\ UNCHANGED <<epoch, log, ring, rnext, todo, full, connVars, clientVars>>

(* The process ends, at any point, and a new one starts with an empty hub. *)
Restart ==
  /\ epoch < MaxRestarts /\ troubles < MaxTroubles
  /\ troubles' = troubles + 1
  /\ epoch' = epoch + 1
  /\ server' = "serving"
  /\ log' = << >> /\ ring' = [i \in DOMAIN ring |-> 0] /\ rnext' = 0
  /\ todo' = [c \in Clients |-> << >>] /\ full' = [c \in Clients |-> "no"]
  /\ members' = {}
  /\ sub' = [c \in Clients |-> {}] /\ send' = [c \in Clients |-> << >>]
  /\ hand' = [c \in Clients |-> "read"] /\ since' = [c \in Clients |-> 0]
  /\ owed' = [c \in Clients |-> {}] /\ dropped' = [c \in Clients |-> {}]
  /\ ctl' = [c \in Clients |-> << >>] /\ wire' = [c \in Clients |-> << >>]
  /\ opened' = [c \in Clients |-> "no"]
  /\ link' = [c \in Clients |-> IF link[c] # "up" THEN link[c]
                                ELSE IF stopped[c] = "yes" THEN "new" ELSE "retry"]
  /\ UNCHANGED <<stopped, want, lastSeq, updates, applied, skipped>>

-----------------------------------------------------------------------------
(* client.ts.                                                                *)

(* start(), or the retry timer: connect() begins unless stopped. *)
BeginConnect(c) ==
  /\ link[c] \in {"new", "retry"} /\ stopped[c] = "no"
  /\ link' = [link EXCEPT ![c] = "discover"]
  /\ UNCHANGED <<epoch, hubVars, connVars, opened, stopped, ctl, wire, want, lastSeq, troubles, updates,
                 applied, skipped>>

(* No daemon is found, or it does not accept the connection. *)
ConnectFails(c) ==
  /\ link[c] = "discover"
  /\ link' = [link EXCEPT ![c] = IF stopped[c] = "yes" THEN "new" ELSE "retry"]
  /\ UNCHANGED <<epoch, hubVars, connVars, opened, stopped, ctl, wire, want, lastSeq, troubles, updates,
                 applied, skipped>>

Subscribe(c, channels) ==
  ctl' = [ctl EXCEPT ![c] = Append(@, [channels |-> channels, since |-> lastSeq[c]])]

OnOpen(c) ==
  /\ link[c] = "up" /\ opened[c] = "no"
  /\ opened' = [opened EXCEPT ![c] = "yes"]
  /\ Subscribe(c, want[c])
  /\ UNCHANGED <<epoch, hubVars, connVars, link, stopped, wire, want, lastSeq, troubles, updates,
                 applied, skipped>>

(* updateChannels: on an open socket the new filter is sent at once. *)
UpdateChannels(c, f) ==
  /\ f # want[c] /\ updates[c] < MaxUpdates
  /\ want' = [want EXCEPT ![c] = f]
  /\ updates' = [updates EXCEPT ![c] = @ + 1]
  /\ IF link[c] = "up" /\ opened[c] = "yes" THEN Subscribe(c, f) ELSE UNCHANGED ctl
  /\ UNCHANGED <<epoch, hubVars, connVars, link, opened, stopped, wire, lastSeq, troubles,
                 applied, skipped>>

(* Mutant of OnMessage: nothing is skipped. *)
OnMessageNoDedupe(c) ==
  LET e == Head(wire[c]) IN
  /\ wire[c] # << >> /\ opened[c] = "yes"
  /\ wire' = [wire EXCEPT ![c] = Tail(@)]
  /\ lastSeq' = [lastSeq EXCEPT ![c] = e]
  /\ applied' = [applied EXCEPT ![c] = @ \cup {<<epoch, e>>}]
  /\ UNCHANGED <<epoch, hubVars, connVars, link, opened, stopped, ctl, want, troubles, updates,
                 skipped>>

(* onmessage: anything not above lastSeq is taken for a duplicate. *)
OnMessage(c) ==
  LET e == Head(wire[c]) IN
  /\ wire[c] # << >> /\ opened[c] = "yes"
  /\ wire' = [wire EXCEPT ![c] = Tail(@)]
  /\ IF e <= lastSeq[c]
     THEN /\ skipped' = [skipped EXCEPT ![c] = @ \cup {<<epoch, e>>}]
          /\ UNCHANGED <<lastSeq, applied>>
     ELSE /\ lastSeq' = [lastSeq EXCEPT ![c] = e]
          /\ applied' = [applied EXCEPT ![c] = @ \cup {<<epoch, e>>}]
          /\ UNCHANGED skipped
  /\ UNCHANGED <<epoch, hubVars, connVars, link, opened, stopped, ctl, want, troubles, updates>>

(* stop(): clears the timer and closes the socket; a connect() that awaits discovery
   is left alone.                                                             *)
Stop(c) ==
  /\ c \in Stoppable /\ stopped[c] = "no" /\ MuFree
  /\ stopped' = [stopped EXCEPT ![c] = "yes"]
  /\ IF link[c] = "up"
     THEN LinkLost({c}, "new")
     ELSE /\ link' = [link EXCEPT ![c] = IF @ = "retry" THEN "new" ELSE @]
          /\ UNCHANGED <<members, sub, send, hand, since, owed, dropped, ctl, wire, opened>>
  /\ UNCHANGED <<epoch, server, log, ring, rnext, todo, full, want, lastSeq, troubles, updates, applied, skipped>>

-----------------------------------------------------------------------------
HubStep(c) == PushSend(c) \/ PushFull(c) \/ PushDrop(c) \/ ReplayTo(c) \/ ReplayToClosed(c)
ConnStep(c) == Connect(c) \/ ReadSubscribe(c) \/ WritePump(c)
PageStep(c) == BeginConnect(c) \/ OnOpen(c) \/ OnMessage(c)

Next ==
  \/ \E k \in Channels \cup {Everyone} : Consume(k)
  \/ \E c \in Clients :
       \/ HubStep(c) \/ ConnStep(c) \/ PageStep(c)
       \/ Disconnect(c) \/ ConnectFails(c) \/ Stop(c)
       \/ \E f \in Filters : UpdateChannels(c, f)
  \/ ServerClose \/ HubClose \/ Restart

Spec == Init /\ [][Next]_vars

-----------------------------------------------------------------------------
(* Properties.                                                               *)

(* Type invariant, with the limits of the ring and of each client's buffer. *)
TypeOK ==
  /\ epoch \in Nat /\ troubles \in Nat /\ server \in {"serving", "cancelled", "closed"}
  /\ log \in Seq(Channels \cup {Everyone})
  /\ ring \in [0 .. RingSize - 1 -> Nat] /\ rnext \in 0 .. RingSize - 1
  /\ members \subseteq Clients
  /\ \A c \in Clients :
       /\ todo[c] \in Seq(Nat) /\ full[c] \in {"no", "yes"}
       /\ sub[c] \in SUBSET Channels /\ want[c] \in Filters
       /\ send[c] \in Seq(Nat) /\ Len(send[c]) <= Buffer
       /\ hand[c] \in {"read", "replay"} /\ since[c] \in Nat
       /\ link[c] \in {"new", "discover", "up", "retry"}
       /\ opened[c] \in {"no", "yes"} /\ stopped[c] \in {"no", "yes"}
       /\ ctl[c] \in Seq([channels : SUBSET Channels, since : Nat])
       /\ wire[c] \in Seq(Nat)
       /\ lastSeq[c] \in Nat /\ updates[c] \in Nat

(* record keeps exactly the newest RingSize events, and rnext is the oldest slot once
   the ring is full: what a resuming client can still be sent.                *)
RingHoldsNewest ==
  /\ \A s \in 1 .. seq : (s + RingSize > seq) <=> \E i \in DOMAIN ring : ring[i] = s
  /\ seq >= RingSize => \A i \in DOMAIN ring : ring[rnext] <= ring[i]

(* Whatever was queued for a connection is still on its way, was handled by the page or
   was dropped as the oldest of a full buffer: pushBytes loses nothing else, and no
   buffer outgrows its channel.                                               *)
DeliveryAccounted ==
  /\ TypeOK
  /\ \A c \in Clients : \A s \in owed[c] :
       \/ s \in InSeq(todo[c]) \cup InSeq(send[c]) \cup InSeq(wire[c]) \cup dropped[c]
       \/ <<epoch, s>> \in applied[c] \cup skipped[c]

(* The page applies no event twice and none out of order: each event it applies is
   above all it applied before from the same daemon.                          *)
AppliedInOrder ==
  [][\A c \in Clients : \A e \in applied'[c] \ applied[c] :
       \A d \in applied[c] : d[1] = e[1] => d[2] < e[2]]_applied

(* What client.ts says of the events it skips: "already applied (replay overlap)". *)
SkipsOnlyApplied == \A c \in Clients : skipped[c] \subseteq applied[c]

(* Two more statements of the code that this model refutes; see the README.   *)

(* What stop() says: "a deliberate stop should not trigger a reconnect". *)
StopIsFinal == \A c \in Clients : stopped[c] = "yes" => link[c] # "up"

(* What hub.Close and its test say: once the clients are closed nothing is pushed to
   them ("must not panic (no clients remain)").                               *)
NoPushToClosed ==
  \A c \in Clients : hand[c] = "replay" /\ link[c] = "up" /\ c \notin members => Pending(c) = << >>
=============================================================================
