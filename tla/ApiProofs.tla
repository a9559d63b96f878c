------------------------------ MODULE ApiProofs ------------------------------
(* The API of the daemon: what a stream client sees of the feed, and who is   *)
(* served.  For any number of clients and channels, any ring and any buffer:  *)
(* what the ring holds, that every event queued for a connection is accounted *)
(* for, and that a page applies events in order.  For any number of callers   *)
(* and users: a request is served only to a holder entitled to it, failed     *)
(* logins are bounded in a window, and a hosted user's profile is changed by  *)
(* that user's own requests only.                                             *)
EXTENDS StreamHub, HostedChannels,
        FiniteSetTheorems, SequenceTheorems, WellFoundedInduction, TLAPS

-----------------------------------------------------------------------------
(* Sequences.                                                                *)

(* Induction over the naturals, with a set in the place of the predicate. *)
LEMMA SetInduction ==
  ASSUME NEW G, 0 \in G, \A n \in G \cap Nat : n + 1 \in G PROVE Nat \subseteq G
<1> DEFINE T == Nat \ G
<1> SUFFICES ASSUME T # {} PROVE FALSE
  OBVIOUS
<1>1. T \subseteq Nat
  OBVIOUS
<1> HIDE DEF T
<1>2. PICK x \in T : \A y \in T : ~ (<<y, x>> \in OpToRel(<, Nat))
  BY <1>1, WFMin, NatLessThanWellFounded
<1>3. \A y \in T : ~ (y < x)
  BY <1>1, <1>2 DEF OpToRel
<1> USE DEF T
<1>4. x \in Nat /\ x # 0
  OBVIOUS
<1>5. x - 1 \in Nat /\ x - 1 < x /\ (x - 1) + 1 = x
  BY <1>4
<1>6. x - 1 \in G
  BY <1>3, <1>5
<1> QED
  BY <1>5, <1>6

LEMMA InSeqAppend ==
  ASSUME NEW q \in Seq(Nat), NEW e \in Nat PROVE InSeq(Append(q, e)) = InSeq(q) \cup {e}
<1>1. DOMAIN Append(q, e) = 1 .. Len(q) + 1 /\ DOMAIN q = 1 .. Len(q)
  OBVIOUS
<1>2. \A i \in 1 .. Len(q) + 1 : Append(q, e)[i] = IF i = Len(q) + 1 THEN e ELSE q[i]
  OBVIOUS
<1> QED
  BY <1>1, <1>2 DEF InSeq

LEMMA InSeqHeadTail ==
  ASSUME NEW q \in Seq(Nat), q # << >>
  PROVE  /\ Head(q) \in Nat /\ Tail(q) \in Seq(Nat) /\ Len(Tail(q)) = Len(q) - 1
         /\ InSeq(q) = {Head(q)} \cup InSeq(Tail(q))
<1>1. /\ Head(q) \in Nat /\ Tail(q) \in Seq(Nat) /\ Len(Tail(q)) = Len(q) - 1 /\ Len(q) > 0
      /\ Head(q) = q[1]
      /\ \A i \in 1 .. Len(q) - 1 : Tail(q)[i] = q[i + 1]
  OBVIOUS
<1>2. DOMAIN q = 1 .. Len(q) /\ DOMAIN Tail(q) = 1 .. Len(q) - 1 /\ Len(q) \in Nat
  BY <1>1
<1>3. \A i \in 2 .. Len(q) : i - 1 \in DOMAIN Tail(q) /\ Tail(q)[i - 1] = q[i]
  BY <1>1, <1>2
<1>4. \A i \in DOMAIN Tail(q) : i + 1 \in DOMAIN q /\ Tail(q)[i] = q[i + 1]
  BY <1>1, <1>2
<1>5. ASSUME NEW e \in InSeq(q) PROVE e = Head(q) \/ e \in InSeq(Tail(q))
  <2>1. PICK i \in DOMAIN q : e = q[i]
    BY DEF InSeq
  <2>2. i = 1 \/ i \in 2 .. Len(q)
    BY <1>2
  <2> QED
    BY <1>1, <1>3, <2>1, <2>2 DEF InSeq
<1>6. ASSUME NEW e \in InSeq(Tail(q)) PROVE e \in InSeq(q)
  BY <1>4 DEF InSeq
<1>7. Head(q) \in InSeq(q)
  BY <1>1, <1>2 DEF InSeq
<1> QED
  BY <1>1, <1>5, <1>6, <1>7

(* Ordered collects S, whatever the number of events. *)
LEMMA OrderedExact ==
  ASSUME NEW n \in Nat, NEW S
  PROVE  Ordered(n, S) \in Seq(Nat) /\ InSeq(Ordered(n, S)) = S \cap 1 .. n
<1> DEFINE Loop(f, m) ==
      f = [s \in 0 .. m |-> IF s = 0 THEN << >>
                            ELSE IF s \in S THEN Append(f[s - 1], s) ELSE f[s - 1]]
<1>1. \E f : Loop(f, n)
  <2> DEFINE Has(m) == \E f : Loop(f, m)
             G == {m \in Nat : Has(m)}
  <2>1. 0 \in G
    <3>1. Loop([s \in 0 .. 0 |-> << >>], 0)
      OBVIOUS
    <3> QED
      BY <3>1
  <2>2. ASSUME NEW m \in G \cap Nat PROVE m + 1 \in G
    <3>1. PICK f : Loop(f, m)
      OBVIOUS
    <3> DEFINE last == IF m + 1 \in S THEN Append(f[m], m + 1) ELSE f[m]
               g == [s \in 0 .. m + 1 |-> IF s <= m THEN f[s] ELSE last]
    <3>2. ASSUME NEW s \in 0 .. m + 1
          PROVE  g[s] = IF s = 0 THEN << >> ELSE IF s \in S THEN Append(g[s - 1], s) ELSE g[s - 1]
      <4>1. CASE s = m + 1
        <5>1. g[s] = last /\ g[s - 1] = f[m] /\ s # 0
          BY <4>1
        <5> QED
          BY <4>1, <5>1
      <4>2. CASE s = 0
        BY <3>1, <4>2
      <4>3. CASE s # m + 1 /\ s # 0
        <5>1. s \in 0 .. m /\ s - 1 \in 0 .. m
          BY <4>3
        <5>2. g[s] = f[s] /\ g[s - 1] = f[s - 1]
          BY <5>1
        <5>3. f[s] = IF s \in S THEN Append(f[s - 1], s) ELSE f[s - 1]
          BY <3>1, <4>3, <5>1
        <5> QED
          BY <4>3, <5>2, <5>3
      <4> QED
        BY <4>1, <4>2, <4>3
    <3>3. g = [s \in 0 .. m + 1 |-> g[s]]
      OBVIOUS
    <3>4. Loop(g, m + 1)
      <4> HIDE DEF g
      <4> QED
        BY <3>2, <3>3
    <3>5. Has(m + 1)
      <4> HIDE DEF g, Loop
      <4> QED
        BY <3>4
    <3> HIDE DEF Has
    <3> QED
      BY <3>5
  <2> HIDE DEF G
  <2>3. n \in G
    BY <2>1, <2>2, SetInduction
  <2> QED
    BY <2>3 DEF G
<1>2. PICK f : Loop(f, n) /\ Ordered(n, S) = f[n]
  BY <1>1 DEF Ordered
<1>3. f[0] = << >> /\ \A m \in Nat : m + 1 <= n =>
        f[m + 1] = IF m + 1 \in S THEN Append(f[m], m + 1) ELSE f[m]
  <2>1. \A s \in 0 .. n : f[s] = IF s = 0 THEN << >>
                                ELSE IF s \in S THEN Append(f[s - 1], s) ELSE f[s - 1]
    BY <1>2
  <2>2. \A m \in Nat : m + 1 <= n => m + 1 \in 0 .. n /\ m + 1 # 0 /\ (m + 1) - 1 = m
    OBVIOUS
  <2>3. f[0] = << >>
    BY <2>1
  <2>4. ASSUME NEW m \in Nat, m + 1 <= n
        PROVE  f[m + 1] = IF m + 1 \in S THEN Append(f[m], m + 1) ELSE f[m]
    <3>1. f[m + 1] = IF m + 1 = 0 THEN << >>
                     ELSE IF m + 1 \in S THEN Append(f[(m + 1) - 1], m + 1) ELSE f[(m + 1) - 1]
      BY <2>1, <2>2, <2>4
    <3> QED
      BY <2>2, <2>4, <3>1
  <2> QED
    BY <2>3, <2>4
<1>4. f[n] \in Seq(Nat) /\ InSeq(f[n]) = S \cap 1 .. n
  <2> DEFINE G == {m \in Nat : m <= n => f[m] \in Seq(Nat) /\ InSeq(f[m]) = S \cap 1 .. m}
  <2>1. 0 \in G
    <3>1. f[0] \in Seq(Nat) /\ InSeq(f[0]) = S \cap 1 .. 0
      BY <1>3 DEF InSeq
    <3> QED
      BY <3>1
  <2>2. ASSUME NEW m \in Nat, m \in G, m + 1 <= n PROVE m + 1 \in G
    <3>1. f[m] \in Seq(Nat) /\ InSeq(f[m]) = S \cap 1 .. m
      BY <2>2
    <3>2. f[m + 1] = IF m + 1 \in S THEN Append(f[m], m + 1) ELSE f[m]
      BY <1>3, <2>2
    <3>3. 1 .. m + 1 = (1 .. m) \cup {m + 1} /\ m + 1 \in Nat
      OBVIOUS
    <3>4. f[m + 1] \in Seq(Nat) /\ InSeq(f[m + 1]) = S \cap 1 .. m + 1
      <4>1. CASE m + 1 \in S
        <5>1. InSeq(f[m + 1]) = InSeq(f[m]) \cup {m + 1} /\ f[m + 1] \in Seq(Nat)
          BY <3>1, <3>2, <3>3, <4>1, InSeqAppend
        <5> QED
          BY <3>1, <3>3, <4>1, <5>1
      <4>2. CASE m + 1 \notin S
        BY <3>1, <3>2, <3>3, <4>2
      <4> QED
        BY <4>1, <4>2
    <3> QED
      BY <3>4
  <2>3. ASSUME NEW m \in Nat, ~ (m + 1 <= n) PROVE m + 1 \in G
    BY <2>3
  <2> HIDE DEF G
  <2>4. n \in G
    BY <2>1, <2>2, <2>3, SetInduction
  <2> QED
    BY <2>4 DEF G
<1> QED
  BY <1>2, <1>4
-----------------------------------------------------------------------------
(* Types.                                                                    *)

HubType ==
  /\ epoch \in Nat /\ server \in {"serving", "cancelled", "closed"}
  /\ log \in Seq(Channels \cup {Everyone})
  /\ ring \in [0 .. RingSize - 1 -> Nat] /\ rnext \in 0 .. RingSize - 1
  /\ members \subseteq Clients
  /\ todo \in [Clients -> Seq(Nat)] /\ full \in [Clients -> {"no", "yes"}]
ConnType ==
  /\ sub \in [Clients -> SUBSET Channels]
  /\ send \in [Clients -> Seq(Nat)] /\ \A c \in Clients : Len(send[c]) <= Buffer
  /\ hand \in [Clients -> {"read", "replay"}] /\ since \in [Clients -> Nat]
  /\ owed \in [Clients -> SUBSET Nat] /\ dropped \in [Clients -> SUBSET Nat]
ClientType ==
  /\ link \in [Clients -> {"new", "discover", "up", "retry"}]
  /\ opened \in [Clients -> {"no", "yes"}] /\ stopped \in [Clients -> {"no", "yes"}]
  /\ ctl \in [Clients -> Seq([channels : SUBSET Channels, since : Nat])]
  /\ wire \in [Clients -> Seq(Nat)] /\ want \in [Clients -> Filters]
  /\ lastSeq \in [Clients -> Nat]
  /\ troubles \in Nat /\ updates \in [Clients -> Nat]
  /\ applied \in [Clients -> SUBSET (Nat \X Nat)] /\ skipped \in [Clients -> SUBSET (Nat \X Nat)]
Typed == HubType /\ ConnType /\ ClientType

LEMMA HeadTailType ==
  ASSUME NEW R, NEW q \in Seq(R), q # << >> PROVE Head(q) \in R /\ Tail(q) \in Seq(R)
OBVIOUS

LEMMA TypeFrame ==
  /\ HubType /\ UNCHANGED <<epoch, hubVars>> => HubType'
  /\ ConnType /\ UNCHANGED connVars => ConnType'
  /\ ClientType /\ UNCHANGED clientVars => ClientType'
BY DEF HubType, ConnType, ClientType, hubVars, connVars, clientVars

LEMMA SlotType == \A i \in 0 .. RingSize - 1 : NextSlot(i) = IF i = RingSize - 1 THEN 0 ELSE i + 1
<1> SUFFICES ASSUME NEW i \in 0 .. RingSize - 1
             PROVE  NextSlot(i) = IF i = RingSize - 1 THEN 0 ELSE i + 1
  OBVIOUS
<1>1. RingSize \in Nat \ {0} /\ i + 1 \in 1 .. RingSize
  BY StreamAssumption
<1>2. CASE i + 1 = RingSize
  BY <1>1, <1>2 DEF NextSlot
<1>3. CASE i + 1 < RingSize
  BY <1>1, <1>3 DEF NextSlot
<1> QED
  BY <1>1, <1>2, <1>3

(* What a lost connection leaves behind is well typed. *)
LEMMA LostType ==
  ASSUME Typed, NEW C \in SUBSET Clients, NEW next \in {"new", "retry"}, LinkLost(C, next),
         UNCHANGED <<epoch, server, log, ring, rnext, todo, full, want, lastSeq, updates, applied, skipped>>,
         stopped' \in [Clients -> {"no", "yes"}], troubles' \in Nat
  PROVE  Typed'
<1> USE DEF Typed
<1>1. HubType'
  BY DEF HubType, LinkLost
<1>2. ConnType'
  <2>1. \A c \in Clients : send'[c] = << >> \/ send'[c] = send[c]
    BY DEF LinkLost
  <2>2. \A c \in Clients : Len(send'[c]) <= Buffer
    BY <2>1, StreamAssumption DEF ConnType
  <2> QED
    BY <2>2 DEF ConnType, LinkLost
<1>3. ClientType'
  <2>1. /\ link' \in [Clients -> {"new", "discover", "up", "retry"}]
        /\ opened' \in [Clients -> {"no", "yes"}]
        /\ wire' \in [Clients -> Seq(Nat)]
    BY DEF ClientType, LinkLost
  <2> DEFINE Ctl == [channels : SUBSET Channels, since : Nat]
  <2>2. ctl \in [Clients -> Seq(Ctl)] => ctl' \in [Clients -> Seq(Ctl)]
    <3> HIDE DEF Ctl
    <3> QED
      BY DEF LinkLost
  <2> QED
    BY <2>1, <2>2 DEF ClientType
<1> QED
  BY <1>1, <1>2, <1>3

LEMMA TypeHubStep ==
  ASSUME Typed, NEW c \in Clients, HubStep(c),
         \A d \in Clients : full[d] = "yes" => todo[d] # << >>
  PROVE  Typed'
<1> USE DEF Typed
<1>1. CASE PushSend(c)
  <2>1. /\ Head(todo[c]) \in Nat /\ Tail(todo[c]) \in Seq(Nat)
        /\ Append(send[c], Head(todo[c])) \in Seq(Nat)
        /\ Len(Append(send[c], Head(todo[c]))) <= Buffer
    BY <1>1, InSeqHeadTail, StreamAssumption DEF PushSend, HubType, ConnType
  <2>2. HubType' /\ UNCHANGED clientVars
    BY <1>1, <2>1 DEF PushSend, HubType
  <2>3. ConnType'
    BY <1>1, <2>1 DEF PushSend, ConnType
  <2> QED
    BY <2>2, <2>3, TypeFrame
<1>2. CASE PushFull(c)
  BY <1>2, TypeFrame DEF PushFull, HubType
<1>3. CASE PushDrop(c)
  <2>1. todo[c] \in Seq(Nat) /\ todo[c] # << >> /\ send[c] \in Seq(Nat) /\ send[c] # << >>
    BY <1>3 DEF PushDrop, HubType, ConnType
  <2>2. /\ Head(todo[c]) \in Nat /\ Tail(todo[c]) \in Seq(Nat) /\ Head(send[c]) \in Nat
        /\ Append(Tail(send[c]), Head(todo[c])) \in Seq(Nat)
        /\ Len(Append(Tail(send[c]), Head(todo[c]))) = Len(send[c])
    BY <2>1, InSeqHeadTail
  <2>3. HubType' /\ UNCHANGED clientVars
    BY <1>3, <2>2 DEF PushDrop, HubType
  <2>4. ConnType'
    BY <1>3, <2>2 DEF PushDrop, ConnType
  <2> QED
    BY <2>3, <2>4, TypeFrame
<1>4. CASE ReplayTo(c)
  <2>1. Pending(c) \in Seq(Nat) /\ InSeq(Pending(c)) \subseteq Nat
    BY OrderedExact DEF Pending, HubType, seq
  <2>2. HubType' /\ ConnType' /\ UNCHANGED clientVars
    BY <1>4, <2>1 DEF ReplayTo, HubType, ConnType
  <2> QED
    BY <2>2, TypeFrame
<1>5. CASE ReplayToClosed(c)
  <2>1. CASE Pending(c) = << >>
    <3>1. /\ hand' = [hand EXCEPT ![c] = "read"] /\ since' = [since EXCEPT ![c] = 0]
          /\ UNCHANGED <<sub, send, owed, dropped>>
      BY <1>5, <2>1 DEF ReplayToClosed
    <3>2. UNCHANGED <<epoch, hubVars>> /\ UNCHANGED clientVars
      BY <1>5, <2>1 DEF ReplayToClosed, hubVars, clientVars
    <3>3. ConnType'
      BY <3>1 DEF ConnType
    <3> QED
      BY <3>2, <3>3, TypeFrame
  <2>2. CASE Pending(c) # << >>
    BY <1>5, <2>2, LostType DEF ReplayToClosed, ClientType
  <2> QED
    BY <2>1, <2>2
<1> QED
  BY <1>1, <1>2, <1>3, <1>4, <1>5 DEF HubStep

LEMMA TypeConsume ==
  ASSUME Typed, NEW k \in Channels \cup {Everyone}, Consume(k) PROVE Typed'
<1> USE DEF Typed
<1>1. seq \in Nat /\ seq + 1 \in Nat
  BY DEF HubType, seq
<1>2. log' \in Seq(Channels \cup {Everyone})
  BY DEF Consume, HubType
<1>3. rnext' \in 0 .. RingSize - 1
  <2>1. rnext \in 0 .. RingSize - 1 /\ rnext' = NextSlot(rnext) /\ RingSize \in Nat \ {0}
    BY StreamAssumption DEF Consume, HubType
  <2>2. NextSlot(rnext) = IF rnext = RingSize - 1 THEN 0 ELSE rnext + 1
    BY <2>1, SlotType
  <2> QED
    BY <2>1, <2>2
<1>4. ring' \in [0 .. RingSize - 1 -> Nat]
  BY <1>1 DEF Consume, HubType
<1>5. todo' \in [Clients -> Seq(Nat)] /\ owed' \in [Clients -> SUBSET Nat]
  <2>1. <<seq + 1>> \in Seq(Nat) /\ << >> \in Seq(Nat)
    BY <1>1
  <2> QED
    BY <1>1, <2>1 DEF Consume, ConnType
<1>6. HubType' /\ ConnType'
  BY <1>2, <1>3, <1>4, <1>5 DEF Consume, HubType, ConnType
<1> QED
  BY <1>6, TypeFrame DEF Consume

LEMMA TypeConnStep ==
  ASSUME Typed, NEW c \in Clients, ConnStep(c) \/ Disconnect(c) PROVE Typed'
<1> USE DEF Typed
<1>1. CASE Connect(c)
  <2>1. HubType' /\ ClientType'
    BY <1>1 DEF Connect, HubType, ClientType
  <2> QED
    BY <1>1, <2>1, TypeFrame DEF Connect
<1>2. CASE ReadSubscribe(c)
  <2>1. Head(ctl[c]) \in [channels : SUBSET Channels, since : Nat]
        /\ Tail(ctl[c]) \in Seq([channels : SUBSET Channels, since : Nat])
    <3>1. ctl[c] # << >> /\ ctl[c] \in Seq([channels : SUBSET Channels, since : Nat])
      BY <1>2 DEF ReadSubscribe, ClientType
    <3> QED
      BY <3>1, HeadTailType
  <2>2. ConnType'
    BY <1>2, <2>1 DEF ReadSubscribe, ConnType
  <2>3. ClientType'
    BY <1>2, <2>1 DEF ReadSubscribe, ClientType
  <2> QED
    BY <1>2, <2>2, <2>3, TypeFrame DEF ReadSubscribe
<1>3. CASE WritePump(c)
  <2>1. /\ Head(send[c]) \in Nat /\ Tail(send[c]) \in Seq(Nat)
        /\ Len(Tail(send[c])) = Len(send[c]) - 1 /\ Len(send[c]) \in Nat
        /\ Append(wire[c], Head(send[c])) \in Seq(Nat)
    BY <1>3, InSeqHeadTail DEF WritePump, ConnType, ClientType
  <2>2. Len(Tail(send[c])) <= Buffer
    BY <2>1, StreamAssumption DEF ConnType
  <2>3. ConnType'
    BY <1>3, <2>1, <2>2 DEF WritePump, ConnType
  <2>4. ClientType'
    BY <1>3, <2>1 DEF WritePump, ClientType
  <2> QED
    BY <1>3, <2>3, <2>4, TypeFrame DEF WritePump
<1>4. CASE Disconnect(c)
  <2>1. PICK next \in {"new", "retry"} : LinkLost({c}, next)
    BY <1>4 DEF Disconnect
  <2>2. troubles' \in Nat /\ stopped' \in [Clients -> {"no", "yes"}]
    BY <1>4 DEF Disconnect, ClientType
  <2>3. UNCHANGED <<epoch, server, log, ring, rnext, todo, full, want, lastSeq, updates, applied, skipped>>
    BY <1>4 DEF Disconnect
  <2> QED
    BY <2>1, <2>2, <2>3, LostType
<1> QED
  BY <1>1, <1>2, <1>3, <1>4 DEF ConnStep
LEMMA SubscribeType ==
  ASSUME ClientType, NEW c \in Clients, NEW f \in SUBSET Channels, Subscribe(c, f)
  PROVE  ctl' \in [Clients -> Seq([channels : SUBSET Channels, since : Nat])]
<1> DEFINE Ctl == [channels : SUBSET Channels, since : Nat]
<1>1. [channels |-> f, since |-> lastSeq[c]] \in Ctl /\ ctl \in [Clients -> Seq(Ctl)]
  BY DEF ClientType
<1> HIDE DEF Ctl
<1>2. ctl' \in [Clients -> Seq(Ctl)]
  BY <1>1 DEF Subscribe
<1> QED
  BY <1>2 DEF Ctl

LEMMA TypePageStep ==
  ASSUME Typed, NEW c \in Clients,
         PageStep(c) \/ ConnectFails(c) \/ Stop(c) \/ \E f \in Filters : UpdateChannels(c, f)
  PROVE  Typed'
<1> USE DEF Typed
<1>1. CASE BeginConnect(c) \/ ConnectFails(c)
  <2>1. ClientType'
    BY <1>1 DEF BeginConnect, ConnectFails, ClientType
  <2> QED
    BY <1>1, <2>1, TypeFrame DEF BeginConnect, ConnectFails
<1>2. CASE OnOpen(c)
  <2>1. want[c] \in SUBSET Channels
    BY StreamAssumption DEF ClientType
  <2>2. ctl' \in [Clients -> Seq([channels : SUBSET Channels, since : Nat])]
    BY <1>2, <2>1, SubscribeType DEF OnOpen
  <2>3. ClientType'
    BY <1>2, <2>2 DEF OnOpen, ClientType
  <2> QED
    BY <1>2, <2>3, TypeFrame DEF OnOpen
<1>3. CASE \E f \in Filters : UpdateChannels(c, f)
  <2>1. PICK f \in Filters : UpdateChannels(c, f)
    BY <1>3
  <2>2. ctl' \in [Clients -> Seq([channels : SUBSET Channels, since : Nat])]
    <3>1. Subscribe(c, f) \/ UNCHANGED ctl
      BY <2>1 DEF UpdateChannels
    <3>2. f \in SUBSET Channels
      BY StreamAssumption
    <3> QED
      BY <3>1, <3>2, SubscribeType DEF ClientType
  <2>3. want' \in [Clients -> Filters] /\ updates' \in [Clients -> Nat]
    BY <2>1 DEF UpdateChannels, ClientType
  <2>4. ClientType'
    BY <2>1, <2>2, <2>3 DEF UpdateChannels, ClientType
  <2> QED
    BY <2>1, <2>4, TypeFrame DEF UpdateChannels
<1>4. CASE OnMessage(c)
  <2>1. Head(wire[c]) \in Nat /\ Tail(wire[c]) \in Seq(Nat) /\ epoch \in Nat
    BY <1>4, InSeqHeadTail DEF OnMessage, ClientType, HubType
  <2>2. wire' \in [Clients -> Seq(Nat)]
    BY <1>4, <2>1 DEF OnMessage, ClientType
  <2>3. lastSeq' \in [Clients -> Nat]
    BY <1>4, <2>1 DEF OnMessage, ClientType
  <2>4. <<epoch, Head(wire[c])>> \in Nat \X Nat
    BY <2>1
  <2>5. applied' \in [Clients -> SUBSET (Nat \X Nat)] /\ skipped' \in [Clients -> SUBSET (Nat \X Nat)]
    <3> DEFINE P == Nat \X Nat
               e == <<epoch, Head(wire[c])>>
    <3>1. e \in P /\ applied \in [Clients -> SUBSET P] /\ skipped \in [Clients -> SUBSET P]
      BY <2>4 DEF ClientType
    <3>2. \/ applied' = applied /\ skipped' = [skipped EXCEPT ![c] = @ \cup {e}]
          \/ skipped' = skipped /\ applied' = [applied EXCEPT ![c] = @ \cup {e}]
      BY <1>4 DEF OnMessage
    <3> HIDE DEF P, e
    <3>3. applied' \in [Clients -> SUBSET P] /\ skipped' \in [Clients -> SUBSET P]
      BY <3>1, <3>2
    <3> QED
      BY <3>3 DEF P
  <2>6. ClientType'
    BY <1>4, <2>2, <2>3, <2>5 DEF OnMessage, ClientType
  <2> QED
    BY <1>4, <2>6, TypeFrame DEF OnMessage
<1>5. CASE Stop(c)
  <2>1. stopped' \in [Clients -> {"no", "yes"}] /\ troubles' \in Nat
    BY <1>5 DEF Stop, ClientType
  <2>2. CASE link[c] = "up"
    BY <1>5, <2>1, <2>2, LostType DEF Stop
  <2>3. CASE link[c] # "up"
    <3>1. /\ link' \in [Clients -> {"new", "discover", "up", "retry"}]
          /\ UNCHANGED <<members, sub, send, hand, since, owed, dropped, ctl, wire, opened>>
      BY <1>5, <2>3 DEF Stop, ClientType
    <3>2. UNCHANGED <<epoch, hubVars>> /\ UNCHANGED connVars
      BY <1>5, <3>1 DEF Stop, hubVars, connVars
    <3>3. ClientType'
      BY <1>5, <2>1, <3>1 DEF Stop, ClientType
    <3> QED
      BY <3>2, <3>3, TypeFrame
  <2> QED
    BY <2>2, <2>3
<1> QED
  BY <1>1, <1>2, <1>3, <1>4, <1>5 DEF PageStep

LEMMA TypeServerStep ==
  ASSUME Typed, ServerClose \/ HubClose \/ Restart PROVE Typed'
<1> USE DEF Typed
<1>1. CASE ServerClose \/ HubClose
  <2>1. HubType'
    BY <1>1 DEF ServerClose, HubClose, HubType
  <2> QED
    BY <1>1, <2>1, TypeFrame DEF ServerClose, HubClose
<1>2. CASE Restart
  <2>1. HubType'
    BY <1>2, StreamAssumption DEF Restart, HubType
  <2>2. ConnType'
    BY <1>2, StreamAssumption DEF Restart, ConnType
  <2>3. ClientType'
    BY <1>2 DEF Restart, ClientType
  <2> QED
    BY <2>1, <2>2, <2>3
<1> QED
  BY <1>1, <1>2

-----------------------------------------------------------------------------
(* Delivery.                                                                 *)

(* Only a push in progress is between the two selects of pushBytes, and every event
   queued for a connection is somewhere on its way, handled, or dropped.      *)
PushBusy == \A c \in Clients : full[c] = "yes" => todo[c] # << >>
Accounted(c) ==
  \A s \in owed[c] :
    \/ s \in InSeq(todo[c]) \cup InSeq(send[c]) \cup InSeq(wire[c]) \cup dropped[c]
    \/ <<epoch, s>> \in applied[c] \cup skipped[c]
DeliveryInv == Typed /\ PushBusy /\ \A c \in Clients : Accounted(c)

LEMMA InSeqEmpty == InSeq(<< >>) = {}
BY DEF InSeq

LEMMA PushBusyStep == ASSUME DeliveryInv, [Next]_vars PROVE PushBusy'
<1> USE DEF DeliveryInv, PushBusy
<1>1. CASE UNCHANGED <<todo, full>>
  BY <1>1
<1>2. ASSUME NEW k \in Channels \cup {Everyone}, Consume(k) PROVE PushBusy'
  <2>1. \A c \in Clients : full[c] # "yes" /\ full'[c] = full[c]
    BY <1>2 DEF Consume, MuFree
  <2> QED
    BY <2>1
<1>3. ASSUME NEW c \in Clients, HubStep(c) PROVE PushBusy'
  <2>1. CASE PushSend(c) \/ PushDrop(c)
    BY <2>1 DEF PushSend, PushDrop, Typed, HubType
  <2>2. CASE PushFull(c)
    BY <2>2 DEF PushFull, Typed, HubType
  <2>3. CASE ReplayTo(c)
    <3>1. \A d \in Clients : full[d] # "yes" /\ full'[d] = full[d]
      BY <2>3 DEF ReplayTo, MuFree
    <3> QED
      BY <3>1
  <2>4. CASE ReplayToClosed(c)
    BY <1>1, <2>4 DEF ReplayToClosed
  <2> QED
    BY <1>3, <2>1, <2>2, <2>3, <2>4 DEF HubStep
<1>4. CASE Restart
  BY <1>4 DEF Restart
<1>5. ASSUME NEW c \in Clients,
             \/ ConnStep(c) \/ PageStep(c) \/ Disconnect(c) \/ ConnectFails(c) \/ Stop(c)
             \/ \E f \in Filters : UpdateChannels(c, f)
      PROVE  UNCHANGED <<todo, full>>
  BY <1>5 DEF ConnStep, Connect, ReadSubscribe, WritePump, PageStep, BeginConnect, OnOpen, OnMessage,
              Disconnect, ConnectFails, Stop, UpdateChannels, hubVars
<1>6. CASE ServerClose \/ HubClose
  BY <1>1, <1>6 DEF ServerClose, HubClose
<1>7. CASE UNCHANGED vars
  BY <1>1, <1>7 DEF vars, hubVars
<1> QED
  BY <1>1, <1>2, <1>3, <1>4, <1>5, <1>6, <1>7 DEF Next

(* What a step that touches only c's events has to show. *)
LEMMA AccountedFrame ==
  ASSUME \A d \in Clients : Accounted(d), NEW c \in Clients, Typed,
         UNCHANGED epoch,
         \A d \in Clients \ {c} :
           /\ owed'[d] = owed[d] /\ todo'[d] = todo[d] /\ send'[d] = send[d] /\ wire'[d] = wire[d]
           /\ dropped'[d] = dropped[d] /\ applied'[d] = applied[d] /\ skipped'[d] = skipped[d],
         Accounted(c)'
  PROVE  \A d \in Clients : Accounted(d)'
<1> SUFFICES ASSUME NEW d \in Clients \ {c} PROVE Accounted(d)'
  OBVIOUS
<1> QED
  BY DEF Accounted

LEMMA AccountedSame ==
  ASSUME \A d \in Clients : Accounted(d),
         UNCHANGED <<epoch, owed, todo, send, wire, dropped, applied, skipped>>
  PROVE  \A d \in Clients : Accounted(d)'
BY DEF Accounted

LEMMA AccountedLost ==
  ASSUME \A d \in Clients : Accounted(d), NEW c \in Clients, Typed,
         NEW next, LinkLost({c}, next), UNCHANGED <<epoch, todo, applied, skipped>>
  PROVE  \A d \in Clients : Accounted(d)'
<1>1. owed'[c] = {}
  BY DEF LinkLost
<1>2. Accounted(c)'
  BY <1>1 DEF Accounted
<1>3. \A d \in Clients \ {c} :
        /\ owed'[d] = owed[d] /\ send'[d] = send[d] /\ wire'[d] = wire[d]
        /\ dropped'[d] = dropped[d]
  BY DEF LinkLost
<1> QED
  BY <1>2, <1>3, AccountedFrame

LEMMA AccountedHubStep ==
  ASSUME DeliveryInv, NEW c \in Clients, HubStep(c) PROVE \A d \in Clients : Accounted(d)'
<1> USE DEF DeliveryInv
<1>0. todo[c] \in Seq(Nat) /\ send[c] \in Seq(Nat) /\ wire[c] \in Seq(Nat)
  BY DEF Typed, HubType, ConnType, ClientType
<1>1. CASE PushSend(c)
  <2>1. InSeq(todo[c]) = {Head(todo[c])} \cup InSeq(Tail(todo[c])) /\ Head(todo[c]) \in Nat
    BY <1>0, <1>1, InSeqHeadTail DEF PushSend
  <2>2. InSeq(Append(send[c], Head(todo[c]))) = InSeq(send[c]) \cup {Head(todo[c])}
    BY <1>0, <2>1, InSeqAppend
  <2>3. todo'[c] = Tail(todo[c]) /\ send'[c] = Append(send[c], Head(todo[c]))
    BY <1>1 DEF PushSend, Typed, HubType, ConnType
  <2>4. UNCHANGED <<epoch, owed, wire, dropped, applied, skipped>>
    BY <1>1 DEF PushSend, clientVars
  <2>5. Accounted(c)'
    BY <2>1, <2>2, <2>3, <2>4 DEF Accounted
  <2>6. \A d \in Clients \ {c} : todo'[d] = todo[d] /\ send'[d] = send[d]
    BY <1>1 DEF PushSend, Typed, HubType, ConnType
  <2> QED
    BY <2>4, <2>5, <2>6, AccountedFrame
<1>2. CASE PushFull(c)
  BY <1>2, AccountedSame DEF PushFull, connVars, clientVars
<1>3. CASE PushDrop(c)
  <2>1. /\ InSeq(todo[c]) = {Head(todo[c])} \cup InSeq(Tail(todo[c])) /\ Head(todo[c]) \in Nat
        /\ InSeq(send[c]) = {Head(send[c])} \cup InSeq(Tail(send[c])) /\ Tail(send[c]) \in Seq(Nat)
    BY <1>0, <1>3, InSeqHeadTail DEF PushDrop, PushBusy
  <2>2. InSeq(Append(Tail(send[c]), Head(todo[c]))) = InSeq(Tail(send[c])) \cup {Head(todo[c])}
    BY <2>1, InSeqAppend
  <2>3. /\ todo'[c] = Tail(todo[c]) /\ send'[c] = Append(Tail(send[c]), Head(todo[c]))
        /\ dropped'[c] = dropped[c] \cup {Head(send[c])}
    BY <1>3 DEF PushDrop, Typed, HubType, ConnType
  <2>4. UNCHANGED <<epoch, owed, wire, applied, skipped>>
    BY <1>3 DEF PushDrop, clientVars
  <2>5. Accounted(c)'
    BY <2>1, <2>2, <2>3, <2>4 DEF Accounted
  <2>6. \A d \in Clients \ {c} : todo'[d] = todo[d] /\ send'[d] = send[d] /\ dropped'[d] = dropped[d]
    BY <1>3 DEF PushDrop, Typed, HubType, ConnType
  <2> QED
    BY <2>4, <2>5, <2>6, AccountedFrame
<1>4. CASE ReplayTo(c)
  <2>1. todo[c] = << >>
    BY <1>4 DEF ReplayTo, MuFree
  <2>2. todo'[c] = Pending(c) /\ owed'[c] = owed[c] \cup InSeq(Pending(c))
    BY <1>4 DEF ReplayTo, Typed, HubType, ConnType
  <2>3. UNCHANGED <<epoch, send, wire, dropped, applied, skipped>>
    BY <1>4 DEF ReplayTo, clientVars
  <2>4. Accounted(c)'
    BY <2>1, <2>2, <2>3, InSeqEmpty DEF Accounted
  <2>5. \A d \in Clients \ {c} : todo'[d] = todo[d] /\ owed'[d] = owed[d]
    BY <1>4 DEF ReplayTo, Typed, HubType, ConnType
  <2> QED
    BY <2>3, <2>4, <2>5, AccountedFrame
<1>5. CASE ReplayToClosed(c)
  <2>1. UNCHANGED <<epoch, todo, applied, skipped>>
    BY <1>5 DEF ReplayToClosed
  <2>2. LinkLost({c}, "retry") \/ UNCHANGED <<send, owed, dropped, wire>>
    BY <1>5 DEF ReplayToClosed
  <2> QED
    BY <2>1, <2>2, AccountedSame, AccountedLost
<1> QED
  BY <1>1, <1>2, <1>3, <1>4, <1>5 DEF HubStep

LEMMA AccountedStep ==
  ASSUME DeliveryInv, [Next]_vars PROVE \A d \in Clients : Accounted(d)'
<1> USE DEF DeliveryInv
<1>1. ASSUME NEW k \in Channels \cup {Everyone}, Consume(k) PROVE \A d \in Clients : Accounted(d)'
  <2>1. \A d \in Clients : todo[d] = << >>
    BY <1>1 DEF Consume, MuFree
  <2>2. ASSUME NEW d \in Clients
        PROVE  \/ todo'[d] = <<seq + 1>> /\ owed'[d] = owed[d] \cup {seq + 1}
               \/ todo'[d] = << >> /\ owed'[d] = owed[d]
    <3>1. CASE d \in members /\ Matches(sub[d], k)
      BY <1>1, <3>1 DEF Consume
    <3>2. CASE ~ (d \in members /\ Matches(sub[d], k))
      BY <1>1, <3>2 DEF Consume
    <3> QED
      BY <3>1, <3>2
  <2>3. InSeq(<<seq + 1>>) = {seq + 1}
    BY DEF InSeq
  <2>4. UNCHANGED <<epoch, send, wire, dropped, applied, skipped>>
    BY <1>1 DEF Consume, clientVars
  <2> QED
    BY <2>1, <2>2, <2>3, <2>4, InSeqEmpty DEF Accounted
<1>2. ASSUME NEW c \in Clients, WritePump(c) PROVE \A d \in Clients : Accounted(d)'
  <2>1. send[c] \in Seq(Nat) /\ wire[c] \in Seq(Nat) /\ send[c] # << >>
    BY <1>2 DEF WritePump, Typed, ConnType, ClientType
  <2>2. InSeq(send[c]) = {Head(send[c])} \cup InSeq(Tail(send[c])) /\ Head(send[c]) \in Nat
    BY <2>1, InSeqHeadTail
  <2>3. InSeq(Append(wire[c], Head(send[c]))) = InSeq(wire[c]) \cup {Head(send[c])}
    BY <2>1, <2>2, InSeqAppend
  <2>4. wire'[c] = Append(wire[c], Head(send[c])) /\ send'[c] = Tail(send[c])
    BY <1>2 DEF WritePump, Typed, ConnType, ClientType
  <2>5. UNCHANGED <<epoch, owed, todo, dropped, applied, skipped>>
    BY <1>2 DEF WritePump, hubVars
  <2>6. Accounted(c)'
    BY <2>2, <2>3, <2>4, <2>5 DEF Accounted
  <2>7. \A d \in Clients \ {c} : send'[d] = send[d] /\ wire'[d] = wire[d]
    BY <1>2 DEF WritePump, Typed, ConnType, ClientType
  <2> QED
    BY <2>5, <2>6, <2>7, AccountedFrame
<1>3. ASSUME NEW c \in Clients, OnMessage(c) PROVE \A d \in Clients : Accounted(d)'
  <2> DEFINE e == Head(wire[c])
  <2>1. InSeq(wire[c]) = {e} \cup InSeq(Tail(wire[c]))
    BY <1>3, InSeqHeadTail DEF OnMessage, Typed, ClientType
  <2>2. wire'[c] = Tail(wire[c]) /\ applied'[c] \cup skipped'[c] = applied[c] \cup skipped[c] \cup {<<epoch, e>>}
    <3>1. wire'[c] = Tail(wire[c])
      BY <1>3 DEF OnMessage, Typed, ClientType
    <3>2. \/ applied' = applied /\ skipped' = [skipped EXCEPT ![c] = @ \cup {<<epoch, e>>}]
          \/ skipped' = skipped /\ applied' = [applied EXCEPT ![c] = @ \cup {<<epoch, e>>}]
      BY <1>3 DEF OnMessage
    <3>3. DOMAIN applied = Clients /\ DOMAIN skipped = Clients
      BY DEF Typed, ClientType
    <3> HIDE DEF e
    <3> QED
      BY <3>1, <3>2, <3>3
  <2>3. UNCHANGED <<epoch, owed, todo, send, dropped>>
    BY <1>3 DEF OnMessage, hubVars, connVars
  <2>4. Accounted(c)'
    <3> HIDE DEF e
    <3> QED
      BY <2>1, <2>2, <2>3 DEF Accounted
  <2>5. \A d \in Clients \ {c} : wire'[d] = wire[d] /\ applied'[d] = applied[d] /\ skipped'[d] = skipped[d]
    BY <1>3 DEF OnMessage, Typed, ClientType
  <2> QED
    BY <2>3, <2>4, <2>5, AccountedFrame
<1>4. ASSUME NEW c \in Clients, Disconnect(c) \/ Stop(c) PROVE \A d \in Clients : Accounted(d)'
  <2>1. UNCHANGED <<epoch, todo, applied, skipped>>
    BY <1>4 DEF Disconnect, Stop
  <2>2. (\E next : LinkLost({c}, next)) \/ UNCHANGED <<send, owed, dropped, wire>>
    BY <1>4 DEF Disconnect, Stop
  <2> QED
    BY <2>1, <2>2, AccountedSame, AccountedLost
<1>5. CASE Restart
  BY <1>5 DEF Restart, Accounted
<1>6. ASSUME NEW c \in Clients,
             \/ Connect(c) \/ ReadSubscribe(c) \/ BeginConnect(c) \/ OnOpen(c) \/ ConnectFails(c)
             \/ \E f \in Filters : UpdateChannels(c, f)
      PROVE  UNCHANGED <<epoch, owed, todo, send, wire, dropped, applied, skipped>>
  BY <1>6 DEF Connect, ReadSubscribe, BeginConnect, OnOpen, ConnectFails, UpdateChannels, hubVars, connVars
<1>7. CASE ServerClose \/ HubClose \/ UNCHANGED vars
  BY <1>7, AccountedSame DEF ServerClose, HubClose, vars, hubVars, connVars, clientVars
<1> QED
  BY <1>1, <1>2, <1>3, <1>4, <1>5, <1>6, <1>7, AccountedHubStep, AccountedSame DEF Next, ConnStep, PageStep

LEMMA TypedInit == Init => Typed
<1> SUFFICES ASSUME Init PROVE Typed
  OBVIOUS
<1>1. HubType
  BY StreamAssumption DEF Init, HubType
<1>2. ConnType
  BY StreamAssumption DEF Init, ConnType
<1>3. ClientType
  BY DEF Init, ClientType
<1> QED
  BY <1>1, <1>2, <1>3 DEF Typed

LEMMA TypedStep == ASSUME Typed, PushBusy, [Next]_vars PROVE Typed'
<1>1. CASE UNCHANGED vars
  BY <1>1, TypeFrame DEF Typed, vars
<1> QED
  BY <1>1, TypeHubStep, TypeConsume, TypeConnStep, TypePageStep, TypeServerStep DEF Next, PushBusy

LEMMA DeliveryInvariant == Spec => []DeliveryInv
<1>1. Init => DeliveryInv
  BY TypedInit DEF Init, DeliveryInv, PushBusy, Accounted
<1>2. DeliveryInv /\ [Next]_vars => DeliveryInv'
  BY TypedStep, PushBusyStep, AccountedStep DEF DeliveryInv
<1> QED
  BY <1>1, <1>2, PTL DEF Spec

(* Whatever the hub queued for a connection, live or as a replay, is on its way, was
   handled by the page or was dropped by pushBytes as the oldest of a full buffer: for
   any number of clients, any buffer and any ring.                            *)
THEOREM NothingElseLost == Spec => []DeliveryAccounted
<1>1. DeliveryInv => DeliveryAccounted
  <2>1. Typed => TypeOK
    BY DEF Typed, HubType, ConnType, ClientType, TypeOK
  <2> QED
    BY <2>1 DEF DeliveryInv, DeliveryAccounted, Accounted
<1> QED
  BY <1>1, DeliveryInvariant, PTL

-----------------------------------------------------------------------------
(* The ring.                                                                 *)

(* Which event each slot holds: the slots before rnext belong to the current lap, the
   others to the lap before it, or are still empty.                           *)
Lap ==
  IF seq < RingSize
  THEN rnext = seq /\ \A i \in 0 .. RingSize - 1 : ring[i] = IF i < seq THEN i + 1 ELSE 0
  ELSE \A i \in 0 .. RingSize - 1 :
         ring[i] = IF i < rnext THEN seq - rnext + i + 1 ELSE seq - rnext + i + 1 - RingSize

LEMMA LapStep == ASSUME Typed, Lap, [Next]_vars PROVE Lap'
<1>0. /\ RingSize \in Nat \ {0} /\ seq \in Nat /\ rnext \in 0 .. RingSize - 1
      /\ ring \in [0 .. RingSize - 1 -> Nat]
  BY StreamAssumption DEF Typed, HubType, seq
<1>1. CASE UNCHANGED <<log, ring, rnext>>
  BY <1>1 DEF Lap, seq
<1>2. ASSUME NEW k \in Channels \cup {Everyone}, Consume(k) PROVE Lap'
  <2>1. /\ seq' = seq + 1 /\ ring' = [ring EXCEPT ![rnext] = seq + 1]
        /\ rnext' = IF rnext = RingSize - 1 THEN 0 ELSE rnext + 1
    BY <1>0, <1>2, SlotType DEF Consume, seq, Typed, HubType
  <2>2. \A i \in 0 .. RingSize - 1 : ring'[i] = IF i = rnext THEN seq + 1 ELSE ring[i]
    BY <1>0, <2>1
  <2>3. CASE seq + 1 < RingSize
    BY <1>0, <2>1, <2>2, <2>3 DEF Lap
  <2>4. CASE seq + 1 = RingSize
    BY <1>0, <2>1, <2>2, <2>4 DEF Lap
  <2>5. CASE seq >= RingSize
    <3>1. \A i \in 0 .. RingSize - 1 :
            ring[i] = IF i < rnext THEN seq - rnext + i + 1 ELSE seq - rnext + i + 1 - RingSize
      BY <1>0, <2>5 DEF Lap
    <3>2. \A i \in 0 .. RingSize - 1 :
            ring'[i] = IF i < rnext' THEN seq' - rnext' + i + 1 ELSE seq' - rnext' + i + 1 - RingSize
      <4>1. CASE rnext = RingSize - 1
        BY <1>0, <2>1, <2>2, <3>1, <4>1
      <4>2. CASE rnext # RingSize - 1
        BY <1>0, <2>1, <2>2, <3>1, <4>2
      <4> QED
        BY <4>1, <4>2
    <3>3. ~ (seq' < RingSize)
      BY <1>0, <2>1, <2>5
    <3> QED
      BY <3>2, <3>3 DEF Lap
  <2> QED
    BY <1>0, <2>3, <2>4, <2>5
<1>3. CASE Restart
  <2>1. seq' = 0 /\ rnext' = 0 /\ \A i \in 0 .. RingSize - 1 : ring'[i] = 0
    BY <1>0, <1>3 DEF Restart, seq
  <2> QED
    BY <1>0, <2>1 DEF Lap
<1>4. ASSUME NEW c \in Clients,
             \/ HubStep(c) \/ ConnStep(c) \/ PageStep(c) \/ Disconnect(c) \/ ConnectFails(c) \/ Stop(c)
             \/ \E f \in Filters : UpdateChannels(c, f)
      PROVE  UNCHANGED <<log, ring, rnext>>
  BY <1>4 DEF HubStep, PushSend, PushFull, PushDrop, ReplayTo, ReplayToClosed, ConnStep, Connect,
              ReadSubscribe, WritePump, PageStep, BeginConnect, OnOpen, OnMessage, Disconnect,
              ConnectFails, Stop, UpdateChannels, hubVars
<1>5. CASE ServerClose \/ HubClose \/ UNCHANGED vars
  BY <1>1, <1>5 DEF ServerClose, HubClose, vars, hubVars
<1> QED
  BY <1>1, <1>2, <1>3, <1>4, <1>5 DEF Next

LEMMA LapIsNewest == ASSUME Typed, Lap PROVE RingHoldsNewest
<1>0. /\ RingSize \in Nat \ {0} /\ seq \in Nat /\ rnext \in 0 .. RingSize - 1
      /\ ring \in [0 .. RingSize - 1 -> Nat] /\ DOMAIN ring = 0 .. RingSize - 1
  BY StreamAssumption DEF Typed, HubType, seq
<1>1. ASSUME NEW s \in 1 .. seq, s + RingSize > seq PROVE \E i \in DOMAIN ring : ring[i] = s
  <2>1. CASE seq < RingSize
    <3>1. s - 1 \in DOMAIN ring /\ ring[s - 1] = s
      BY <1>0, <2>1 DEF Lap
    <3> QED
      BY <3>1
  <2>2. CASE seq >= RingSize /\ s > seq - rnext
    <3> DEFINE i == s + rnext - seq - 1
    <3>1. i \in DOMAIN ring /\ ring[i] = s
      BY <1>0, <2>2 DEF Lap
    <3> QED
      BY <3>1
  <2>3. CASE seq >= RingSize /\ ~ (s > seq - rnext)
    <3> DEFINE i == s + rnext + RingSize - seq - 1
    <3>1. i \in DOMAIN ring /\ ring[i] = s
      BY <1>0, <1>1, <2>3 DEF Lap
    <3> QED
      BY <3>1
  <2> QED
    BY <1>0, <2>1, <2>2, <2>3
<1>2. ASSUME NEW s \in 1 .. seq, NEW i \in DOMAIN ring, ring[i] = s PROVE s + RingSize > seq
  BY <1>0, <1>2 DEF Lap
<1>3. ASSUME seq >= RingSize, NEW i \in DOMAIN ring PROVE ring[rnext] <= ring[i]
  BY <1>0, <1>3 DEF Lap
<1> QED
  BY <1>1, <1>2, <1>3 DEF RingHoldsNewest

(* record's ring holds exactly the newest events, whatever its size and however often
   it has wrapped, and rnext is where replayTo must start.                    *)
THEOREM RingIsNewest == Spec => []RingHoldsNewest
<1>1. Init => Lap
  BY StreamAssumption DEF Init, Lap, seq
<1>2. DeliveryInv /\ Lap /\ [Next]_vars => Lap'
  BY LapStep DEF DeliveryInv
<1>3. DeliveryInv /\ Lap => RingHoldsNewest
  BY LapIsNewest DEF DeliveryInv
<1> QED
  BY <1>1, <1>2, <1>3, DeliveryInvariant, PTL DEF Spec

-----------------------------------------------------------------------------
(* The page.                                                                 *)

(* Nothing was applied from a daemon still to come, and nothing from the present one
   above lastSeq.                                                             *)
UpToLast ==
  \A c \in Clients : \A d \in applied[c] : d[1] <= epoch /\ (d[1] = epoch => d[2] <= lastSeq[c])

LEMMA AppliedSteps ==
  ASSUME [Next]_vars
  PROVE  \/ UNCHANGED <<epoch, lastSeq, applied>>
         \/ epoch' = epoch + 1 /\ UNCHANGED <<lastSeq, applied>>
         \/ \E c \in Clients : OnMessage(c)
<1>1. ASSUME NEW k \in Channels \cup {Everyone}, Consume(k) PROVE UNCHANGED <<epoch, lastSeq, applied>>
  BY <1>1 DEF Consume, clientVars
<1>2. ASSUME NEW c \in Clients, HubStep(c) PROVE UNCHANGED <<epoch, lastSeq, applied>>
  BY <1>2 DEF HubStep, PushSend, PushFull, PushDrop, ReplayTo, ReplayToClosed, clientVars
<1>3. ASSUME NEW c \in Clients, \/ ConnStep(c) \/ BeginConnect(c) \/ OnOpen(c)
                                \/ Disconnect(c) \/ ConnectFails(c) \/ Stop(c)
                                \/ \E f \in Filters : UpdateChannels(c, f)
      PROVE  UNCHANGED <<epoch, lastSeq, applied>>
  BY <1>3 DEF ConnStep, Connect, ReadSubscribe, WritePump, BeginConnect, OnOpen, Disconnect, ConnectFails,
              Stop, UpdateChannels
<1>4. CASE ServerClose \/ HubClose \/ UNCHANGED vars
  BY <1>4 DEF ServerClose, HubClose, vars, clientVars
<1>5. CASE Restart
  BY <1>5 DEF Restart
<1> QED
  BY <1>1, <1>2, <1>3, <1>4, <1>5 DEF Next, PageStep

LEMMA AppliesAbove ==
  ASSUME Typed, NEW c \in Clients, OnMessage(c)
  PROVE  /\ UNCHANGED epoch
         /\ \A d \in Clients \ {c} : applied'[d] = applied[d] /\ lastSeq'[d] = lastSeq[d]
         /\ \/ applied'[c] = applied[c] /\ lastSeq'[c] = lastSeq[c]
            \/ /\ lastSeq'[c] \in Nat /\ lastSeq'[c] > lastSeq[c]
               /\ applied'[c] = applied[c] \cup {<<epoch, lastSeq'[c]>>}
<1>1. Head(wire[c]) \in Nat
  BY InSeqHeadTail DEF OnMessage, Typed, ClientType
<1>2. UNCHANGED epoch
  BY DEF OnMessage
<1>3. CASE Head(wire[c]) <= lastSeq[c]
  BY <1>2, <1>3 DEF OnMessage
<1>4. CASE ~ (Head(wire[c]) <= lastSeq[c])
  <2>1. /\ lastSeq' = [lastSeq EXCEPT ![c] = Head(wire[c])]
        /\ applied' = [applied EXCEPT ![c] = @ \cup {<<epoch, Head(wire[c])>>}]
    BY <1>4 DEF OnMessage
  <2>2. lastSeq'[c] = Head(wire[c]) /\ applied'[c] = applied[c] \cup {<<epoch, Head(wire[c])>>}
    BY <2>1 DEF Typed, ClientType
  <2>3. \A d \in Clients \ {c} : applied'[d] = applied[d] /\ lastSeq'[d] = lastSeq[d]
    BY <2>1 DEF Typed, ClientType
  <2>4. Head(wire[c]) > lastSeq[c]
    BY <1>1, <1>4 DEF Typed, ClientType
  <2> QED
    BY <1>1, <1>2, <2>2, <2>3, <2>4
<1> QED
  BY <1>3, <1>4

LEMMA UpToLastStep == ASSUME Typed, UpToLast, [Next]_vars PROVE UpToLast'
<1>0. /\ epoch \in Nat
      /\ \A c \in Clients : lastSeq[c] \in Nat /\ \A d \in applied[c] : d[1] \in Nat /\ d[2] \in Nat
  BY DEF Typed, HubType, ClientType
<1>1. CASE UNCHANGED <<epoch, lastSeq, applied>>
  BY <1>1 DEF UpToLast
<1>2. CASE epoch' = epoch + 1 /\ UNCHANGED <<lastSeq, applied>>
  BY <1>0, <1>2 DEF UpToLast
<1>3. ASSUME NEW c \in Clients, OnMessage(c) PROVE UpToLast'
  BY <1>0, <1>3, AppliesAbove DEF UpToLast
<1> QED
  BY <1>1, <1>2, <1>3, AppliedSteps

(* A page applies no event of a daemon twice and none out of order, across reconnects,
   replays, changes of the filter and restarts of the daemon.                 *)
THEOREM PageAppliesInOrder == Spec => AppliedInOrder
<1>1. Init => UpToLast
  BY DEF Init, UpToLast
<1>2. DeliveryInv /\ UpToLast /\ [Next]_vars => UpToLast'
  BY UpToLastStep DEF DeliveryInv
<1> DEFINE A == \A c \in Clients : \A e \in applied'[c] \ applied[c] :
                  \A d \in applied[c] : d[1] = e[1] => d[2] < e[2]
<1>3. DeliveryInv /\ UpToLast /\ [Next]_vars => [A]_applied
  <2> SUFFICES ASSUME DeliveryInv, UpToLast, [Next]_vars, applied' # applied,
                      NEW c \in Clients, NEW e \in applied'[c] \ applied[c],
                      NEW d \in applied[c], d[1] = e[1]
               PROVE  d[2] < e[2]
    OBVIOUS
  <2>1. PICK b \in Clients : OnMessage(b)
    BY AppliedSteps
  <2>2. Typed
    BY DEF DeliveryInv
  <2>3. c = b /\ lastSeq'[c] > lastSeq[c] /\ lastSeq'[c] \in Nat /\ e = <<epoch, lastSeq'[c]>>
    BY <2>1, <2>2, AppliesAbove
  <2>4. d[2] \in Nat /\ lastSeq[c] \in Nat /\ d[2] <= lastSeq[c]
    BY <2>2, <2>3 DEF UpToLast, Typed, ClientType
  <2> QED
    BY <2>3, <2>4
<1> QED
  BY <1>1, <1>2, <1>3, DeliveryInvariant, PTL DEF Spec, AppliedInOrder

-----------------------------------------------------------------------------
(* Access: the inductive invariant.                                           *)

AcSecrets == ApiTokens \cup Sessions
TokenRows == [secret : ApiTokens \cup {"blank"}, scopes : SUBSET Scopes]
Blanks == Seq({BlankRow})
AcCalls ==
  [pc : {"idle", "dump"}] \cup [pc : {"put"}, data : Blanks]
  \cup [pc : {"login", "compare"}, user : AcUsers, good : BOOLEAN]
  \cup [pc : {"verify", "resolve", "serve"}, token : ApiTokens \cup {Root}, session : Sessions, need : Scopes,
        user : AcUsers \cup {NoSession}, dead : SUBSET AcSecrets]
AcTyped ==
  /\ acHosted \in BOOLEAN /\ acUsers \subseteq AcUsers
  /\ acRows \in Seq(TokenRows) /\ acStored \in Blanks
  /\ DOMAIN acSession \subseteq Sessions
  /\ \A s \in DOMAIN acSession : acSession[s].user \in acUsers /\ acSession[s].exp \in Int
  /\ acLimiter \in [count : Nat, start : Int] /\ acNow \in 0 .. MaxNow
  /\ DOMAIN acMinted \subseteq ApiTokens
  /\ acGone \subseteq AcSecrets /\ acCall \in [AcClients -> AcCalls]

(* A row with a secret is the one row of a token that was minted with its scopes and not
   revoked since; what was revoked or logged out never comes back.            *)
AcKnown ==
  /\ \A i \in 1 .. Len(acRows) : acRows[i].secret \in ApiTokens =>
       /\ acRows[i].secret \in DOMAIN acMinted /\ acRows[i].scopes = acMinted[acRows[i].secret]
       /\ acRows[i].secret \notin acGone
       /\ \A j \in 1 .. Len(acRows) : acRows[j].secret = acRows[i].secret => j = i
  /\ \A s \in acGone : s \in DOMAIN acMinted \/ (s \in Sessions /\ s \notin DOMAIN acSession)

(* What was revoked, logged out or expired remains so while a request runs, and what the
   request has found out so far remains true.                                 *)
AcDead == acGone \cup {x \in DOMAIN acSession : acNow > acSession[x].exp}
AcHeld(r) ==
  /\ r.pc \in {"verify", "resolve", "serve"} => r.dead \subseteq AcDead
  /\ r.pc \in {"resolve", "serve"} /\ r.token # Root =>
       /\ r.token \in DOMAIN acMinted /\ HasScope(acMinted[r.token], r.need)
       /\ r.token \notin r.dead
  /\ r.pc = "serve" /\ acHosted => r.user \in acUsers /\ r.session \notin r.dead
AcAsked == \A c \in AcClients : AcHeld(acCall[c])

(* Within the window what was recorded and what may still be recorded is bounded. *)
AcComparing == {c \in AcClients : acCall[c].pc = "compare"}
AcLimited ==
  /\ acLimiter.count <= Attempts + Cardinality(AcClients) - 1
  /\ acNow - acLimiter.start <= Window =>
       acLimiter.count + Cardinality(AcComparing) <= Attempts + Cardinality(AcClients) - 1
AcInv == AcTyped /\ AcKnown /\ AcAsked /\ AcLimited

-----------------------------------------------------------------------------
(* The profiles of hosted users.                                              *)

(* Hosted users, and the user of a single-user installation. *)
HoAll == HoUsers \cup {Local}
HoKinds == {"default", "plain", "gone"}
HoRowSet == [user : HoAll, name : HoNames \cup {"default"}, kind : HoKinds, chans : SUBSET HoChannels]
HoCalls ==
  [pc : {"idle", "ensure", "count", "insert", "read", "write", "delete", "move", "rejoin", "save"},
   op : {"none", "edit", "create", "delete", "activate", "method", "save"},
   add : SUBSET HoChannels, drop : SUBSET HoChannels, id : Nat, doc : SUBSET HoChannels,
   name : HoNames, kind : {"default", "plain"}]
HoTyped ==
  /\ hoRows \in Seq(HoRowSet) /\ hoEngine \subseteq HoChannels
  /\ hoActive \in [id : Nat, chans : SUBSET HoChannels] /\ hoActive.id <= Len(hoRows)
  /\ hoCall \in [HoClients -> HoCalls]
  /\ hoAsked \in [HoAll -> SUBSET HoChannels] /\ hoOwn \in [HoAll -> SUBSET HoChannels]
  /\ hoMixed \subseteq HoAll

(* A document that may be saved as row i names only what the row's user owns. *)
HoDocOk(i, doc) == \A u \in HoAll : i \in RowsOf(u) => doc \subseteq hoOwn[u]

(* What the request of a client has in its hands.  Nobody else changes the
   profile of a user whose requests do not overlap between its read and its write. *)
HoGood(c, r) ==
  /\ r.id <= Len(hoRows)
  /\ r.pc \in {"move", "save"} => HoDocOk(r.id, r.doc)
  /\ r.pc \notin {"move", "rejoin"} => r.add \subseteq hoOwn[HoOwner[c]]
  /\ r.pc = "write" => r.doc \subseteq hoOwn[HoOwner[c]]
  /\ HoOwner[c] \notin hoMixed =>
       /\ r.pc = "insert" /\ r.kind = "default" => RowsOf(HoOwner[c]) = {}
       /\ r.pc = "write" => r.id \in DefaultRows(HoOwner[c]) /\ r.doc = hoAsked[HoOwner[c]]

HoAlone ==
  \A c, d \in HoClients : c # d /\ HoOwner[c] = HoOwner[d] /\ HoOwner[c] \notin hoMixed =>
    hoCall[c] = HoIdle \/ hoCall[d] = HoIdle

(* The one default profile of such a user is what the user asked for. *)
HoSettled(u) ==
  u \notin hoMixed =>
    /\ \A i \in DefaultRows(u) : hoRows[i].chans = hoAsked[u]
    /\ \A i, j \in DefaultRows(u) : i = j
HoOwned(u) == \A i \in RowsOf(u) : hoRows[i].chans \subseteq hoOwn[u]

HoInv ==
  /\ HoTyped /\ HoAlone /\ HoDocOk(hoActive.id, hoActive.chans)
  /\ \A c \in HoClients : HoGood(c, hoCall[c])
  /\ \A u \in HoAll : HoSettled(u) /\ HoOwned(u)

(* A client belongs to a hosted user. *)
LEMMA HoOwnerFacts == \A c \in HoClients : HoOwner[c] \in HoAll
  BY DEF HoAll, HoUsers

(* The record of a client without a request. *)
LEMMA HoIdleFacts ==
  /\ HoIdle \in HoCalls /\ HoIdle.pc = "idle" /\ HoIdle.op = "none" /\ HoIdle.id = 0
  /\ HoIdle.add = {} /\ HoIdle.drop = {}
  BY HostedConstants DEF HoIdle, HoCalls

(* A row belongs to one user. *)
LEMMA HoRowFacts ==
  ASSUME HoTyped, NEW u \in HoAll
  PROVE  /\ RowsOf(u) \subseteq 1 .. Len(hoRows) /\ DefaultRows(u) \subseteq RowsOf(u)
         /\ Len(hoRows) \in Nat
         /\ \A i \in RowsOf(u) : hoRows[i] \in HoRowSet /\ hoRows[i].chans \subseteq HoChannels
         /\ \A v \in HoAll : v # u => RowsOf(u) \cap RowsOf(v) = {}
<1>1. \A i \in 1 .. Len(hoRows) : hoRows[i] \in HoRowSet
  BY DEF HoTyped
<1> QED
  BY <1>1 DEF HoTyped, RowsOf, DefaultRows, HoRowSet

(* One request goes on: it changes the rows of its own user only. *)
HoOthersKept(c) ==
  \A u \in HoAll \ {HoOwner[c]} :
    /\ RowsOf(u)' = RowsOf(u) /\ DefaultRows(u)' = DefaultRows(u)
    /\ \A i \in RowsOf(u) : hoRows'[i].chans = hoRows[i].chans
    /\ hoAsked'[u] = hoAsked[u]
HoGrows ==
  /\ Len(hoRows) <= Len(hoRows')
  /\ \A u \in HoAll : RowsOf(u)' \cap (1 .. Len(hoRows)) \subseteq RowsOf(u)
  /\ \A u \in HoAll : hoOwn[u] \subseteq hoOwn'[u]
  /\ hoMixed \subseteq hoMixed'

(* The invariant survives a step of one client that leaves other users alone. *)
LEMMA HoMoves ==
  ASSUME HoInv, NEW c \in HoClients, NEW r \in HoCalls, hoCall' = [hoCall EXCEPT ![c] = r],
         HoTyped', HoOthersKept(c), HoGrows,
         HoOwner[c] \notin hoMixed' =>
           hoCall[c] # HoIdle \/ \A d \in HoClients \ {c} : HoOwner[d] = HoOwner[c] => hoCall[d] = HoIdle,
         HoDocOk(hoActive.id, hoActive.chans)', HoGood(c, r)',
         HoSettled(HoOwner[c])', HoOwned(HoOwner[c])'
  PROVE  HoInv'
<1>0. hoCall \in [HoClients -> HoCalls] /\ HoOwner[c] \in HoAll /\ Len(hoRows) \in Nat /\ Len(hoRows') \in Nat
  BY HoOwnerFacts, HoRowFacts DEF HoInv, HoTyped
<1>1. hoCall'[c] = r /\ \A d \in HoClients \ {c} : hoCall'[d] = hoCall[d]
  BY <1>0
<1>2. HoOwner[c] \notin hoMixed' =>
        \A d \in HoClients \ {c} : HoOwner[d] = HoOwner[c] => hoCall[d] = HoIdle
  BY DEF HoInv, HoAlone, HoGrows
<1>3. HoAlone'
  <2> SUFFICES ASSUME NEW b \in HoClients, NEW d \in HoClients, b # d, HoOwner[b] = HoOwner[d],
                      HoOwner[b] \notin hoMixed'
               PROVE  hoCall'[b] = HoIdle \/ hoCall'[d] = HoIdle
    BY DEF HoAlone, HoIdle
  <2>1. CASE b = c
    BY <1>1, <1>2, <2>1
  <2>2. CASE d = c
    BY <1>1, <1>2, <2>2
  <2>3. CASE b # c /\ d # c
    BY <1>1, <2>3 DEF HoInv, HoAlone, HoGrows
  <2> QED
    BY <2>1, <2>2, <2>3
<1>4. \A i \in 1 .. Len(hoRows) : \A doc : HoDocOk(i, doc) => HoDocOk(i, doc)'
  BY DEF HoDocOk, HoGrows
<1>5. ASSUME NEW d \in HoClients PROVE HoGood(d, hoCall[d])'
  <2>1. CASE d = c
    BY <1>1, <2>1 DEF HoGood, HoDocOk
  <2>2. CASE d # c
    <3>0. PICK q \in HoCalls : q = hoCall[d] /\ q = hoCall'[d]
      BY <1>0, <1>1, <2>2
    <3>1. HoGood(d, q) /\ HoOwner[d] \in HoAll /\ q.id \in Nat
      BY <3>0, HoOwnerFacts DEF HoInv, HoCalls
    <3>2. q.id <= Len(hoRows')
      BY <1>0, <3>1 DEF HoGood, HoGrows
    <3>3. q.pc \in {"move", "save"} => HoDocOk(q.id, q.doc)'
      <4> SUFFICES ASSUME q.pc \in {"move", "save"}, NEW u \in HoAll, q.id \in RowsOf(u)'
                   PROVE  q.doc \subseteq hoOwn'[u]
        BY DEF HoDocOk
      <4>1. q.id \in 1 .. Len(hoRows')
        BY DEF RowsOf
      <4>2. q.id \in 1 .. Len(hoRows)
        BY <1>0, <3>1, <4>1 DEF HoGood
      <4> QED
        BY <3>1, <4>2 DEF HoGood, HoDocOk, HoGrows
    <3>4. /\ q.pc \notin {"move", "rejoin"} => q.add \subseteq hoOwn'[HoOwner[d]]
          /\ q.pc = "write" => q.doc \subseteq hoOwn'[HoOwner[d]]
      BY <3>1 DEF HoGood, HoGrows
    <3>5. HoOwner[d] \notin hoMixed' =>
            /\ q.pc = "insert" /\ q.kind = "default" => RowsOf(HoOwner[d])' = {}
            /\ q.pc = "write" => q.id \in DefaultRows(HoOwner[d])' /\ q.doc = hoAsked'[HoOwner[d]]
      <4>1. CASE HoOwner[d] = HoOwner[c]
        BY <1>2, <2>2, <3>0, <4>1, HoIdleFacts
      <4>2. CASE HoOwner[d] # HoOwner[c]
        BY <3>1, <4>2 DEF HoGood, HoOthersKept, HoGrows
      <4> QED
        BY <4>1, <4>2
    <3> QED
      BY <3>0, <3>2, <3>3, <3>4, <3>5 DEF HoGood, HoDocOk
  <2> QED
    BY <2>1, <2>2
<1>6. ASSUME NEW u \in HoAll PROVE HoSettled(u)' /\ HoOwned(u)'
  <2>1. CASE u = HoOwner[c]
    BY <2>1 DEF HoSettled, HoOwned
  <2>2. CASE u # HoOwner[c]
    <3>1. HoSettled(u) /\ HoOwned(u) /\ DefaultRows(u) \subseteq RowsOf(u)
      BY HoRowFacts DEF HoInv
    <3>2. /\ RowsOf(u)' = RowsOf(u) /\ DefaultRows(u)' = DefaultRows(u)
          /\ \A i \in RowsOf(u) : hoRows'[i].chans = hoRows[i].chans
          /\ hoAsked'[u] = hoAsked[u] /\ hoOwn[u] \subseteq hoOwn'[u]
          /\ u \notin hoMixed' => u \notin hoMixed
      BY <2>2 DEF HoOthersKept, HoGrows
    <3> QED
      BY <3>1, <3>2 DEF HoSettled, HoOwned
  <2> QED
    BY <2>1, <2>2
<1> QED
  BY <1>3, <1>5, <1>6 DEF HoInv

(* A step that leaves the table alone. *)
HoQuiet == UNCHANGED <<hoRows, hoAsked>>

(* So it does a step that leaves the table alone. *)
LEMMA HoKeeps ==
  ASSUME HoInv, NEW c \in HoClients, NEW r \in HoCalls, hoCall' = [hoCall EXCEPT ![c] = r], HoQuiet,
         hoEngine' \subseteq HoChannels,
         hoActive' = hoActive
           \/ (hoActive' \in [id : Nat, chans : SUBSET HoChannels] /\ hoActive'.id <= Len(hoRows)
               /\ HoDocOk(hoActive'.id, hoActive'.chans)),
         hoOwn' \in [HoAll -> SUBSET HoChannels], \A u \in HoAll : hoOwn[u] \subseteq hoOwn'[u],
         hoMixed \subseteq hoMixed', hoMixed' \subseteq HoAll,
         HoOwner[c] \notin hoMixed' =>
           hoCall[c] # HoIdle \/ \A d \in HoClients \ {c} : HoOwner[d] = HoOwner[c] => hoCall[d] = HoIdle,
         HoGood(c, r)'
  PROVE  HoInv'
<1>1. /\ hoRows' = hoRows /\ hoAsked' = hoAsked /\ Len(hoRows) \in Nat
      /\ \A u \in HoAll : RowsOf(u)' = RowsOf(u) /\ DefaultRows(u)' = DefaultRows(u)
  BY DEF HoQuiet, RowsOf, DefaultRows, HoInv, HoTyped
<1>2. HoTyped'
  BY <1>1 DEF HoInv, HoTyped
<1>3. HoOthersKept(c) /\ HoGrows
  BY <1>1 DEF HoOthersKept, HoGrows
<1>4. HoDocOk(hoActive.id, hoActive.chans)'
  BY <1>1 DEF HoInv, HoDocOk
<1>5. HoOwner[c] \in HoAll
  BY HoOwnerFacts
<1>6. HoSettled(HoOwner[c])' /\ HoOwned(HoOwner[c])'
  BY <1>1, <1>5 DEF HoInv, HoSettled, HoOwned
<1> QED
  BY <1>2, <1>3, <1>4, <1>6, HoMoves

(* A request begins: those of the same user that are under way overlap it. *)
LEMMA HoBegins ==
  ASSUME HoInv, NEW c \in HoClients, NEW r, HoBegin(c, r)
  PROVE  /\ hoCall[c] = HoIdle /\ hoCall' = [hoCall EXCEPT ![c] = r]
         /\ hoMixed \subseteq hoMixed' /\ hoMixed' \subseteq HoAll
         /\ HoOwner[c] \notin hoMixed' =>
              \A d \in HoClients \ {c} : HoOwner[d] = HoOwner[c] => hoCall[d] = HoIdle
<1>1. hoMixed \subseteq HoAll /\ HoOwner[c] \in HoAll
  BY HoOwnerFacts DEF HoInv, HoTyped
<1> QED
  BY <1>1 DEF HoBegin

(* A request goes on. *)
LEMMA HoGoes ==
  ASSUME HoInv, NEW c \in HoClients, NEW r, HoGoto(c, r), hoCall[c].pc # "idle"
  PROVE  hoCall[c] # HoIdle /\ hoCall' = [hoCall EXCEPT ![c] = r] /\ hoCall[c] \in HoCalls /\ HoGood(c, hoCall[c])
BY HoIdleFacts DEF HoGoto, HoInv, HoTyped

(* What a request has in its hands stays good when the table does not change. *)
LEMMA HoSame ==
  ASSUME HoInv, NEW c \in HoClients, NEW r \in HoCalls, HoQuiet,
         hoOwn[HoOwner[c]] \subseteq hoOwn'[HoOwner[c]], \A u \in HoAll : hoOwn[u] \subseteq hoOwn'[u],
         hoMixed \subseteq hoMixed',
         r.id <= Len(hoRows), r.pc \in {"move", "save"} => HoDocOk(r.id, r.doc),
         r.pc \notin {"move", "rejoin"} => r.add \subseteq hoOwn'[HoOwner[c]],
         r.pc = "write" => r.doc \subseteq hoOwn[HoOwner[c]],
         HoOwner[c] \notin hoMixed =>
           /\ r.pc = "insert" /\ r.kind = "default" => RowsOf(HoOwner[c]) = {}
           /\ r.pc = "write" => r.id \in DefaultRows(HoOwner[c]) /\ r.doc = hoAsked[HoOwner[c]]
  PROVE  HoGood(c, r)'
<1>1. \A u : RowsOf(u)' = RowsOf(u) /\ DefaultRows(u)' = DefaultRows(u)
  BY DEF HoQuiet, RowsOf, DefaultRows
<1>2. hoRows' = hoRows /\ hoAsked' = hoAsked
  BY DEF HoQuiet
<1>3. r.pc \in {"move", "save"} => HoDocOk(r.id, r.doc)'
  BY <1>1 DEF HoDocOk
<1> QED
  BY <1>1, <1>2, <1>3 DEF HoGood, HoDocOk

(* The beginnings of requests. *)
LEMMA HoBeginSteps ==
  ASSUME HoInv, NEW c \in HoClients,
         \/ \E ch \in HoChannels, ok \in BOOLEAN : HostedJoin(c, ch, ok)
         \/ \E ch \in HoChannels : HostedLeave(c, ch)
         \/ \E name \in HoNames, chans \in SUBSET HoChannels : HostedCreate(c, name, chans)
         \/ \E i \in 1 .. Len(hoRows) : HostedDelete(c, i) \/ HostedActivate(c, i)
         \/ \E chans \in SUBSET HoChannels : HostedSetMethod(c, chans)
         \/ HostedSetFilters(c)
  PROVE  HoInv'
<1>0. /\ HoOwner[c] \in HoAll /\ Len(hoRows) \in Nat /\ hoOwn \in [HoAll -> SUBSET HoChannels]
      /\ hoEngine \subseteq HoChannels /\ hoActive \in [id : Nat, chans : SUBSET HoChannels]
      /\ hoActive.id <= Len(hoRows)
  BY HoOwnerFacts DEF HoInv, HoTyped
(* What is left to show of a beginning that leaves the engine and the active document alone. *)
<1>1. ASSUME NEW r \in HoCalls, HoBegin(c, r), HoQuiet, UNCHANGED <<hoEngine, hoActive, hoOwn>>,
             r.id <= Len(hoRows), r.pc \in {"move", "save"} => HoDocOk(r.id, r.doc),
             r.pc \notin {"move", "rejoin"} => r.add = {}, r.pc \notin {"write", "insert"}
      PROVE  HoInv'
  <2>1. HoGood(c, r)'
    BY <1>0, <1>1, HoBegins, HoSame
  <2> QED
    BY <1>0, <1>1, <2>1, HoBegins, HoKeeps
<1>2. ASSUME NEW ch \in HoChannels, NEW ok \in BOOLEAN, HostedJoin(c, ch, ok) PROVE HoInv'
  <2>1. PICK r : r = IF ok THEN [HoIdle EXCEPT !.pc = "ensure", !.op = "edit", !.add = {ch}] ELSE HoIdle
    OBVIOUS
  <2>2. /\ HoBegin(c, r) /\ HoQuiet /\ hoActive' = hoActive
        /\ hoEngine' = IF ok THEN hoEngine \cup {ch} ELSE hoEngine \ {ch}
        /\ hoOwn' = IF ok THEN [hoOwn EXCEPT ![HoOwner[c]] = hoOwn[HoOwner[c]] \cup {ch}] ELSE hoOwn
    BY <1>2, <2>1 DEF HostedJoin, HoQuiet
  <2>3. /\ r \in HoCalls /\ r.id = 0 /\ r.pc \in {"idle", "ensure"}
        /\ r.add = {} \/ (ok = TRUE /\ r.add = {ch})
    BY <2>1, HostedConstants DEF HoIdle, HoCalls
  <2>4. /\ hoEngine' \subseteq HoChannels /\ hoOwn' \in [HoAll -> SUBSET HoChannels]
        /\ \A u \in HoAll : hoOwn[u] \subseteq hoOwn'[u]
        /\ ok = TRUE => ch \in hoOwn'[HoOwner[c]]
    BY <1>0, <2>2
  <2>5. HoGood(c, r)'
    BY <1>0, <2>2, <2>3, <2>4, HoBegins, HoSame
  <2> QED
    BY <1>0, <2>2, <2>3, <2>4, <2>5, HoBegins, HoKeeps
<1>3. ASSUME NEW ch \in HoChannels, HostedLeave(c, ch) PROVE HoInv'
  <2>1. PICK r : r = [HoIdle EXCEPT !.pc = "ensure", !.op = "edit", !.drop = {ch}]
    OBVIOUS
  <2>2. HoBegin(c, r) /\ HoQuiet /\ UNCHANGED <<hoEngine, hoActive, hoOwn>>
    BY <1>3, <2>1 DEF HostedLeave, HoQuiet
  <2>3. r \in HoCalls /\ r.id = 0 /\ r.pc = "ensure" /\ r.add = {}
    BY <2>1, HostedConstants DEF HoIdle, HoCalls
  <2> QED
    BY <1>0, <1>1, <2>2, <2>3
<1>4. ASSUME NEW name \in HoNames, NEW chans \in SUBSET HoChannels, HostedCreate(c, name, chans) PROVE HoInv'
  <2>1. PICK r : r = [HoIdle EXCEPT !.pc = "count", !.op = "create", !.name = name, !.doc = chans]
    OBVIOUS
  <2>2. HoBegin(c, r) /\ HoQuiet /\ UNCHANGED <<hoEngine, hoActive, hoOwn>>
    BY <1>4, <2>1 DEF HostedCreate, HoQuiet
  <2>3. r \in HoCalls /\ r.id = 0 /\ r.pc = "count" /\ r.add = {}
    BY <2>1, HostedConstants DEF HoIdle, HoCalls
  <2> QED
    BY <1>0, <1>1, <2>2, <2>3
<1>5. ASSUME NEW i \in 1 .. Len(hoRows), HostedDelete(c, i) PROVE HoInv'
  <2>1. PICK r : r = [HoIdle EXCEPT !.pc = "delete", !.op = "delete", !.id = i]
    OBVIOUS
  <2>2. HoBegin(c, r) /\ HoQuiet /\ UNCHANGED <<hoEngine, hoActive, hoOwn>>
    BY <1>5, <2>1 DEF HostedDelete, HoQuiet
  <2>3. r \in HoCalls /\ r.id = i /\ r.pc = "delete" /\ r.add = {}
    <3>1. i \in Nat
      BY <1>0
    <3> QED
      BY <2>1, <3>1, HostedConstants DEF HoIdle, HoCalls
  <2> QED
    BY <1>0, <1>1, <2>2, <2>3
<1>6. ASSUME NEW i \in 1 .. Len(hoRows), HostedActivate(c, i) PROVE HoInv'
  <2>0. PICK next : next = hoRows[i].chans
    OBVIOUS
  <2>1. PICK r : r = [HoIdle EXCEPT !.pc = "move", !.op = "activate", !.id = i, !.doc = next,
                                    !.drop = hoActive.chans \ next, !.add = next \ hoActive.chans]
    OBVIOUS
  <2>2. HoBegin(c, r) /\ HoQuiet /\ UNCHANGED <<hoEngine, hoActive, hoOwn>> /\ i \in RowsOf(HoOwner[c])
    BY <1>6, <2>0, <2>1 DEF HostedActivate, HoQuiet
  <2>3. next \subseteq HoChannels
    BY <1>0, <2>0, <2>2, HoRowFacts DEF HoInv
  <2>4. r \in HoCalls /\ r.id = i /\ r.pc = "move" /\ r.doc = next
    <3>1. i \in Nat /\ hoActive.chans \ next \in SUBSET HoChannels /\ next \ hoActive.chans \in SUBSET HoChannels
      BY <1>0, <2>3
    <3> QED
      BY <2>1, <2>3, <3>1, HostedConstants DEF HoIdle, HoCalls
  <2>5. HoDocOk(i, next)
    BY <1>0, <2>0, <2>2, HoRowFacts DEF HoInv, HoDocOk, HoOwned
  <2> QED
    BY <1>0, <1>1, <2>2, <2>4, <2>5
<1>7. ASSUME NEW chans \in SUBSET HoChannels, HostedSetMethod(c, chans) PROVE HoInv'
  <2>1. PICK r : r = [HoIdle EXCEPT !.pc = "rejoin", !.op = "method", !.add = chans]
    OBVIOUS
  <2>2. HoBegin(c, r) /\ HoQuiet /\ UNCHANGED <<hoEngine, hoActive, hoOwn>>
    BY <1>7, <2>1 DEF HostedSetMethod, HoQuiet
  <2>3. r \in HoCalls /\ r.id = 0 /\ r.pc = "rejoin"
    BY <2>1, HostedConstants DEF HoIdle, HoCalls
  <2> QED
    BY <1>0, <1>1, <2>2, <2>3
<1>8. ASSUME HostedSetFilters(c) PROVE HoInv'
  <2>1. PICK r : r = SaveCall
    OBVIOUS
  <2>2. HoBegin(c, r) /\ HoQuiet /\ UNCHANGED <<hoEngine, hoActive, hoOwn>>
    BY <1>8, <2>1 DEF HostedSetFilters, HoQuiet
  <2>3. r \in HoCalls /\ r.id = hoActive.id /\ r.pc = "save" /\ r.add = {} /\ r.doc = hoActive.chans
    BY <1>0, <2>1, HostedConstants DEF SaveCall, HoIdle, HoCalls
  <2> QED
    BY <1>0, <1>1, <2>2, <2>3 DEF HoInv
<1> QED
  BY <1>2, <1>3, <1>4, <1>5, <1>6, <1>7, <1>8

(* The steps in between. *)
LEMMA HoMiddleSteps ==
  ASSUME HoInv, NEW c \in HoClients,
         \/ EnsureUserProfile(c) \/ CountProfiles(c) \/ MethodSaves(c)
         \/ \E ch \in HoChannels : ActivateLeaves(c, ch) \/ MethodLeaves(c, ch)
         \/ \E ch \in HoChannels, ok \in BOOLEAN : ActivateJoins(c, ch, ok)
         \/ \E ok \in BOOLEAN : ActivateSwaps(c, ok) \/ MethodJoins(c, ok)
  PROVE  HoInv'
<1>0. /\ HoOwner[c] \in HoAll /\ Len(hoRows) \in Nat /\ hoOwn \in [HoAll -> SUBSET HoChannels]
      /\ hoEngine \subseteq HoChannels /\ hoActive \in [id : Nat, chans : SUBSET HoChannels]
      /\ hoActive.id <= Len(hoRows) /\ hoMixed \subseteq HoAll
      /\ hoCall[c] \in HoCalls /\ HoGood(c, hoCall[c])
  BY HoOwnerFacts DEF HoInv, HoTyped
<1>1. PICK call \in HoCalls : call = hoCall[c] /\ HoGood(c, call)
  BY <1>0
(* What is left to show of such a step. *)
<1>2. ASSUME NEW r \in HoCalls, HoGoto(c, r), call.pc # "idle", HoQuiet, UNCHANGED <<hoOwn, hoMixed>>,
             hoEngine' \subseteq HoChannels,
             hoActive' = hoActive \/ (call.pc = "move" /\ hoActive' = [id |-> call.id, chans |-> call.doc]),
             r.id <= Len(hoRows), r.pc \in {"move", "save"} => HoDocOk(r.id, r.doc),
             r.pc \notin {"move", "rejoin"} => r.add = {} \/ (call.pc \notin {"move", "rejoin"} /\ r.add \subseteq call.add),
             r.pc # "write",
             r.pc = "insert" /\ r.kind = "default" => RowsOf(HoOwner[c]) = {}
      PROVE  HoInv'
  <2>1. hoCall[c] # HoIdle /\ hoCall' = [hoCall EXCEPT ![c] = r]
    BY <1>1, <1>2, HoGoes
  <2>2. HoGood(c, r)'
    BY <1>0, <1>1, <1>2, HoSame DEF HoGood
  <2>3. hoActive' = hoActive
           \/ (hoActive' \in [id : Nat, chans : SUBSET HoChannels] /\ hoActive'.id <= Len(hoRows)
               /\ HoDocOk(hoActive'.id, hoActive'.chans))
    BY <1>1, <1>2 DEF HoGood, HoCalls
  <2> QED
    BY <1>0, <1>2, <2>1, <2>2, <2>3, HoKeeps
<1>9. call.id <= Len(hoRows) /\ (call.pc = "move" => HoDocOk(call.id, call.doc))
  BY <1>1 DEF HoGood
<1>3. ASSUME EnsureUserProfile(c) PROVE HoInv'
  <2>1. PICK r : r = IF DefaultRows(HoOwner[c]) # {} THEN [call EXCEPT !.pc = "read"]
                     ELSE [call EXCEPT !.pc = "count", !.doc = hoEngine]
    OBVIOUS
  <2>2. call.pc = "ensure" /\ HoGoto(c, r) /\ HoQuiet /\ UNCHANGED <<hoEngine, hoActive, hoOwn, hoMixed>>
    BY <1>1, <1>3, <2>1 DEF EnsureUserProfile, HoAt, HoQuiet
  <2>3. r \in HoCalls /\ r.id = call.id /\ r.pc \in {"read", "count"} /\ r.add = call.add
    BY <1>0, <2>1 DEF HoCalls
  <2> QED
    BY <1>0, <1>2, <1>9, <2>2, <2>3 DEF HoInv
<1>4. ASSUME CountProfiles(c) PROVE HoInv'
  <2>0. PICK kind \in {"default", "plain"} : kind = IF RowsOf(HoOwner[c]) = {} THEN "default" ELSE "plain"
    OBVIOUS
  <2>1. PICK r : r = [call EXCEPT !.pc = "insert", !.kind = kind]
    OBVIOUS
  <2>2. call.pc = "count" /\ HoGoto(c, r) /\ HoQuiet /\ UNCHANGED <<hoEngine, hoActive, hoOwn, hoMixed>>
    BY <1>1, <1>4, <2>0, <2>1 DEF CountProfiles, HoAt, HoQuiet
  <2>3. r \in HoCalls /\ r.id = call.id /\ r.pc = "insert" /\ r.add = call.add /\ r.kind = kind
    BY <1>0, <2>1 DEF HoCalls
  <2> QED
    BY <1>0, <1>2, <1>9, <2>0, <2>2, <2>3
<1>5. ASSUME MethodSaves(c) PROVE HoInv'
  <2>1. PICK r : r = SaveCall
    OBVIOUS
  <2>2. call.pc = "rejoin" /\ HoGoto(c, r) /\ HoQuiet /\ UNCHANGED <<hoEngine, hoActive, hoOwn, hoMixed>>
    BY <1>1, <1>5, <2>1 DEF MethodSaves, HoAt, HoQuiet
  <2>3. r \in HoCalls /\ r.id = hoActive.id /\ r.pc = "save" /\ r.add = {} /\ r.doc = hoActive.chans
    BY <1>0, <2>1, HostedConstants DEF SaveCall, HoIdle, HoCalls
  <2> QED
    BY <1>0, <1>2, <1>9, <2>2, <2>3 DEF HoInv
<1>6. ASSUME NEW ch \in HoChannels, NEW ok \in BOOLEAN, ActivateLeaves(c, ch) \/ ActivateJoins(c, ch, ok) PROVE HoInv'
  <2>1. PICK r \in {[call EXCEPT !.drop = call.drop \ {ch}], [call EXCEPT !.add = call.add \ {ch}]} :
          /\ call.pc = "move" /\ HoGoto(c, r) /\ HoQuiet /\ UNCHANGED <<hoActive, hoOwn, hoMixed>>
          /\ hoEngine' \subseteq hoEngine \cup {ch}
    BY <1>1, <1>6 DEF ActivateLeaves, ActivateJoins, HoAt, HoQuiet
  <2>2. r \in HoCalls /\ r.id = call.id /\ r.doc = call.doc /\ r.pc = call.pc
    BY <1>0, <2>1 DEF HoCalls
  <2>3. HoDocOk(r.id, r.doc) /\ r.id <= Len(hoRows)
    BY <1>9, <2>1, <2>2
  <2>4. r.add \subseteq call.add
    BY <2>1 DEF HoCalls
  <2> QED
    BY <1>0, <1>2, <2>1, <2>2, <2>3, <2>4
<1>7. ASSUME NEW ok \in BOOLEAN, ActivateSwaps(c, ok) PROVE HoInv'
  <2>1. /\ call.pc = "move" /\ HoGoto(c, HoIdle) /\ HoQuiet /\ UNCHANGED <<hoEngine, hoOwn, hoMixed>>
        /\ hoActive' = hoActive \/ hoActive' = [id |-> call.id, chans |-> call.doc]
    BY <1>1, <1>7 DEF ActivateSwaps, HoEnds, HoAt, HoQuiet
  <2> QED
    BY <1>0, <1>2, <2>1, HoIdleFacts
<1>8. ASSUME NEW ch \in HoChannels, MethodLeaves(c, ch) PROVE HoInv'
  <2>1. PICK r : r = [call EXCEPT !.add = call.add \ {ch}, !.drop = {ch}]
    OBVIOUS
  <2>2. /\ call.pc = "rejoin" /\ HoGoto(c, r) /\ HoQuiet /\ UNCHANGED <<hoActive, hoOwn, hoMixed>>
        /\ hoEngine' = hoEngine \ {ch}
    BY <1>1, <1>8, <2>1 DEF MethodLeaves, HoAt, HoQuiet
  <2>3. /\ r \in HoCalls /\ r.id = call.id /\ r.pc = call.pc /\ r.add \subseteq call.add
    <3>1. call.add \ {ch} \in SUBSET HoChannels /\ {ch} \in SUBSET HoChannels
      BY DEF HoCalls
    <3> QED
      BY <2>1, <3>1 DEF HoCalls
  <2> QED
    BY <1>0, <1>2, <1>9, <2>2, <2>3
<1>10. ASSUME NEW ok \in BOOLEAN, MethodJoins(c, ok) PROVE HoInv'
  <2>1. PICK r : r = [call EXCEPT !.drop = {}]
    OBVIOUS
  <2>2. /\ call.pc = "rejoin" /\ HoGoto(c, r) /\ HoQuiet /\ UNCHANGED <<hoActive, hoOwn, hoMixed>>
        /\ hoEngine' \subseteq hoEngine \cup call.drop
    BY <1>1, <1>10, <2>1 DEF MethodJoins, HoAt, HoQuiet
  <2>3. /\ r \in HoCalls /\ r.id = call.id /\ r.pc = call.pc /\ r.add = call.add
        /\ call.drop \subseteq HoChannels
    BY <2>1 DEF HoCalls
  <2> QED
    BY <1>0, <1>2, <1>9, <2>2, <2>3
<1> QED
  BY <1>3, <1>4, <1>5, <1>6, <1>7, <1>8, <1>10

(* What a query that updates a row of user u leaves. *)
HoUpdated(i, u, chans) ==
  /\ hoRows' \in Seq(HoRowSet) /\ Len(hoRows') = Len(hoRows)
  /\ \A v \in HoAll : RowsOf(v)' = RowsOf(v) /\ DefaultRows(v)' = DefaultRows(v)
  /\ \A j \in 1 .. Len(hoRows) :
       hoRows'[j].chans = IF j = i /\ i \in RowsOf(u) THEN chans ELSE hoRows[j].chans

LEMMA HoUpdates ==
  ASSUME HoTyped, NEW i, NEW u \in HoAll, NEW chans \in SUBSET HoChannels, hoRows' = UpdateRow(i, u, chans)
  PROVE  HoUpdated(i, u, chans)
<1>1. hoRows \in Seq(HoRowSet) /\ Len(hoRows) \in Nat /\ DOMAIN hoRows = 1 .. Len(hoRows)
      /\ \A j \in 1 .. Len(hoRows) : hoRows[j] \in HoRowSet
  BY DEF HoTyped
<1>2. CASE i \notin RowsOf(u)
  <2>1. hoRows' = hoRows
    BY <1>2 DEF UpdateRow
  <2> QED
    BY <1>1, <1>2, <2>1 DEF HoUpdated, RowsOf, DefaultRows
<1>3. CASE i \in RowsOf(u)
  <2>1. i \in 1 .. Len(hoRows)
    BY <1>3 DEF RowsOf
  <2>2. PICK row : row = [hoRows[i] EXCEPT !.chans = chans]
    OBVIOUS
  <2>3. row \in HoRowSet /\ row.user = hoRows[i].user /\ row.kind = hoRows[i].kind /\ row.chans = chans
    BY <1>1, <2>1, <2>2 DEF HoRowSet
  <2>4. hoRows' = [hoRows EXCEPT ![i] = row]
    BY <1>3, <2>2 DEF UpdateRow
  <2>5. /\ hoRows' \in Seq(HoRowSet) /\ Len(hoRows') = Len(hoRows)
        /\ hoRows'[i] = row /\ \A j \in 1 .. Len(hoRows) : j # i => hoRows'[j] = hoRows[j]
    BY <1>1, <2>1, <2>3, <2>4
  <2>6. \A j \in 1 .. Len(hoRows) : hoRows'[j].user = hoRows[j].user /\ hoRows'[j].kind = hoRows[j].kind
    BY <2>3, <2>5
  <2>7. \A v \in HoAll : RowsOf(v)' = RowsOf(v)
    BY <2>5, <2>6 DEF RowsOf
  <2>8. \A v \in HoAll : DefaultRows(v)' = DefaultRows(v)
    BY <2>6, <2>7 DEF DefaultRows, RowsOf
  <2> QED
    BY <1>3, <2>3, <2>5, <2>7, <2>8 DEF HoUpdated
<1> QED
  BY <1>2, <1>3

(* What a query that deletes a row leaves. *)
LEMMA HoDeletes ==
  ASSUME HoTyped, NEW i \in 1 .. Len(hoRows), hoRows' = [hoRows EXCEPT ![i] = [hoRows[i] EXCEPT !.kind = "gone"]]
  PROVE  /\ hoRows' \in Seq(HoRowSet) /\ Len(hoRows') = Len(hoRows)
         /\ \A v \in HoAll : RowsOf(v)' = RowsOf(v) \ {i} /\ DefaultRows(v)' = DefaultRows(v) \ {i}
         /\ \A j \in 1 .. Len(hoRows) : hoRows'[j].chans = hoRows[j].chans
<1>1. hoRows \in Seq(HoRowSet) /\ Len(hoRows) \in Nat /\ DOMAIN hoRows = 1 .. Len(hoRows)
      /\ \A j \in 1 .. Len(hoRows) : hoRows[j] \in HoRowSet
  BY DEF HoTyped
<1>2. PICK row : row = [hoRows[i] EXCEPT !.kind = "gone"]
  OBVIOUS
<1>3. row \in HoRowSet /\ row.kind = "gone" /\ row.chans = hoRows[i].chans
  BY <1>1, <1>2 DEF HoRowSet, HoKinds
<1>4. /\ hoRows' \in Seq(HoRowSet) /\ Len(hoRows') = Len(hoRows)
      /\ hoRows'[i] = row /\ \A j \in 1 .. Len(hoRows) : j # i => hoRows'[j] = hoRows[j]
  BY <1>1, <1>2, <1>3
<1>5. \A v \in HoAll : RowsOf(v)' = RowsOf(v) \ {i}
  BY <1>3, <1>4 DEF RowsOf
<1>6. \A v \in HoAll : DefaultRows(v)' = DefaultRows(v) \ {i}
  BY <1>4, <1>5 DEF DefaultRows, RowsOf
<1> QED
  BY <1>3, <1>4, <1>5, <1>6

(* What a query that inserts a row leaves. *)
LEMMA HoInserts ==
  ASSUME HoTyped, NEW row \in HoRowSet, row.kind # "gone", hoRows' = Append(hoRows, row)
  PROVE  /\ hoRows' \in Seq(HoRowSet) /\ Len(hoRows') = Len(hoRows) + 1
         /\ \A v \in HoAll : RowsOf(v)' = RowsOf(v) \cup (IF v = row.user THEN {Len(hoRows) + 1} ELSE {})
         /\ \A v \in HoAll : DefaultRows(v)' =
              DefaultRows(v) \cup (IF v = row.user /\ row.kind = "default" THEN {Len(hoRows) + 1} ELSE {})
         /\ \A j \in 1 .. Len(hoRows) : hoRows'[j] = hoRows[j]
         /\ hoRows'[Len(hoRows) + 1] = row
<1>1. hoRows \in Seq(HoRowSet) /\ Len(hoRows) \in Nat
  BY DEF HoTyped
<1>2. /\ hoRows' \in Seq(HoRowSet) /\ Len(hoRows') = Len(hoRows) + 1
      /\ \A j \in 1 .. Len(hoRows) : hoRows'[j] = hoRows[j]
      /\ hoRows'[Len(hoRows) + 1] = row
  BY <1>1
<1>3. \A j \in 1 .. Len(hoRows) + 1 : j \in 1 .. Len(hoRows) \/ j = Len(hoRows) + 1
  BY <1>1
<1>4. \A v \in HoAll, j \in 1 .. Len(hoRows) + 1 :
        j \in RowsOf(v)' <=> IF j = Len(hoRows) + 1 THEN v = row.user ELSE j \in RowsOf(v)
  BY <1>1, <1>2, <1>3 DEF RowsOf
<1>5. \A v \in HoAll : RowsOf(v) \subseteq 1 .. Len(hoRows) /\ RowsOf(v)' \subseteq 1 .. Len(hoRows) + 1
                       /\ Len(hoRows) + 1 \notin RowsOf(v)
  BY <1>1, <1>2 DEF RowsOf
<1>6. \A v \in HoAll : RowsOf(v)' = RowsOf(v) \cup (IF v = row.user THEN {Len(hoRows) + 1} ELSE {})
  <2> SUFFICES ASSUME NEW v \in HoAll, NEW j
               PROVE  j \in RowsOf(v)' <=> j \in RowsOf(v) \/ (v = row.user /\ j = Len(hoRows) + 1)
    OBVIOUS
  <2>1. CASE j \in 1 .. Len(hoRows)
    BY <1>1, <1>4, <2>1
  <2>2. CASE j = Len(hoRows) + 1
    BY <1>1, <1>4, <1>5, <2>2
  <2>3. CASE j \notin 1 .. Len(hoRows) /\ j # Len(hoRows) + 1
    BY <1>3, <1>5, <2>3
  <2> QED
    BY <2>1, <2>2, <2>3
<1>7. ASSUME NEW v \in HoAll
      PROVE  DefaultRows(v)' =
               DefaultRows(v) \cup (IF v = row.user /\ row.kind = "default" THEN {Len(hoRows) + 1} ELSE {})
  <2>1. \A j \in RowsOf(v) : hoRows'[j] = hoRows[j]
    BY <1>2, <1>5
  <2> QED
    BY <1>2, <1>5, <1>6, <2>1 DEF DefaultRows
<1> QED
  BY <1>2, <1>6, <1>7

(* A request ends, with a query on rows that are there. *)
LEMMA HoEnding ==
  ASSUME HoInv, NEW c \in HoClients, hoCall[c].pc # "idle", HoGoto(c, HoIdle),
         hoRows' \in Seq(HoRowSet), Len(hoRows') = Len(hoRows), \A v \in HoAll : RowsOf(v)' \subseteq RowsOf(v),
         UNCHANGED <<hoEngine, hoActive, hoOwn>>, hoMixed \subseteq hoMixed', hoMixed' \subseteq HoAll,
         hoAsked' \in [HoAll -> SUBSET HoChannels],
         HoOthersKept(c), HoSettled(HoOwner[c])', HoOwned(HoOwner[c])'
  PROVE  HoInv'
<1>1. HoTyped /\ Len(hoRows) \in Nat
  BY DEF HoInv, HoTyped
<1>2. hoCall[c] # HoIdle /\ hoCall' = [hoCall EXCEPT ![c] = HoIdle]
  BY HoGoes
<1>3. HoTyped'
  BY <1>1, <1>2, HoIdleFacts DEF HoTyped
<1>4. HoGrows
  BY <1>1 DEF HoGrows
<1>5. HoDocOk(hoActive.id, hoActive.chans)'
  BY DEF HoInv, HoDocOk
<1>6. HoGood(c, HoIdle)'
  BY <1>1, HoIdleFacts DEF HoGood, HoIdle
<1> QED
  BY <1>2, <1>3, <1>4, <1>5, <1>6, HoIdleFacts, HoMoves

(* The default profile is read, or found to need no change. *)
LEMMA HoReadStep == ASSUME HoInv, NEW c \in HoClients, ReadUserProfile(c) PROVE HoInv'
<1>0. PICK u \in HoAll : u = HoOwner[c]
  BY HoOwnerFacts
<1>1. PICK call \in HoCalls : call = hoCall[c] /\ HoGood(c, call)
  BY DEF HoInv, HoTyped
<1>2. call.pc = "read" /\ UNCHANGED <<hoRows, hoEngine, hoActive, hoOwn>>
  BY <1>1 DEF ReadUserProfile, HoAt
<1>3. /\ HoTyped /\ HoSettled(u) /\ HoOwned(u) /\ Len(hoRows) \in Nat /\ hoMixed \subseteq HoAll
      /\ hoAsked \in [HoAll -> SUBSET HoChannels] /\ hoOwn \in [HoAll -> SUBSET HoChannels]
      /\ hoEngine \subseteq HoChannels
  BY DEF HoInv, HoTyped
<1>4. \A v : RowsOf(v)' = RowsOf(v) /\ DefaultRows(v)' = DefaultRows(v)
  BY <1>2 DEF RowsOf, DefaultRows
<1>5. ASSUME HoEdits(c),
             DefaultRows(u) = {} \/ \E i \in DefaultRows(u) : call.drop = {} /\ call.add \subseteq hoRows[i].chans
      PROVE  HoInv'
  <2>1. /\ hoAsked' = [hoAsked EXCEPT ![u] = (hoAsked[u] \cup call.add) \ call.drop]
        /\ HoGoto(c, HoIdle) /\ hoMixed' = hoMixed
    BY <1>0, <1>1, <1>5 DEF HoEdits, HoEnds
  <2>2. hoAsked' \in [HoAll -> SUBSET HoChannels] /\ \A v \in HoAll \ {u} : hoAsked'[v] = hoAsked[v]
    BY <1>3, <2>1 DEF HoCalls
  <2>3. HoOthersKept(c)
    BY <1>0, <1>2, <1>4, <2>2 DEF HoOthersKept
  <2>4. HoSettled(u)'
    <3>1. CASE DefaultRows(u) = {}
      BY <1>4, <3>1 DEF HoSettled
    <3>2. CASE u \in hoMixed
      BY <2>1, <3>2 DEF HoSettled
    <3>3. CASE u \notin hoMixed /\ DefaultRows(u) # {}
      <4>1. PICK i \in DefaultRows(u) : call.drop = {} /\ call.add \subseteq hoAsked[u]
        BY <1>3, <1>5, <3>3 DEF HoSettled
      <4>2. hoAsked'[u] = hoAsked[u]
        BY <1>3, <2>1, <4>1
      <4> QED
        BY <1>2, <1>3, <1>4, <2>1, <4>2 DEF HoSettled
    <3> QED
      BY <3>1, <3>2, <3>3
  <2>5. HoOwned(u)'
    BY <1>2, <1>3, <1>4 DEF HoOwned
  <2>6. hoRows' \in Seq(HoRowSet) /\ Len(hoRows') = Len(hoRows)
    BY <1>2, <1>3 DEF HoTyped
  <2> QED
    BY <1>0, <1>1, <1>2, <1>3, <1>4, <2>1, <2>2, <2>3, <2>4, <2>5, <2>6, HoEnding
<1>6. ASSUME NEW i \in DefaultRows(u), UNCHANGED <<hoAsked, hoMixed>>,
             HoGoto(c, [call EXCEPT !.pc = "write", !.id = i, !.doc = hoRows[i].chans])
      PROVE  HoInv'
  <2>1. PICK doc : doc = hoRows[i].chans
    OBVIOUS
  <2>2. i \in RowsOf(u) /\ i \in Nat /\ i <= Len(hoRows) /\ doc \in SUBSET HoChannels /\ doc \subseteq hoOwn[u]
    BY <1>3, <2>1, HoRowFacts DEF HoOwned
  <2>3. PICK r : r = [call EXCEPT !.pc = "write", !.id = i, !.doc = doc]
    OBVIOUS
  <2>4. r \in HoCalls /\ r.pc = "write" /\ r.id = i /\ r.doc = doc /\ r.add = call.add
    BY <2>2, <2>3 DEF HoCalls
  <2>5. HoGoto(c, r) /\ HoQuiet
    BY <1>2, <1>6, <2>1, <2>3 DEF HoQuiet
  <2>6. hoCall[c] # HoIdle /\ hoCall' = [hoCall EXCEPT ![c] = r]
    BY <1>1, <1>2, <2>5, HoGoes
  <2>7. u \notin hoMixed => doc = hoAsked[u]
    BY <1>3, <2>1 DEF HoSettled
  <2>8. HoGood(c, r)'
    BY <1>0, <1>1, <1>2, <1>6, <2>2, <2>4, <2>5, <2>7, HoSame DEF HoGood
  <2> QED
    BY <1>2, <1>3, <1>6, <2>4, <2>5, <2>6, <2>8, HoKeeps
<1> QED
  BY <1>0, <1>1, <1>5, <1>6 DEF ReadUserProfile

(* The edited document is written. *)
LEMMA HoWriteStep == ASSUME HoInv, NEW c \in HoClients, WriteUserProfile(c) PROVE HoInv'
<1>0. PICK u \in HoAll : u = HoOwner[c]
  BY HoOwnerFacts
<1>1. PICK call \in HoCalls : call = hoCall[c] /\ HoGood(c, call)
  BY DEF HoInv, HoTyped
<1>2. PICK doc : doc = EditedDoc(call)
  OBVIOUS
<1>3. /\ call.pc = "write" /\ UNCHANGED <<hoEngine, hoActive, hoOwn, hoMixed>>
      /\ hoRows' = UpdateRow(call.id, u, doc) /\ HoGoto(c, HoIdle)
      /\ hoAsked' = [hoAsked EXCEPT ![u] = (hoAsked[u] \cup call.add) \ call.drop]
  BY <1>0, <1>1, <1>2 DEF WriteUserProfile, HoAt, HoEdits, HoEnds
<1>4. doc = (call.doc \cup call.add) \ call.drop /\ doc \in SUBSET HoChannels
  BY <1>2 DEF EditedDoc, HoCalls
<1>5. /\ HoTyped /\ HoSettled(u) /\ HoOwned(u) /\ Len(hoRows) \in Nat /\ hoMixed \subseteq HoAll
      /\ hoAsked \in [HoAll -> SUBSET HoChannels]
  BY DEF HoInv, HoTyped
<1>6. HoUpdated(call.id, u, doc)
  BY <1>3, <1>4, <1>5, HoUpdates
<1>7. hoAsked' \in [HoAll -> SUBSET HoChannels] /\ \A v \in HoAll \ {u} : hoAsked'[v] = hoAsked[v]
  BY <1>3, <1>5 DEF HoCalls
<1>8. HoOthersKept(c)
  <2> SUFFICES ASSUME NEW v \in HoAll \ {u}
               PROVE  /\ RowsOf(v)' = RowsOf(v) /\ DefaultRows(v)' = DefaultRows(v)
                      /\ \A i \in RowsOf(v) : hoRows'[i].chans = hoRows[i].chans
                      /\ hoAsked'[v] = hoAsked[v]
    BY <1>0 DEF HoOthersKept
  <2>1. RowsOf(v) \subseteq 1 .. Len(hoRows) /\ RowsOf(u) \cap RowsOf(v) = {}
    BY <1>5, HoRowFacts
  <2> QED
    BY <1>6, <1>7, <2>1 DEF HoUpdated
<1>9. RowsOf(u) \subseteq 1 .. Len(hoRows) /\ DefaultRows(u) \subseteq RowsOf(u)
  BY <1>5, HoRowFacts
<1>10. HoSettled(u)'
  <2> SUFFICES ASSUME u \notin hoMixed
               PROVE  /\ \A i \in DefaultRows(u) : hoRows'[i].chans = hoAsked'[u]
                      /\ \A i, j \in DefaultRows(u) : i = j
    BY <1>3, <1>6 DEF HoSettled, HoUpdated
  <2>1. call.id \in DefaultRows(u) /\ call.doc = hoAsked[u]
    BY <1>0, <1>1, <1>3 DEF HoGood
  <2>2. hoAsked'[u] = doc
    BY <1>3, <1>4, <1>5, <2>1
  <2>3. \A i, j \in DefaultRows(u) : i = j
    BY <1>5 DEF HoSettled
  <2> QED
    BY <1>6, <1>9, <2>1, <2>2, <2>3 DEF HoUpdated
<1>11. HoOwned(u)'
  <2>1. doc \subseteq hoOwn[u]
    BY <1>0, <1>1, <1>3, <1>4 DEF HoGood
  <2> QED
    BY <1>3, <1>5, <1>6, <1>9, <2>1 DEF HoUpdated, HoOwned
<1> QED
  BY <1>0, <1>1, <1>3, <1>5, <1>6, <1>7, <1>8, <1>10, <1>11, HoEnding DEF HoUpdated

(* A profile is inserted, unless its name is taken. *)
LEMMA HoInsertStep == ASSUME HoInv, NEW c \in HoClients, InsertProfile(c) PROVE HoInv'
<1>0. PICK u \in HoAll : u = HoOwner[c]
  BY HoOwnerFacts
<1>1. PICK call \in HoCalls : call = hoCall[c] /\ HoGood(c, call)
  BY DEF HoInv, HoTyped
<1>2. PICK r : r = IF call.op = "create" THEN HoIdle
                   ELSE [HoIdle EXCEPT !.pc = "read", !.op = "edit", !.add = call.add, !.drop = call.drop]
  OBVIOUS
<1>3. PICK row : row = [user |-> u, name |-> call.name, kind |-> call.kind, chans |-> call.doc]
  OBVIOUS
<1>4. /\ call.pc = "insert" /\ HoGoto(c, r) /\ UNCHANGED <<hoEngine, hoActive, hoMixed>>
      /\ \/ UNCHANGED <<hoRows, hoAsked, hoOwn>>
         \/ /\ hoRows' = Append(hoRows, row)
            /\ hoAsked' = IF call.kind = "default" THEN [hoAsked EXCEPT ![u] = call.doc] ELSE hoAsked
            /\ hoOwn' = [hoOwn EXCEPT ![u] = hoOwn[u] \cup call.doc]
  BY <1>0, <1>1, <1>2, <1>3 DEF InsertProfile, HoAt
<1>5. /\ r \in HoCalls /\ r.id = 0 /\ r.pc \in {"idle", "read"}
      /\ r.add = {} \/ r.add = call.add
  <2>1. call.add \in SUBSET HoChannels /\ call.drop \in SUBSET HoChannels
    BY DEF HoCalls
  <2> QED
    BY <1>2, <2>1, HostedConstants DEF HoIdle, HoCalls
<1>6. /\ HoTyped /\ HoSettled(u) /\ HoOwned(u) /\ Len(hoRows) \in Nat /\ hoMixed \subseteq HoAll
      /\ hoAsked \in [HoAll -> SUBSET HoChannels] /\ hoOwn \in [HoAll -> SUBSET HoChannels]
      /\ hoEngine \subseteq HoChannels /\ hoActive.id <= Len(hoRows)
      /\ hoActive \in [id : Nat, chans : SUBSET HoChannels]
  BY DEF HoInv, HoTyped
<1>7. call.add \subseteq hoOwn[u] /\ hoCall[c] # HoIdle /\ hoCall' = [hoCall EXCEPT ![c] = r]
  BY <1>0, <1>1, <1>4, HoGoes DEF HoGood
<1>8. CASE UNCHANGED <<hoRows, hoAsked, hoOwn>>
  <2>1. HoQuiet
    BY <1>8 DEF HoQuiet
  <2>2. HoGood(c, r)'
    BY <1>0, <1>4, <1>5, <1>6, <1>7, <1>8, <2>1, HoSame
  <2> QED
    BY <1>4, <1>5, <1>6, <1>7, <1>8, <2>1, <2>2, HoKeeps
<1>9. CASE /\ hoRows' = Append(hoRows, row)
           /\ hoAsked' = IF call.kind = "default" THEN [hoAsked EXCEPT ![u] = call.doc] ELSE hoAsked
           /\ hoOwn' = [hoOwn EXCEPT ![u] = hoOwn[u] \cup call.doc]
  <2>1. /\ row \in HoRowSet /\ row.kind # "gone" /\ row.user = u /\ row.kind = call.kind /\ row.chans = call.doc
        /\ call.doc \subseteq HoChannels
    BY <1>3 DEF HoRowSet, HoCalls, HoKinds
  <2>2. PICK n \in Nat : n = Len(hoRows)
    BY <1>6
  <2>3. /\ hoRows' \in Seq(HoRowSet) /\ Len(hoRows') = n + 1
        /\ \A v \in HoAll : RowsOf(v)' = RowsOf(v) \cup (IF v = u THEN {n + 1} ELSE {})
        /\ \A v \in HoAll : DefaultRows(v)' =
             DefaultRows(v) \cup (IF v = u /\ call.kind = "default" THEN {n + 1} ELSE {})
        /\ \A j \in 1 .. n : hoRows'[j] = hoRows[j]
        /\ hoRows'[n + 1] = row
    BY <1>6, <1>9, <2>1, <2>2, HoInserts
  <2>4. \A v \in HoAll : RowsOf(v) \subseteq 1 .. n /\ DefaultRows(v) \subseteq RowsOf(v)
    BY <1>6, <2>2, HoRowFacts
  <2>5. /\ hoOwn' \in [HoAll -> SUBSET HoChannels] /\ hoAsked' \in [HoAll -> SUBSET HoChannels]
        /\ \A v \in HoAll : hoOwn[v] \subseteq hoOwn'[v]
        /\ \A v \in HoAll \ {u} : hoAsked'[v] = hoAsked[v]
        /\ call.doc \subseteq hoOwn'[u]
        /\ hoAsked'[u] = IF call.kind = "default" THEN call.doc ELSE hoAsked[u]
    BY <1>6, <1>9, <2>1
  <2>6. HoTyped'
    BY <1>4, <1>5, <1>6, <1>7, <2>2, <2>3, <2>5 DEF HoTyped
  <2>7. HoOthersKept(c)
    BY <1>0, <2>3, <2>4, <2>5 DEF HoOthersKept
  <2>8. \A v \in HoAll : RowsOf(v)' \cap (1 .. n) \subseteq RowsOf(v)
    BY <2>3
  <2>9. HoGrows
    BY <1>4, <2>2, <2>3, <2>5, <2>8 DEF HoGrows
  <2>10. HoDocOk(hoActive.id, hoActive.chans)'
    <3>1. \A v \in HoAll : hoActive.id \in RowsOf(v)' => hoActive.id \in RowsOf(v)
      BY <1>6, <2>2, <2>3
    <3> QED
      BY <1>4, <2>5, <3>1 DEF HoInv, HoDocOk
  <2>11. HoGood(c, r)'
    BY <1>0, <1>5, <1>7, <2>2, <2>3, <2>5 DEF HoGood, HoDocOk
  <2>12. HoOwned(u)'
    <3>1. \A i \in RowsOf(u)' : i = n + 1 \/ i \in RowsOf(u)
      BY <2>3
    <3> QED
      BY <1>6, <2>1, <2>3, <2>4, <2>5, <3>1 DEF HoOwned
  <2>13. HoSettled(u)'
    <3>1. CASE u \in hoMixed
      BY <1>4, <3>1 DEF HoSettled
    <3>2. CASE u \notin hoMixed /\ call.kind = "default"
      <4>1. RowsOf(u) = {} /\ DefaultRows(u)' = {n + 1}
        BY <1>0, <1>1, <1>4, <2>3, <2>4, <3>2 DEF HoGood
      <4> QED
        BY <2>1, <2>3, <2>5, <3>2, <4>1 DEF HoSettled
    <3>3. CASE u \notin hoMixed /\ call.kind # "default"
      <4>1. DefaultRows(u)' = DefaultRows(u) /\ hoAsked'[u] = hoAsked[u]
        BY <2>3, <2>5, <3>3
      <4>2. \A i \in DefaultRows(u) : hoRows'[i] = hoRows[i]
        BY <2>3, <2>4
      <4> QED
        BY <1>4, <1>6, <4>1, <4>2 DEF HoSettled
    <3> QED
      BY <3>1, <3>2, <3>3
  <2> QED
    BY <1>0, <1>5, <1>7, <2>6, <2>7, <2>9, <2>10, <2>11, <2>12, <2>13, HoMoves
<1> QED
  BY <1>4, <1>8, <1>9

(* A profile is deleted. *)
LEMMA HoDeleteStep == ASSUME HoInv, NEW c \in HoClients, DeleteProfile(c) PROVE HoInv'
<1>0. PICK u \in HoAll : u = HoOwner[c]
  BY HoOwnerFacts
<1>1. PICK i : i = hoCall[c].id
  OBVIOUS
<1>2. /\ hoCall[c].pc = "delete" /\ HoGoto(c, HoIdle) /\ UNCHANGED <<hoEngine, hoActive, hoAsked, hoOwn, hoMixed>>
      /\ hoRows' = IF i \in RowsOf(u) THEN [hoRows EXCEPT ![i] = [hoRows[i] EXCEPT !.kind = "gone"]] ELSE hoRows
  BY <1>0, <1>1 DEF DeleteProfile, HoAt, HoEnds
<1>3. /\ HoTyped /\ HoSettled(u) /\ HoOwned(u) /\ Len(hoRows) \in Nat /\ hoMixed \subseteq HoAll
      /\ hoAsked \in [HoAll -> SUBSET HoChannels] /\ hoRows \in Seq(HoRowSet)
  BY DEF HoInv, HoTyped
<1>4. \A v \in HoAll : RowsOf(v) \subseteq 1 .. Len(hoRows) /\ DefaultRows(v) \subseteq RowsOf(v)
  BY <1>3, HoRowFacts
<1>5. \A v \in HoAll \ {u} : RowsOf(u) \cap RowsOf(v) = {}
  BY <1>3, HoRowFacts
<1>6. /\ hoRows' \in Seq(HoRowSet) /\ Len(hoRows') = Len(hoRows)
      /\ \A v \in HoAll : RowsOf(v)' \subseteq RowsOf(v) /\ DefaultRows(v)' \subseteq DefaultRows(v)
      /\ \A v \in HoAll \ {u} : RowsOf(v)' = RowsOf(v) /\ DefaultRows(v)' = DefaultRows(v)
      /\ \A j \in 1 .. Len(hoRows) : hoRows'[j].chans = hoRows[j].chans
  <2>1. CASE i \in RowsOf(u)
    <3>1. i \in 1 .. Len(hoRows) /\ hoRows' = [hoRows EXCEPT ![i] = [hoRows[i] EXCEPT !.kind = "gone"]]
      BY <1>2, <1>4, <2>1
    <3>2. /\ hoRows' \in Seq(HoRowSet) /\ Len(hoRows') = Len(hoRows)
          /\ \A v \in HoAll : RowsOf(v)' = RowsOf(v) \ {i} /\ DefaultRows(v)' = DefaultRows(v) \ {i}
          /\ \A j \in 1 .. Len(hoRows) : hoRows'[j].chans = hoRows[j].chans
      BY <1>3, <3>1, HoDeletes
    <3>3. ASSUME NEW v \in HoAll \ {u} PROVE RowsOf(v)' = RowsOf(v) /\ DefaultRows(v)' = DefaultRows(v)
      <4>1. i \notin RowsOf(v) /\ i \notin DefaultRows(v)
        BY <1>4, <1>5, <2>1
      <4> QED
        BY <3>2, <4>1
    <3>4. \A v \in HoAll : RowsOf(v)' \subseteq RowsOf(v) /\ DefaultRows(v)' \subseteq DefaultRows(v)
      BY <3>2
    <3> QED
      BY <3>2, <3>3, <3>4
  <2>2. CASE i \notin RowsOf(u)
    <3>1. hoRows' = hoRows
      BY <1>2, <2>2
    <3> QED
      BY <1>3, <3>1 DEF RowsOf, DefaultRows
  <2> QED
    BY <2>1, <2>2
<1>7. HoOthersKept(c)
  BY <1>0, <1>2, <1>4, <1>6 DEF HoOthersKept
<1>8. HoSettled(u)' /\ HoOwned(u)'
  BY <1>2, <1>3, <1>4, <1>6 DEF HoSettled, HoOwned
<1> QED
  BY <1>0, <1>2, <1>3, <1>6, <1>7, <1>8, HoEnding

(* The active document is saved. *)
LEMMA HoSaveStep == ASSUME HoInv, NEW c \in HoClients, SaveProfile(c) PROVE HoInv'
<1>0. PICK u \in HoAll : u = HoOwner[c]
  BY HoOwnerFacts
<1>1. PICK call \in HoCalls : call = hoCall[c] /\ HoGood(c, call)
  BY DEF HoInv, HoTyped
<1>2. /\ call.pc = "save" /\ HoGoto(c, HoIdle) /\ UNCHANGED <<hoEngine, hoActive, hoAsked, hoOwn>>
      /\ hoRows' = UpdateRow(call.id, u, call.doc)
      /\ hoMixed' = IF call.id \in RowsOf(u) THEN hoMixed \cup {u} ELSE hoMixed
  BY <1>0, <1>1 DEF SaveProfile, HoAt
<1>3. /\ HoTyped /\ HoSettled(u) /\ HoOwned(u) /\ Len(hoRows) \in Nat /\ hoMixed \subseteq HoAll
      /\ hoAsked \in [HoAll -> SUBSET HoChannels] /\ call.doc \in SUBSET HoChannels
  BY DEF HoInv, HoTyped, HoCalls
<1>4. HoUpdated(call.id, u, call.doc)
  BY <1>2, <1>3, HoUpdates
<1>5. \A v \in HoAll : RowsOf(v) \subseteq 1 .. Len(hoRows) /\ DefaultRows(v) \subseteq RowsOf(v)
  BY <1>3, HoRowFacts
<1>6. HoOthersKept(c)
  <2> SUFFICES ASSUME NEW v \in HoAll \ {u}
               PROVE  /\ RowsOf(v)' = RowsOf(v) /\ DefaultRows(v)' = DefaultRows(v)
                      /\ \A i \in RowsOf(v) : hoRows'[i].chans = hoRows[i].chans
                      /\ hoAsked'[v] = hoAsked[v]
    BY <1>0 DEF HoOthersKept
  <2>1. RowsOf(u) \cap RowsOf(v) = {}
    BY <1>3, HoRowFacts
  <2> QED
    BY <1>2, <1>4, <1>5, <2>1 DEF HoUpdated
<1>7. HoSettled(u)'
  BY <1>2, <1>3, <1>4, <1>5 DEF HoSettled, HoUpdated
<1>8. HoOwned(u)'
  <2>1. call.id \in RowsOf(u) => call.doc \subseteq hoOwn[u]
    BY <1>1, <1>2 DEF HoGood, HoDocOk
  <2> QED
    BY <1>2, <1>3, <1>4, <1>5, <2>1 DEF HoUpdated, HoOwned
<1> QED
  BY <1>0, <1>1, <1>2, <1>3, <1>4, <1>6, <1>7, <1>8, HoEnding DEF HoUpdated

(* The daemon restarts. *)
LEMMA HoRestartStep == ASSUME HoInv, HostedRestart PROVE HoInv'
<1>1. /\ UNCHANGED <<hoRows, hoAsked, hoOwn, hoMixed>> /\ hoActive' = [id |-> 0, chans |-> {}]
      /\ hoCall' = [c \in HoClients |-> HoIdle]
      /\ hoEngine' \in SUBSET UNION {hoRows[i].chans : i \in RowsOf(Local)}
  BY DEF HostedRestart
<1>2. HoTyped /\ Len(hoRows) \in Nat /\ Local \in HoAll
  BY DEF HoInv, HoTyped, HoAll
<1>3. hoEngine' \subseteq HoChannels
  BY <1>1, <1>2, HoRowFacts
<1>4. HoTyped'
  BY <1>1, <1>2, <1>3, HoIdleFacts DEF HoTyped
<1>5. \A v : RowsOf(v)' = RowsOf(v) /\ DefaultRows(v)' = DefaultRows(v)
  BY <1>1 DEF RowsOf, DefaultRows
<1>6. HoAlone'
  BY <1>1 DEF HoAlone, HoIdle
<1>7. HoDocOk(hoActive.id, hoActive.chans)'
  BY <1>1 DEF HoDocOk, RowsOf
<1>8. ASSUME NEW c \in HoClients PROVE HoGood(c, hoCall[c])'
  <2>1. hoCall'[c] = HoIdle
    BY <1>1
  <2> QED
    BY <1>1, <1>2, <2>1, HoIdleFacts DEF HoGood
<1>9. ASSUME NEW u \in HoAll PROVE HoSettled(u)' /\ HoOwned(u)'
  BY <1>1, <1>5 DEF HoInv, HoSettled, HoOwned
<1> QED
  BY <1>4, <1>6, <1>7, <1>8, <1>9 DEF HoInv

(* What hosted users do keeps the invariant. *)
LEMMA HostedStep == ASSUME HoInv, [HostedNext]_hoVars PROVE HoInv'
<1>1. CASE HostedRestart
  BY <1>1, HoRestartStep
<1>2. CASE UNCHANGED hoVars
  <2>1. HoTyped'
    BY <1>2 DEF hoVars, HoInv, HoTyped
  <2>2. UNCHANGED <<hoRows, hoActive, hoCall, hoAsked, hoOwn, hoMixed>>
    BY <1>2 DEF hoVars
  <2>3. \A v : RowsOf(v)' = RowsOf(v) /\ DefaultRows(v)' = DefaultRows(v)
    BY <2>2 DEF RowsOf, DefaultRows
  <2> QED
    BY <2>1, <2>2, <2>3 DEF HoInv, HoAlone, HoDocOk, HoGood, HoSettled, HoOwned
<1>3. ASSUME NEW c \in HoClients,
             \/ EnsureUserProfile(c) \/ ReadUserProfile(c) \/ WriteUserProfile(c)
             \/ CountProfiles(c) \/ InsertProfile(c) \/ DeleteProfile(c)
             \/ MethodSaves(c) \/ HostedSetFilters(c) \/ SaveProfile(c)
             \/ \E i \in 1 .. Len(hoRows) : HostedDelete(c, i) \/ HostedActivate(c, i)
             \/ \E chans \in SUBSET HoChannels :
                  HostedSetMethod(c, chans) \/ \E name \in HoNames : HostedCreate(c, name, chans)
             \/ \E ch \in HoChannels : HostedLeave(c, ch) \/ ActivateLeaves(c, ch) \/ MethodLeaves(c, ch)
             \/ \E ok \in BOOLEAN :
                  \/ ActivateSwaps(c, ok) \/ MethodJoins(c, ok)
                  \/ \E ch \in HoChannels : HostedJoin(c, ch, ok) \/ ActivateJoins(c, ch, ok)
      PROVE  HoInv'
  <2>1. CASE EnsureUserProfile(c) \/ CountProfiles(c) \/ MethodSaves(c)
    BY <2>1, HoMiddleSteps
  <2>2. CASE ReadUserProfile(c) \/ WriteUserProfile(c) \/ InsertProfile(c) \/ DeleteProfile(c) \/ SaveProfile(c)
    BY <2>2, HoReadStep, HoWriteStep, HoInsertStep, HoDeleteStep, HoSaveStep
  <2>3. CASE HostedSetFilters(c)
    BY <2>3, HoBeginSteps
  <2>4. CASE \E i \in 1 .. Len(hoRows) : HostedDelete(c, i) \/ HostedActivate(c, i)
    BY <2>4, HoBeginSteps
  <2>5. CASE \E chans \in SUBSET HoChannels :
               HostedSetMethod(c, chans) \/ \E name \in HoNames : HostedCreate(c, name, chans)
    BY <2>5, HoBeginSteps
  <2>6. CASE \E ch \in HoChannels : HostedLeave(c, ch)
    BY <2>6, HoBeginSteps
  <2>7. CASE \E ch \in HoChannels : ActivateLeaves(c, ch) \/ MethodLeaves(c, ch)
    BY <2>7, HoMiddleSteps
  <2>8. CASE \E ok \in BOOLEAN :
               \/ ActivateSwaps(c, ok) \/ MethodJoins(c, ok)
               \/ \E ch \in HoChannels : ActivateJoins(c, ch, ok)
    BY <2>8, HoMiddleSteps
  <2>9. CASE \E ok \in BOOLEAN, ch \in HoChannels : HostedJoin(c, ch, ok)
    BY <2>9, HoBeginSteps
  <2> QED
    BY <1>3, <2>1, <2>2, <2>3, <2>4, <2>5, <2>6, <2>7, <2>8, <2>9
<1> QED
  BY <1>1, <1>2, <1>3 DEF HostedNext

(* It holds at the start. *)
LEMMA HostedStarts == HostedInit => HoInv
<1> SUFFICES ASSUME HostedInit PROVE HoInv
  OBVIOUS
<1>1. PICK S \in SUBSET HoChannels :
        /\ hoRows \in {<<>>, <<[user |-> Local, name |-> "default", kind |-> "default", chans |-> S]>>}
        /\ hoEngine \in SUBSET S /\ (hoRows = <<>> => S = {})
        /\ hoAsked = [u \in HoUsers \cup {Local} |-> IF u = Local THEN S ELSE {}]
        /\ hoOwn = hoAsked
  BY DEF HostedInit
<1>2. hoActive = [id |-> 0, chans |-> {}] /\ hoCall = [c \in HoClients |-> HoIdle] /\ hoMixed = {}
  BY DEF HostedInit
<1>3. PICK row : row = [user |-> Local, name |-> "default", kind |-> "default", chans |-> S]
  OBVIOUS
<1>4. row \in HoRowSet /\ row.user = Local /\ row.kind = "default" /\ row.chans = S
  BY <1>3 DEF HoRowSet, HoAll, HoKinds
<1>5. hoRows = <<>> \/ hoRows = <<row>>
  BY <1>1, <1>3
<1>6. /\ hoRows \in Seq(HoRowSet) /\ Len(hoRows) \in {0, 1}
      /\ Len(hoRows) = 1 => hoRows[1] = row
  <2>1. CASE hoRows = <<>>
    BY <2>1
  <2>2. CASE hoRows = <<row>>
    BY <1>4, <2>2
  <2> QED
    BY <1>5, <2>1, <2>2
<1>7. /\ hoAsked \in [HoAll -> SUBSET HoChannels] /\ hoOwn = hoAsked /\ Local \in HoAll /\ hoAsked[Local] = S
  BY <1>1 DEF HoAll
<1>8. HoTyped
  BY <1>1, <1>2, <1>6, <1>7, HoIdleFacts DEF HoTyped
<1>9. HoAlone /\ HoDocOk(hoActive.id, hoActive.chans)
  BY <1>2 DEF HoAlone, HoDocOk, RowsOf
<1>10. ASSUME NEW c \in HoClients PROVE HoGood(c, hoCall[c])
  BY <1>2, <1>6, HoIdleFacts DEF HoGood
<1>11. \A u \in HoAll : \A i \in RowsOf(u) : i = 1 /\ u = Local /\ hoRows[i].chans = S
  BY <1>4, <1>6 DEF RowsOf
<1>12. ASSUME NEW u \in HoAll PROVE HoSettled(u) /\ HoOwned(u)
  <2>1. DefaultRows(u) \subseteq RowsOf(u)
    BY <1>8, HoRowFacts
  <2> QED
    BY <1>7, <1>11, <2>1 DEF HoSettled, HoOwned
<1> QED
  BY <1>8, <1>9, <1>10, <1>12 DEF HoInv

-----------------------------------------------------------------------------
(* Access: records and lists.                                                 *)

(* The records a request can have. *)
LEMMA AcCallFacts ==
  /\ Idle \in AcCalls /\ Idle.pc = "idle" /\ [pc |-> "dump"] \in AcCalls
  /\ \A d \in Blanks : [pc |-> "put", data |-> d] \in AcCalls
  /\ \A pc \in {"login", "compare"}, u \in AcUsers, good \in BOOLEAN :
       [pc |-> pc, user |-> u, good |-> good] \in AcCalls
  /\ \A pc \in {"verify", "resolve", "serve"}, t \in ApiTokens \cup {Root}, s \in Sessions, need \in Scopes,
        u \in AcUsers \cup {NoSession}, D \in SUBSET AcSecrets :
       [pc |-> pc, token |-> t, session |-> s, need |-> need, user |-> u, dead |-> D] \in AcCalls
<1>1. Idle \in AcCalls /\ Idle.pc = "idle" /\ [pc |-> "dump"] \in AcCalls
  BY DEF Idle, AcCalls
<1>2. \A d \in Blanks : [pc |-> "put", data |-> d] \in AcCalls
  BY DEF AcCalls
<1>3. \A pc \in {"login", "compare"}, u \in AcUsers, good \in BOOLEAN :
        [pc |-> pc, user |-> u, good |-> good] \in AcCalls
  BY DEF AcCalls
<1>4. \A pc \in {"verify", "resolve", "serve"}, t \in ApiTokens \cup {Root}, s \in Sessions, need \in Scopes,
         u \in AcUsers \cup {NoSession}, D \in SUBSET AcSecrets :
        [pc |-> pc, token |-> t, session |-> s, need |-> need, user |-> u, dead |-> D] \in AcCalls
  BY DEF AcCalls
<1> QED
  BY <1>1, <1>2, <1>3, <1>4

LEMMA AcRecords ==
  ASSUME NEW r \in AcCalls
  PROVE  /\ r.pc = "put" => r.data \in Blanks
         /\ r.pc \in {"login", "compare"} => r.user \in AcUsers /\ r.good \in BOOLEAN
         /\ r.pc = "login" => [r EXCEPT !.pc = "compare"] = [pc |-> "compare", user |-> r.user, good |-> r.good]
         /\ r.pc \in {"verify", "resolve", "serve"} =>
              /\ r.token \in ApiTokens \cup {Root} /\ r.session \in Sessions /\ r.need \in Scopes
              /\ r.user \in AcUsers \cup {NoSession} /\ r.dead \in SUBSET AcSecrets
              /\ \A pc \in {"resolve", "serve"} :
                   [r EXCEPT !.pc = pc] = [pc |-> pc, token |-> r.token, session |-> r.session, need |-> r.need,
                                           user |-> r.user, dead |-> r.dead]
              /\ \A u : [r EXCEPT !.pc = "serve", !.user = u] =
                          [pc |-> "serve", token |-> r.token, session |-> r.session, need |-> r.need,
                           user |-> u, dead |-> r.dead]
<1>1. CASE r \in [pc : {"idle", "dump"}]
  BY <1>1
<1>2. CASE r \in [pc : {"put"}, data : Blanks]
  BY <1>2
<1>3. CASE r \in [pc : {"login", "compare"}, user : AcUsers, good : BOOLEAN]
  <2>1. r.pc \in {"login", "compare"} /\ r.user \in AcUsers /\ r.good \in BOOLEAN
    BY <1>3
  <2>2. [r EXCEPT !.pc = "compare"] = [pc |-> "compare", user |-> r.user, good |-> r.good]
    BY <1>3
  <2> QED
    BY <2>1, <2>2
<1>4. CASE r \in [pc : {"verify", "resolve", "serve"}, token : ApiTokens \cup {Root}, session : Sessions,
                  need : Scopes, user : AcUsers \cup {NoSession}, dead : SUBSET AcSecrets]
  <2>1. /\ r.pc \in {"verify", "resolve", "serve"} /\ r.token \in ApiTokens \cup {Root} /\ r.session \in Sessions
        /\ r.need \in Scopes /\ r.user \in AcUsers \cup {NoSession} /\ r.dead \in SUBSET AcSecrets
    BY <1>4
  <2>2. \A pc \in {"resolve", "serve"} :
          [r EXCEPT !.pc = pc] = [pc |-> pc, token |-> r.token, session |-> r.session, need |-> r.need,
                                  user |-> r.user, dead |-> r.dead]
    BY <1>4
  <2>3. \A u : [r EXCEPT !.pc = "serve", !.user = u] =
                 [pc |-> "serve", token |-> r.token, session |-> r.session, need |-> r.need, user |-> u, dead |-> r.dead]
    <3> SUFFICES ASSUME NEW u
                 PROVE  [r EXCEPT !.pc = "serve", !.user = u] =
                          [pc |-> "serve", token |-> r.token, session |-> r.session, need |-> r.need,
                           user |-> u, dead |-> r.dead]
      OBVIOUS
    <3>1. PICK q : q = [r EXCEPT !.pc = "serve"]
      OBVIOUS
    <3>2. q = [pc |-> "serve", token |-> r.token, session |-> r.session, need |-> r.need,
               user |-> r.user, dead |-> r.dead]
      BY <2>2, <3>1
    <3>3. [q EXCEPT !.user = u] = [pc |-> "serve", token |-> r.token, session |-> r.session, need |-> r.need,
                                   user |-> u, dead |-> r.dead]
      BY <3>2
    <3>4. [r EXCEPT !.pc = "serve", !.user = u] = [q EXCEPT !.user = u]
      BY <1>4, <3>1
    <3> QED
      BY <3>3, <3>4
  <2> QED
    BY <2>1, <2>2, <2>3
<1> QED
  BY <1>1, <1>2, <1>3, <1>4 DEF AcCalls

(* What remains of a list without one element. *)
LEMMA RemoveAtFacts ==
  ASSUME NEW T, NEW s \in Seq(T), NEW i \in 1 .. Len(s)
  PROVE  /\ RemoveAt(s, i) \in Seq(T) /\ Len(RemoveAt(s, i)) = Len(s) - 1
         /\ \A j \in 1 .. Len(s) - 1 : RemoveAt(s, i)[j] = s[IF j < i THEN j ELSE j + 1]
<1> DEFINE a == SubSeq(s, 1, i - 1)
           b == SubSeq(s, i + 1, Len(s))
<1>1. Len(s) \in Nat /\ \A j \in 1 .. Len(s) : s[j] \in T
  OBVIOUS
<1>2. a \in Seq(T) /\ Len(a) = i - 1 /\ \A j \in 1 .. i - 1 : a[j] = s[j]
  BY <1>1
<1>3. b \in Seq(T) /\ Len(b) = Len(s) - i /\ \A j \in 1 .. Len(s) - i : b[j] = s[i + j]
  BY <1>1
<1>4. RemoveAt(s, i) = a \o b
  BY DEF RemoveAt
<1> HIDE DEF a, b
<1>5. a \o b \in Seq(T) /\ Len(a \o b) = Len(a) + Len(b)
  BY <1>2, <1>3, ConcatProperties
<1>6. ASSUME NEW j \in 1 .. Len(s) - 1 PROVE (a \o b)[j] = s[IF j < i THEN j ELSE j + 1]
  <2>1. CASE j < i
    <3>1. (a \o b)[j] = a[j]
      BY <1>1, <1>2, <1>3, <2>1
    <3> QED
      BY <1>2, <2>1, <3>1
  <2>2. CASE ~(j < i)
    <3>1. j - (i - 1) \in 1 .. Len(s) - i
      BY <1>1, <2>2
    <3>2. (a \o b)[j] = b[j - (i - 1)]
      BY <1>1, <1>2, <1>3, <2>2, <3>1
    <3>3. i + (j - (i - 1)) = j + 1
      BY <1>1
    <3> QED
      BY <1>3, <2>2, <3>1, <3>2, <3>3
  <2> QED
    BY <2>1, <2>2
<1> QED
  BY <1>1, <1>2, <1>3, <1>4, <1>5, <1>6

(* What DumpJSON writes, and what a restart reads back. *)
LEMMA BlankFacts ==
  /\ \A rows \in Seq(TokenRows) : DumpJSON(rows) \in Blanks
  /\ Blanks \subseteq Seq(TokenRows)
  /\ \A rows \in Blanks : \A i \in 1 .. Len(rows) : rows[i].secret \notin ApiTokens
<1>1. BlankRow \in TokenRows /\ BlankRow.secret = "blank"
  BY DEF BlankRow, TokenRows
<1>2. ASSUME NEW rows \in Seq(TokenRows) PROVE DumpJSON(rows) \in Blanks
  <2>1. Len(rows) \in Nat
    OBVIOUS
  <2>2. DumpJSON(rows) \in [1 .. Len(rows) -> {BlankRow}]
    BY DEF DumpJSON
  <2> QED
    BY <2>1, <2>2 DEF Blanks
<1>3. Blanks \subseteq Seq(TokenRows)
  BY <1>1 DEF Blanks
<1>4. ASSUME NEW rows \in Blanks, NEW i \in 1 .. Len(rows) PROVE rows[i].secret \notin ApiTokens
  <2>1. rows[i] = BlankRow
    BY DEF Blanks
  <2> QED
    BY <1>1, <2>1, AccessConstants
<1> QED
  BY <1>2, <1>3, <1>4

(* The requests that compare a password, as a part of all requests. *)
LEMMA ComparingFacts ==
  /\ Cardinality(AcClients) \in Nat
  /\ \A S \in SUBSET AcClients : IsFiniteSet(S) /\ Cardinality(S) \in Nat /\ Cardinality(S) <= Cardinality(AcClients)
BY AccessConstants, FS_Subset, FS_CardinalityType

-----------------------------------------------------------------------------
(* Access: what a step leaves as it is.                                       *)

(* Nothing a request relies on is taken back. *)
AcGrows ==
  /\ AcDead \subseteq AcDead' /\ acUsers \subseteq acUsers' /\ acHosted' = acHosted
  /\ DOMAIN acMinted \subseteq DOMAIN acMinted' /\ \A t \in DOMAIN acMinted : acMinted'[t] = acMinted[t]

LEMMA HeldStays == ASSUME AcGrows, NEW r, AcHeld(r) PROVE AcHeld(r)'
<1>1. r.pc \in {"verify", "resolve", "serve"} => r.dead \subseteq AcDead'
  BY DEF AcHeld, AcGrows
<1>2. r.pc \in {"resolve", "serve"} /\ r.token # Root =>
        /\ r.token \in DOMAIN acMinted' /\ HasScope(acMinted'[r.token], r.need)
        /\ r.token \notin r.dead
  BY DEF AcHeld, AcGrows
<1>3. r.pc = "serve" /\ acHosted' => r.user \in acUsers' /\ r.session \notin r.dead
  BY DEF AcHeld, AcGrows
<1> QED
  BY <1>1, <1>2, <1>3 DEF AcHeld

(* One request goes on. *)
LEMMA AcMoves ==
  ASSUME AcTyped, AcAsked, AcGrows, NEW c \in AcClients, NEW r \in AcCalls,
         acCall' = [acCall EXCEPT ![c] = r], AcHeld(r)'
  PROVE  /\ acCall' \in [AcClients -> AcCalls] /\ AcAsked'
         /\ AcComparing' \subseteq AcComparing \cup {c}
         /\ r.pc # "compare" => AcComparing' = AcComparing \ {c}
<1>1. acCall' \in [AcClients -> AcCalls] /\ acCall'[c] = r /\ \A d \in AcClients \ {c} : acCall'[d] = acCall[d]
  BY DEF AcTyped
<1>2. ASSUME NEW d \in AcClients PROVE AcHeld(acCall[d])'
  <2>1. CASE d = c
    <3>1. acCall'[d] = r
      BY <1>1, <2>1
    <3> QED
      BY <3>1 DEF AcHeld
  <2>2. CASE d # c
    <3>1. acCall'[d] = acCall[d] /\ AcHeld(acCall[d])
      BY <1>1, <2>2 DEF AcAsked
    <3>2. PICK p : p = acCall[d]
      OBVIOUS
    <3>3. AcHeld(p)
      BY <3>1, <3>2
    <3>4. AcHeld(p)'
      BY <3>3, HeldStays
    <3> QED
      BY <3>1, <3>2, <3>4 DEF AcHeld
  <2> QED
    BY <2>1, <2>2
<1>3. AcComparing' = {d \in AcClients : acCall'[d].pc = "compare"}
  BY DEF AcComparing
<1>4. AcComparing' \subseteq AcComparing \cup {c}
  BY <1>1, <1>3 DEF AcComparing
<1>5. r.pc # "compare" => AcComparing' = AcComparing \ {c}
  BY <1>1, <1>3 DEF AcComparing
<1> QED
  BY <1>1, <1>2, <1>4, <1>5 DEF AcAsked

(* No request goes on. *)
LEMMA AcWaits ==
  ASSUME AcAsked, AcGrows, acCall' = acCall
  PROVE  AcAsked' /\ AcComparing' = AcComparing
<1>1. ASSUME NEW d \in AcClients PROVE AcHeld(acCall[d])'
  <2>1. PICK p : p = acCall[d]
    OBVIOUS
  <2>2. AcHeld(p)
    BY <2>1 DEF AcAsked
  <2>3. AcHeld(p)'
    BY <2>2, HeldStays
  <2> QED
    BY <2>1, <2>3 DEF AcHeld
<1> QED
  BY <1>1 DEF AcAsked, AcComparing

(* Nobody failed a login and nobody passed rateOK. *)
LEMMA LimitKept ==
  ASSUME AcTyped, AcLimited, AcComparing' \subseteq AcComparing, acLimiter' = acLimiter,
         acNow' \in Nat, acNow' >= acNow
  PROVE  AcLimited'
<1>1. /\ Cardinality(AcComparing) \in Nat /\ Cardinality(AcComparing') \in Nat
      /\ Cardinality(AcComparing') <= Cardinality(AcComparing)
  <2>1. IsFiniteSet(AcComparing)
    BY ComparingFacts DEF AcComparing
  <2> QED
    BY <2>1, FS_Subset, FS_CardinalityType
<1>2. /\ acLimiter.count \in Nat /\ acLimiter.start \in Int /\ acNow \in Nat /\ Window \in Nat /\ Attempts \in Nat
      /\ Cardinality(AcClients) \in Nat
  BY AccessConstants, ComparingFacts DEF AcTyped
<1>3. /\ acLimiter.count <= Attempts + Cardinality(AcClients) - 1
      /\ acNow - acLimiter.start <= Window =>
           acLimiter.count + Cardinality(AcComparing) <= Attempts + Cardinality(AcClients) - 1
  BY DEF AcLimited
<1>4. acNow' - acLimiter'.start <= Window =>
        acLimiter'.count + Cardinality(AcComparing') <= Attempts + Cardinality(AcClients) - 1
  BY <1>1, <1>2, <1>3
<1> QED
  BY <1>3, <1>4 DEF AcLimited

(* Only the request of a client, and possibly the stored dump, changes. *)
LEMMA AcGoes ==
  ASSUME AcInv, NEW c \in AcClients, NEW r \in AcCalls, acCall' = [acCall EXCEPT ![c] = r],
         AcHeld(r), r.pc # "compare", acStored' \in Blanks,
         UNCHANGED <<acHosted, acRows, acUsers, acSession, acLimiter, acNow, acGone, acMinted>>
  PROVE  AcInv'
<1>1. AcGrows
  BY DEF AcGrows, AcDead
<1>2. AcHeld(r)'
  BY <1>1, HeldStays
<1>3. acCall' \in [AcClients -> AcCalls] /\ AcAsked' /\ AcComparing' \subseteq AcComparing
  BY <1>1, <1>2, AcMoves DEF AcInv
<1>4. AcTyped'
  BY <1>3 DEF AcInv, AcTyped
<1>5. AcKnown'
  BY DEF AcInv, AcKnown
<1>6. acNow' \in Nat /\ acNow' >= acNow
  BY DEF AcInv, AcTyped
<1>7. AcLimited'
  BY <1>3, <1>6, LimitKept DEF AcInv
<1> QED
  BY <1>3, <1>4, <1>5, <1>7 DEF AcInv

(* Sessions end: by a logout, by the sweeper or because they expired. *)
LEMMA AcDrops ==
  ASSUME AcTyped, AcKnown, NEW S, DropSessions(S), acGone' = acGone \cup (DOMAIN acSession \cap S),
         UNCHANGED <<acHosted, acRows, acStored, acUsers, acLimiter, acNow, acMinted>>
  PROVE  /\ AcGrows /\ AcKnown'
         /\ acCall' \in [AcClients -> AcCalls] => AcTyped'
<1>1. /\ DOMAIN acSession' = DOMAIN acSession \ S
      /\ \A x \in DOMAIN acSession' : acSession'[x] = acSession[x]
  BY DEF DropSessions
<1>2. AcDead \subseteq AcDead'
  <2> SUFFICES ASSUME NEW x \in AcDead PROVE x \in acGone' \cup {y \in DOMAIN acSession' : acNow' > acSession'[y].exp}
    BY DEF AcDead
  <2>1. CASE x \in acGone \cup S
    BY <2>1 DEF AcDead
  <2>2. CASE x \notin acGone \cup S
    <3>1. x \in DOMAIN acSession' /\ acSession'[x] = acSession[x] /\ acNow' > acSession[x].exp
      BY <1>1, <2>2 DEF AcDead
    <3> QED
      BY <3>1
  <2> QED
    BY <2>1, <2>2
<1>3. AcGrows
  BY <1>2 DEF AcGrows
<1>4. DOMAIN acSession \subseteq Sessions /\ Sessions \cap ApiTokens = {} /\ acGone \subseteq AcSecrets
  BY AccessConstants DEF AcTyped
<1>5. \A t \in ApiTokens : t \in acGone' => t \in acGone
  BY <1>4
<1>6. AcKnown'
  <2>1. \A i \in 1 .. Len(acRows') : acRows'[i].secret \in ApiTokens =>
          /\ acRows'[i].secret \in DOMAIN acMinted' /\ acRows'[i].scopes = acMinted'[acRows'[i].secret]
          /\ acRows'[i].secret \notin acGone'
          /\ \A j \in 1 .. Len(acRows') : acRows'[j].secret = acRows'[i].secret => j = i
    BY <1>5 DEF AcKnown
  <2>2. \A s \in acGone' : s \in DOMAIN acMinted' \/ (s \in Sessions /\ s \notin DOMAIN acSession')
    BY <1>1, <1>4 DEF AcKnown
  <2> QED
    BY <2>1, <2>2 DEF AcKnown
<1>7. ASSUME acCall' \in [AcClients -> AcCalls] PROVE AcTyped'
  <2>1. acGone' \subseteq AcSecrets
    BY <1>4 DEF AcSecrets
  <2>2. DOMAIN acSession' \subseteq Sessions
    BY <1>1, <1>4
  <2>3. \A s \in DOMAIN acSession' : acSession'[s].user \in acUsers' /\ acSession'[s].exp \in Int
    BY <1>1 DEF AcTyped
  <2> QED
    BY <1>7, <2>1, <2>2, <2>3 DEF AcTyped
<1> QED
  BY <1>3, <1>6, <1>7

-----------------------------------------------------------------------------
(* Access: every step.                                                        *)

(* Requests that change nothing but where they are. *)
LEMMA StepGoes ==
  ASSUME AcInv, NEW c \in AcClients,
         \/ PersistDumps(c) \/ PersistPuts(c) \/ ScopedVerifies(c) \/ Serve(c)
         \/ \E u \in AcUsers, good \in BOOLEAN : HandleHostedLogin(c, u, good)
         \/ \E t \in ApiTokens \cup {Root}, s \in Sessions, need \in Scopes : BeginRequest(c, t, s, need)
  PROVE  AcInv'
<1>1. /\ AcTyped /\ acRows \in Seq(TokenRows) /\ acStored \in Blanks /\ acCall[c] \in AcCalls /\ AcHeld(acCall[c])
      /\ acCall \in [AcClients -> AcCalls]
  BY DEF AcInv, AcTyped, AcAsked
<1>2. AcHeld(Idle)
  BY AcCallFacts DEF AcHeld
<1>3. CASE PersistDumps(c)
  <2> DEFINE d == DumpJSON(acRows)
  <2>1. d \in Blanks
    BY <1>1, BlankFacts
  <2>2. PICK r : r = [pc |-> "put", data |-> d]
    OBVIOUS
  <2>3. r \in AcCalls /\ r.pc = "put"
    BY <2>1, <2>2, AcCallFacts
  <2>4. /\ acCall' = [acCall EXCEPT ![c] = r] /\ acStored' = acStored
        /\ UNCHANGED <<acHosted, acRows, acUsers, acSession, acLimiter, acNow, acGone, acMinted>>
    BY <1>3, <2>2 DEF PersistDumps, AcGoto
  <2>5. AcHeld(r)
    BY <2>3 DEF AcHeld
  <2> QED
    BY <1>1, <2>3, <2>4, <2>5, AcGoes
<1>4. CASE PersistPuts(c)
  <2>1. /\ acCall' = [acCall EXCEPT ![c] = Idle] /\ acStored' = acCall[c].data /\ acCall[c].pc = "put"
        /\ UNCHANGED <<acHosted, acRows, acUsers, acSession, acLimiter, acNow, acGone, acMinted>>
    BY <1>4 DEF PersistPuts, AcGoto, AcAt
  <2>2. acStored' \in Blanks
    BY <1>1, <2>1, AcRecords
  <2>3. Idle \in AcCalls /\ Idle.pc # "compare"
    BY AcCallFacts
  <2> QED
    BY <1>2, <2>1, <2>2, <2>3, AcGoes
<1>5. CASE Serve(c)
  <2>1. /\ acCall' = [acCall EXCEPT ![c] = Idle] /\ acStored' = acStored
        /\ UNCHANGED <<acHosted, acRows, acUsers, acSession, acLimiter, acNow, acGone, acMinted>>
    BY <1>5 DEF Serve, AcGoto
  <2>2. Idle \in AcCalls /\ Idle.pc # "compare" /\ acStored' \in Blanks
    BY <1>1, <2>1, AcCallFacts
  <2> QED
    BY <1>2, <2>1, <2>2, AcGoes
<1>6. ASSUME NEW u \in AcUsers, NEW good \in BOOLEAN, HandleHostedLogin(c, u, good) PROVE AcInv'
  <2>1. PICK r : r = [pc |-> "login", user |-> u, good |-> good]
    OBVIOUS
  <2>2. /\ acCall' = [acCall EXCEPT ![c] = r] /\ acStored' = acStored
        /\ UNCHANGED <<acHosted, acRows, acUsers, acSession, acLimiter, acNow, acGone, acMinted>>
    BY <1>6, <2>1 DEF HandleHostedLogin, AcGoto
  <2>3. r \in AcCalls /\ r.pc = "login" /\ acStored' \in Blanks
    BY <1>1, <2>1, <2>2, AcCallFacts
  <2>4. AcHeld(r)
    BY <2>3 DEF AcHeld
  <2> QED
    BY <2>2, <2>3, <2>4, AcGoes
<1>7. ASSUME NEW t \in ApiTokens \cup {Root}, NEW s \in Sessions, NEW need \in Scopes, BeginRequest(c, t, s, need)
      PROVE  AcInv'
  <2>1. AcDead \in SUBSET AcSecrets
    BY <1>1 DEF AcTyped, AcDead, AcSecrets
  <2>2. PICK r : r = [pc |-> "verify", token |-> t, session |-> s, need |-> need, user |-> NoSession, dead |-> AcDead]
    OBVIOUS
  <2>3. /\ acCall' = [acCall EXCEPT ![c] = r] /\ acStored' = acStored
        /\ UNCHANGED <<acHosted, acRows, acUsers, acSession, acLimiter, acNow, acGone, acMinted>>
    BY <1>7, <2>2 DEF BeginRequest, AcGoto, AcDead
  <2>4. r \in AcCalls /\ r.pc = "verify" /\ r.dead = AcDead /\ acStored' \in Blanks
    BY <1>1, <2>1, <2>2, <2>3, AcCallFacts
  <2>5. AcHeld(r)
    BY <2>4 DEF AcHeld
  <2> QED
    BY <2>3, <2>4, <2>5, AcGoes
<1>8. CASE ScopedVerifies(c)
  <2>1. /\ acCall[c].pc = "verify" /\ acStored' = acStored /\ acStored' \in Blanks
        /\ UNCHANGED <<acHosted, acRows, acUsers, acSession, acLimiter, acNow, acGone, acMinted>>
    BY <1>1, <1>8 DEF ScopedVerifies, AcAt
  <2>2. CASE ~Admits(acCall[c].token, acCall[c].need)
    <3>1. acCall' = [acCall EXCEPT ![c] = Idle]
      BY <1>8, <2>2 DEF ScopedVerifies, AcGoto
    <3>2. Idle \in AcCalls /\ Idle.pc # "compare"
      BY AcCallFacts
    <3> QED
      BY <1>2, <2>1, <3>1, <3>2, AcGoes
  <2>3. CASE Admits(acCall[c].token, acCall[c].need)
    <3>1. PICK pc \in {"resolve", "serve"} :
            acCall' = [acCall EXCEPT ![c] = [acCall[c] EXCEPT !.pc = pc]] /\ (acHosted => pc = "resolve")
      <4>1. acCall' = [acCall EXCEPT ![c] = [acCall[c] EXCEPT !.pc = IF acHosted THEN "resolve" ELSE "serve"]]
        BY <1>8, <2>3 DEF ScopedVerifies, AcGoto
      <4> QED
        BY <4>1
    <3>2. PICK q : q = acCall[c]
      OBVIOUS
    <3>3. q \in AcCalls /\ AcHeld(q) /\ q.pc = "verify"
      BY <1>1, <2>1, <3>2
    <3>4. /\ q.token \in ApiTokens \cup {Root} /\ q.session \in Sessions /\ q.need \in Scopes
          /\ q.user \in AcUsers \cup {NoSession} /\ q.dead \in SUBSET AcSecrets
          /\ [q EXCEPT !.pc = pc] = [pc |-> pc, token |-> q.token, session |-> q.session, need |-> q.need,
                                     user |-> q.user, dead |-> q.dead]
      BY <3>3, AcRecords
    <3>5. PICK r : r = [pc |-> pc, token |-> q.token, session |-> q.session, need |-> q.need,
                        user |-> q.user, dead |-> q.dead]
      OBVIOUS
    <3>6. acCall' = [acCall EXCEPT ![c] = r]
      BY <3>1, <3>2, <3>4, <3>5
    <3>7. r \in AcCalls
      BY <3>4, <3>5, AcCallFacts
    <3>8. /\ r.pc = pc /\ r.token = q.token /\ r.need = q.need /\ r.dead = q.dead /\ q.dead \subseteq AcDead
      BY <3>3, <3>5 DEF AcHeld
    <3>9. q.token # Root =>
            q.token \in DOMAIN acMinted /\ HasScope(acMinted[q.token], q.need) /\ q.token \notin q.dead
      <4> SUFFICES ASSUME q.token # Root
                   PROVE q.token \in DOMAIN acMinted /\ HasScope(acMinted[q.token], q.need) /\ q.token \notin q.dead
        OBVIOUS
      <4>1. PICK i \in 1 .. Len(acRows) : acRows[i].secret = q.token /\ HasScope(acRows[i].scopes, q.need)
        BY <2>3, <3>2 DEF Admits
      <4>2. q.token \in ApiTokens
        BY <3>4
      <4>3. q.token \in DOMAIN acMinted /\ acRows[i].scopes = acMinted[q.token] /\ q.token \notin acGone
        BY <4>1, <4>2 DEF AcInv, AcKnown
      <4>4. q.token \notin AcDead
        BY <1>1, <4>2, <4>3, AccessConstants DEF AcDead, AcTyped
      <4> QED
        BY <3>8, <4>1, <4>3, <4>4
    <3>10. AcHeld(r)
      BY <3>1, <3>8, <3>9 DEF AcHeld
    <3>11. r.pc # "compare"
      BY <3>1, <3>8
    <3> QED
      BY <2>1, <3>6, <3>7, <3>10, <3>11, AcGoes
  <2> QED
    BY <2>2, <2>3
<1> QED
  BY <1>3, <1>4, <1>5, <1>6, <1>7, <1>8

(* A token is minted or revoked. *)
LEMMA StepTokens ==
  ASSUME AcInv, NEW c \in AcClients, NEW t \in ApiTokens,
         RevokeToken(c, t) \/ \E sc \in Scopes : MintToken(c, t, {sc})
  PROVE  AcInv'
<1>1. /\ AcTyped /\ AcKnown /\ AcAsked /\ AcLimited /\ acRows \in Seq(TokenRows) /\ Len(acRows) \in Nat
      /\ acCall \in [AcClients -> AcCalls]
      /\ DOMAIN acMinted \subseteq ApiTokens /\ acGone \subseteq AcSecrets /\ DOMAIN acSession \subseteq Sessions
      /\ t \notin Sessions
  BY AccessConstants DEF AcInv, AcTyped
<1>2. /\ acCall' = [acCall EXCEPT ![c] = [pc |-> "dump"]]
      /\ UNCHANGED <<acHosted, acStored, acUsers, acSession, acLimiter, acNow>>
  BY DEF RevokeToken, MintToken, AcGoto
<1>3. PICK r : r = [pc |-> "dump"]
  OBVIOUS
<1>4. r \in AcCalls /\ r.pc = "dump" /\ acCall' = [acCall EXCEPT ![c] = r]
  BY <1>2, <1>3, AcCallFacts
<1>5. acNow' \in Nat /\ acNow' >= acNow
  BY <1>1, <1>2 DEF AcTyped
<1>6. CASE RevokeToken(c, t)
  <2>1. acGone' = acGone \cup {t} /\ acMinted' = acMinted
    BY <1>6 DEF RevokeToken
  <2>2. PICK i \in 1 .. Len(acRows) : acRows[i].secret = t /\ acRows' = RemoveAt(acRows, i)
    BY <1>6 DEF RevokeToken
  <2>3. /\ acRows' \in Seq(TokenRows) /\ Len(acRows') = Len(acRows) - 1
        /\ \A j \in 1 .. Len(acRows) - 1 : acRows'[j] = acRows[IF j < i THEN j ELSE j + 1]
    BY <1>1, <2>2, RemoveAtFacts
  <2>4. t \in DOMAIN acMinted /\ \A j \in 1 .. Len(acRows) : acRows[j].secret = t => j = i
    BY <1>1, <2>2 DEF AcKnown
  <2>5. AcGrows
    BY <1>2, <2>1 DEF AcGrows, AcDead
  <2>6. AcHeld(r)'
    BY <1>4 DEF AcHeld
  <2>7. acCall' \in [AcClients -> AcCalls] /\ AcAsked' /\ AcComparing' \subseteq AcComparing
    BY <1>1, <1>4, <2>5, <2>6, AcMoves
  <2>8. AcTyped'
    <3>1. acGone' \subseteq AcSecrets
      BY <1>1, <2>1 DEF AcSecrets
    <3> QED
      BY <1>1, <1>2, <2>1, <2>3, <2>7, <3>1 DEF AcTyped
  <2>9. AcKnown'
    <3>1. ASSUME NEW j \in 1 .. Len(acRows'), acRows'[j].secret \in ApiTokens
          PROVE  /\ acRows'[j].secret \in DOMAIN acMinted' /\ acRows'[j].scopes = acMinted'[acRows'[j].secret]
                 /\ acRows'[j].secret \notin acGone'
                 /\ \A k \in 1 .. Len(acRows') : acRows'[k].secret = acRows'[j].secret => k = j
      <4> DEFINE old(k) == IF k < i THEN k ELSE k + 1
      <4>1. \A k \in 1 .. Len(acRows') : old(k) \in 1 .. Len(acRows) /\ old(k) # i /\ acRows'[k] = acRows[old(k)]
        BY <1>1, <2>3
      <4>2. \A k \in 1 .. Len(acRows') : old(k) = old(j) => k = j
        BY <1>1, <2>3
      <4> HIDE DEF old
      <4>3. /\ acRows[old(j)].secret \in DOMAIN acMinted
            /\ acRows[old(j)].scopes = acMinted[acRows[old(j)].secret]
            /\ acRows[old(j)].secret \notin acGone
            /\ \A m \in 1 .. Len(acRows) : acRows[m].secret = acRows[old(j)].secret => m = old(j)
        BY <1>1, <3>1, <4>1 DEF AcKnown
      <4>4. acRows[old(j)].secret # t
        BY <2>4, <4>1
      <4>5. \A k \in 1 .. Len(acRows') : acRows'[k].secret = acRows'[j].secret => k = j
        BY <4>1, <4>2, <4>3
      <4> QED
        BY <2>1, <4>1, <4>3, <4>4, <4>5
    <3>2. \A s \in acGone' : s \in DOMAIN acMinted' \/ (s \in Sessions /\ s \notin DOMAIN acSession')
      BY <1>1, <1>2, <2>1, <2>4 DEF AcKnown
    <3> QED
      BY <3>1, <3>2 DEF AcKnown
  <2>10. AcLimited'
    BY <1>1, <1>2, <1>5, <2>7, LimitKept
  <2> QED
    BY <2>7, <2>8, <2>9, <2>10 DEF AcInv
<1>7. ASSUME NEW sc \in Scopes, MintToken(c, t, {sc}) PROVE AcInv'
  <2>1. /\ t \notin DOMAIN acMinted /\ acGone' = acGone
        /\ acRows' = Append(acRows, [secret |-> t, scopes |-> {sc}])
        /\ acMinted' = [x \in DOMAIN acMinted \cup {t} |-> IF x = t THEN {sc} ELSE acMinted[x]]
    BY <1>7 DEF MintToken
  <2>2. PICK w : w = [secret |-> t, scopes |-> {sc}]
    OBVIOUS
  <2>3. w \in TokenRows /\ w.secret = t /\ w.scopes = {sc}
    BY <2>2 DEF TokenRows
  <2>4. /\ acRows' \in Seq(TokenRows) /\ Len(acRows') = Len(acRows) + 1
        /\ \A j \in 1 .. Len(acRows) : acRows'[j] = acRows[j]
        /\ acRows'[Len(acRows) + 1] = w
    BY <1>1, <2>1, <2>2, <2>3
  <2>5. /\ DOMAIN acMinted' = DOMAIN acMinted \cup {t} /\ acMinted'[t] = {sc}
        /\ \A x \in DOMAIN acMinted : acMinted'[x] = acMinted[x]
    BY <2>1
  <2>6. AcGrows
    BY <1>2, <2>1, <2>5 DEF AcGrows, AcDead
  <2>7. AcHeld(r)'
    BY <1>4 DEF AcHeld
  <2>8. acCall' \in [AcClients -> AcCalls] /\ AcAsked' /\ AcComparing' \subseteq AcComparing
    BY <1>1, <1>4, <2>6, <2>7, AcMoves
  <2>9. AcTyped'
    BY <1>1, <1>2, <2>1, <2>4, <2>5, <2>8 DEF AcTyped
  <2>10. AcKnown'
    <3>1. t \notin acGone /\ \A j \in 1 .. Len(acRows) : acRows[j].secret # t
      BY <1>1, <2>1 DEF AcKnown
    <3>2. ASSUME NEW j \in 1 .. Len(acRows'), acRows'[j].secret \in ApiTokens
          PROVE  /\ acRows'[j].secret \in DOMAIN acMinted' /\ acRows'[j].scopes = acMinted'[acRows'[j].secret]
                 /\ acRows'[j].secret \notin acGone'
                 /\ \A k \in 1 .. Len(acRows') : acRows'[k].secret = acRows'[j].secret => k = j
      <4>0. \A k \in 1 .. Len(acRows') : k \in 1 .. Len(acRows) \/ k = Len(acRows) + 1
        BY <1>1, <2>4
      <4>1. CASE j \in 1 .. Len(acRows)
        <5>1. acRows'[j] = acRows[j]
          BY <2>4, <4>1
        <5>2. /\ acRows[j].secret \in DOMAIN acMinted /\ acRows[j].scopes = acMinted[acRows[j].secret]
              /\ acRows[j].secret \notin acGone
              /\ \A k \in 1 .. Len(acRows) : acRows[k].secret = acRows[j].secret => k = j
          BY <1>1, <3>2, <4>1, <5>1 DEF AcKnown
        <5>3. \A k \in 1 .. Len(acRows') : acRows'[k].secret = acRows[j].secret => k = j
          BY <2>3, <2>4, <3>1, <4>0, <4>1, <5>2
        <5> QED
          BY <2>1, <2>5, <5>1, <5>2, <5>3
      <4>2. CASE j = Len(acRows) + 1
        <5>1. acRows'[j] = w
          BY <2>4, <4>2
        <5>2. \A k \in 1 .. Len(acRows') : acRows'[k].secret = t => k = j
          BY <2>4, <3>1, <4>0, <4>2
        <5> QED
          BY <2>1, <2>3, <2>5, <3>1, <5>1, <5>2
      <4> QED
        BY <4>0, <4>1, <4>2
    <3>3. \A s \in acGone' : s \in DOMAIN acMinted' \/ (s \in Sessions /\ s \notin DOMAIN acSession')
      BY <1>1, <1>2, <2>1, <2>5 DEF AcKnown
    <3> QED
      BY <3>2, <3>3 DEF AcKnown
  <2>11. AcLimited'
    BY <1>1, <1>2, <1>5, <2>8, LimitKept
  <2> QED
    BY <2>8, <2>9, <2>10, <2>11 DEF AcInv
<1> QED
  BY <1>6, <1>7

(* A login passes rateOK, fails, or makes a session. *)
LEMMA StepRate == ASSUME AcInv, NEW c \in AcClients, LoginChecksRate(c) PROVE AcInv'
<1>1. /\ AcTyped /\ AcKnown /\ AcAsked /\ AcLimited /\ acCall[c] \in AcCalls /\ acCall[c].pc = "login"
      /\ UNCHANGED <<acHosted, acRows, acStored, acUsers, acSession, acLimiter, acNow, acGone, acMinted>>
      /\ acStored' \in Blanks
  BY DEF AcInv, AcTyped, LoginChecksRate, AcAt
<1>2. CASE ~RateOK
  <2>1. acCall' = [acCall EXCEPT ![c] = Idle]
    BY <1>2 DEF LoginChecksRate, AcGoto
  <2>2. Idle \in AcCalls /\ Idle.pc = "idle"
    BY AcCallFacts
  <2>3. AcHeld(Idle)
    BY <2>2 DEF AcHeld
  <2> QED
    BY <1>1, <2>1, <2>2, <2>3, AcGoes
<1>3. CASE RateOK
  <2>1. PICK q : q = acCall[c]
    OBVIOUS
  <2>2. /\ q.user \in AcUsers /\ q.good \in BOOLEAN
        /\ [q EXCEPT !.pc = "compare"] = [pc |-> "compare", user |-> q.user, good |-> q.good]
    BY <1>1, <2>1, AcRecords
  <2>3. PICK r : r = [pc |-> "compare", user |-> q.user, good |-> q.good]
    OBVIOUS
  <2>4. r \in AcCalls /\ r.pc = "compare"
    BY <2>2, <2>3, AcCallFacts
  <2>5. acCall' = [acCall EXCEPT ![c] = r]
    BY <1>3, <2>1, <2>2, <2>3 DEF LoginChecksRate, AcGoto
  <2>6. AcGrows
    BY <1>1 DEF AcGrows, AcDead
  <2>7. AcHeld(r)'
    BY <2>4 DEF AcHeld
  <2>8. acCall' \in [AcClients -> AcCalls] /\ AcAsked'
    BY <1>1, <2>4, <2>5, <2>6, <2>7, AcMoves
  <2>9. AcTyped' /\ AcKnown'
    BY <1>1, <2>8 DEF AcTyped, AcKnown
  <2>10. AcLimited'
    <3>1. /\ acLimiter.count \in Nat /\ acLimiter.start \in Int /\ acNow \in Nat /\ Window \in Nat /\ Attempts \in Nat
          /\ Cardinality(AcClients) \in Nat
      BY <1>1, AccessConstants, ComparingFacts DEF AcTyped
    <3>2. AcComparing' \subseteq AcClients
      BY DEF AcComparing
    <3>3. Cardinality(AcComparing') \in Nat /\ Cardinality(AcComparing') <= Cardinality(AcClients)
      BY <3>2, ComparingFacts
    <3>4. acLimiter'.count <= Attempts + Cardinality(AcClients) - 1
      BY <1>1 DEF AcLimited
    <3>5. acNow - acLimiter.start > Window \/ acLimiter.count < Attempts
      BY <1>3 DEF RateOK
    <3>6. acNow' - acLimiter'.start <= Window =>
            acLimiter'.count + Cardinality(AcComparing') <= Attempts + Cardinality(AcClients) - 1
      BY <1>1, <3>1, <3>3, <3>5
    <3> QED
      BY <3>4, <3>6 DEF AcLimited
  <2> QED
    BY <2>8, <2>9, <2>10 DEF AcInv
<1> QED
  BY <1>2, <1>3

LEMMA StepFails == ASSUME AcInv, NEW c \in AcClients, LoginFails(c) PROVE AcInv'
<1>1. /\ AcTyped /\ AcKnown /\ AcAsked /\ AcLimited /\ acCall[c].pc = "compare"
      /\ acCall' = [acCall EXCEPT ![c] = Idle]
      /\ UNCHANGED <<acHosted, acRows, acStored, acUsers, acSession, acNow, acGone, acMinted>>
  BY DEF AcInv, LoginFails, AcAt, AcGoto
<1>2. Idle \in AcCalls /\ Idle.pc = "idle" /\ AcHeld(Idle)'
  BY AcCallFacts DEF AcHeld
<1>3. AcGrows
  BY <1>1 DEF AcGrows, AcDead
<1>4. acCall' \in [AcClients -> AcCalls] /\ AcAsked' /\ AcComparing' = AcComparing \ {c}
  BY <1>1, <1>2, <1>3, AcMoves
<1>5. /\ acLimiter \in [count : Nat, start : Int] /\ acNow \in Nat /\ Window \in Nat /\ Attempts \in Nat \ {0}
      /\ Cardinality(AcClients) \in Nat
  BY <1>1, AccessConstants, ComparingFacts DEF AcTyped
<1>6. /\ acNow - acLimiter.start > Window => acLimiter' = [count |-> 1, start |-> acNow]
      /\ acNow - acLimiter.start <= Window => acLimiter' = [acLimiter EXCEPT !.count = @ + 1]
  BY <1>5 DEF LoginFails, RecordAttempt
<1>7. /\ acLimiter' \in [count : Nat, start : Int]
      /\ acNow - acLimiter.start > Window => acLimiter'.count = 1 /\ acLimiter'.start = acNow
      /\ acNow - acLimiter.start <= Window => acLimiter'.count = acLimiter.count + 1 /\ acLimiter'.start = acLimiter.start
  BY <1>5, <1>6
<1>8. AcTyped' /\ AcKnown'
  BY <1>1, <1>4, <1>7 DEF AcTyped, AcKnown
<1>9. /\ Cardinality(AcComparing) \in Nat /\ Cardinality(AcComparing) <= Cardinality(AcClients)
      /\ Cardinality(AcComparing') = Cardinality(AcComparing) - 1 /\ Cardinality(AcComparing') \in Nat
  <2>1. AcComparing \subseteq AcClients /\ c \in AcComparing
    BY <1>1 DEF AcComparing
  <2>2. IsFiniteSet(AcComparing) /\ Cardinality(AcComparing) \in Nat /\ Cardinality(AcComparing) <= Cardinality(AcClients)
    BY <2>1, ComparingFacts
  <2>3. /\ IsFiniteSet(AcComparing \ {c})
        /\ Cardinality(AcComparing \ {c}) = IF c \in AcComparing THEN Cardinality(AcComparing) - 1
                                            ELSE Cardinality(AcComparing)
    BY <2>2, FS_RemoveElement
  <2>4. Cardinality(AcComparing \ {c}) \in Nat
    BY <2>3, FS_CardinalityType
  <2> QED
    BY <1>4, <2>1, <2>2, <2>3, <2>4
<1>10. acNow - acLimiter.start <= Window =>
         acLimiter.count + Cardinality(AcComparing) <= Attempts + Cardinality(AcClients) - 1
  BY <1>1 DEF AcLimited
<1>11. /\ acLimiter'.count <= Attempts + Cardinality(AcClients) - 1
       /\ acNow' - acLimiter'.start <= Window =>
            acLimiter'.count + Cardinality(AcComparing') <= Attempts + Cardinality(AcClients) - 1
  <2>1. acLimiter.count \in Nat /\ acLimiter.start \in Int
    BY <1>5
  <2>2. CASE acNow - acLimiter.start > Window
    BY <1>1, <1>5, <1>7, <1>9, <2>1, <2>2
  <2>3. CASE acNow - acLimiter.start <= Window
    BY <1>1, <1>5, <1>7, <1>9, <1>10, <2>1, <2>3
  <2> QED
    BY <1>5, <2>1, <2>2, <2>3
<1> QED
  BY <1>4, <1>8, <1>11 DEF AcInv, AcLimited

LEMMA StepAccount ==
  ASSUME AcInv, NEW c \in AcClients,
         (\E u \in AcUsers : HandleHostedRegister(c, u)) \/ (\E s \in Sessions : CreateSession(c, s))
  PROVE  AcInv'
<1>1. /\ AcTyped /\ AcKnown /\ AcAsked /\ AcLimited /\ acCall[c] \in AcCalls
      /\ acNow \in Nat /\ SessionTTL \in Nat
  BY AccessConstants DEF AcInv, AcTyped
<1>2. ASSUME NEW u \in AcUsers, HandleHostedRegister(c, u) PROVE AcInv'
  <2>1. /\ acUsers' = acUsers \cup {u} /\ acCall' = [acCall EXCEPT ![c] = [pc |-> "login", user |-> u, good |-> TRUE]]
        /\ UNCHANGED <<acHosted, acRows, acStored, acSession, acLimiter, acNow, acGone, acMinted>>
    BY <1>2 DEF HandleHostedRegister, AcGoto
  <2>2. PICK r : r = [pc |-> "login", user |-> u, good |-> TRUE]
    OBVIOUS
  <2>3. r \in AcCalls /\ r.pc = "login"
    BY <2>2, AcCallFacts
  <2>4. AcGrows
    BY <2>1 DEF AcGrows, AcDead
  <2>5. AcHeld(r)' /\ acCall' = [acCall EXCEPT ![c] = r]
    BY <2>1, <2>2, <2>3 DEF AcHeld
  <2>6. acCall' \in [AcClients -> AcCalls] /\ AcAsked' /\ AcComparing' \subseteq AcComparing
    BY <1>1, <2>3, <2>4, <2>5, AcMoves
  <2>7. AcTyped' /\ AcKnown'
    BY <1>1, <2>1, <2>6 DEF AcTyped, AcKnown
  <2>8. acNow' \in Nat /\ acNow' >= acNow
    BY <1>1, <2>1
  <2>9. AcLimited'
    BY <1>1, <2>1, <2>6, <2>8, LimitKept
  <2> QED
    BY <2>6, <2>7, <2>9 DEF AcInv
<1>3. ASSUME NEW s \in Sessions, CreateSession(c, s) PROVE AcInv'
  <2>1. /\ acCall[c].user \in acUsers /\ s \notin DOMAIN acSession /\ s \notin acGone
        /\ acSession' = [x \in DOMAIN acSession \cup {s} |->
                           IF x = s THEN [user |-> acCall[c].user, exp |-> acNow + SessionTTL] ELSE acSession[x]]
        /\ acCall' = [acCall EXCEPT ![c] = Idle]
        /\ UNCHANGED <<acHosted, acRows, acStored, acUsers, acLimiter, acNow, acGone, acMinted>>
    BY <1>3 DEF CreateSession, AcGoto
  <2>2. /\ DOMAIN acSession' = DOMAIN acSession \cup {s}
        /\ \A x \in DOMAIN acSession : acSession'[x] = acSession[x]
        /\ acSession'[s].user = acCall[c].user /\ acSession'[s].exp = acNow + SessionTTL
    BY <2>1
  <2>3. AcGrows
    BY <2>1, <2>2 DEF AcGrows, AcDead
  <2>4. Idle \in AcCalls /\ Idle.pc = "idle" /\ AcHeld(Idle)'
    BY AcCallFacts DEF AcHeld
  <2>5. acCall' \in [AcClients -> AcCalls] /\ AcAsked' /\ AcComparing' \subseteq AcComparing
    BY <1>1, <2>1, <2>3, <2>4, AcMoves
  <2>6. AcTyped'
    <3>1. DOMAIN acSession' \subseteq Sessions
      BY <1>1, <2>2 DEF AcTyped
    <3>2. \A x \in DOMAIN acSession' : acSession'[x].user \in acUsers' /\ acSession'[x].exp \in Int
      BY <1>1, <2>1, <2>2 DEF AcTyped
    <3> QED
      BY <1>1, <2>1, <2>5, <3>1, <3>2 DEF AcTyped
  <2>7. AcKnown'
    <3>1. \A x \in acGone' : x \in DOMAIN acMinted' \/ (x \in Sessions /\ x \notin DOMAIN acSession')
      BY <1>1, <2>1, <2>2 DEF AcKnown
    <3> QED
      BY <1>1, <2>1, <3>1 DEF AcKnown
  <2>8. acNow' \in Nat /\ acNow' >= acNow
    BY <1>1, <2>1
  <2>9. AcLimited'
    BY <1>1, <2>1, <2>5, <2>8, LimitKept
  <2> QED
    BY <2>5, <2>6, <2>7, <2>9 DEF AcInv
<1> QED
  BY <1>2, <1>3

(* A session ends, or a request is admitted for its owner. *)
LEMMA StepSessions ==
  ASSUME AcInv,
         \/ SweepSessions
         \/ \E c \in AcClients : ScopedResolves(c) \/ \E s \in Sessions : HandleHostedLogout(c, s)
  PROVE  AcInv'
<1>1. /\ AcTyped /\ AcKnown /\ AcAsked /\ AcLimited /\ acCall \in [AcClients -> AcCalls] /\ acNow \in Nat
      /\ acStored \in Blanks /\ DOMAIN acMinted \subseteq ApiTokens /\ Sessions \cap ApiTokens = {}
  BY AccessConstants DEF AcInv, AcTyped
<1>2. ASSUME NEW S, DropSessions(S), acGone' = acGone \cup (DOMAIN acSession \cap S), acCall' = acCall,
             UNCHANGED <<acHosted, acRows, acStored, acUsers, acLimiter, acNow, acMinted>>
      PROVE  AcInv'
  <2>1. acCall' \in [AcClients -> AcCalls]
    BY <1>1, <1>2
  <2>2. AcGrows /\ AcKnown' /\ AcTyped'
    BY <1>1, <1>2, <2>1, AcDrops
  <2>3. AcAsked' /\ AcComparing' = AcComparing
    BY <1>1, <1>2, <2>2, AcWaits
  <2>4. acNow' \in Nat /\ acNow' >= acNow /\ acLimiter' = acLimiter
    BY <1>1, <1>2
  <2>5. AcLimited'
    BY <1>1, <2>3, <2>4, LimitKept
  <2> QED
    BY <2>2, <2>3, <2>5 DEF AcInv
<1>3. CASE SweepSessions
  <2>1. PICK S : S = {s \in DOMAIN acSession : acSession[s].exp < acNow}
    OBVIOUS
  <2>2. DropSessions(S) /\ acGone' = acGone \cup (DOMAIN acSession \ DOMAIN acSession')
        /\ UNCHANGED <<acHosted, acRows, acStored, acUsers, acLimiter, acNow, acCall, acMinted>>
    BY <1>3, <2>1 DEF SweepSessions
  <2>3. DOMAIN acSession' = DOMAIN acSession \ S
    BY <2>2 DEF DropSessions
  <2>4. acGone' = acGone \cup (DOMAIN acSession \cap S)
    BY <2>2, <2>3
  <2> QED
    BY <1>2, <2>2, <2>4
<1>4. ASSUME NEW c \in AcClients, NEW s \in Sessions, HandleHostedLogout(c, s) PROVE AcInv'
  <2>1. /\ DropSessions({s}) /\ acGone' = acGone \cup {s} /\ s \in DOMAIN acSession
        /\ UNCHANGED <<acHosted, acRows, acStored, acUsers, acLimiter, acNow, acCall, acMinted>>
    BY <1>4 DEF HandleHostedLogout
  <2>2. acGone' = acGone \cup (DOMAIN acSession \cap {s})
    BY <2>1
  <2> QED
    BY <1>2, <2>1, <2>2
<1>5. ASSUME NEW c \in AcClients, ScopedResolves(c) PROVE AcInv'
  <2>0. acCall[c] \in AcCalls /\ AcHeld(acCall[c]) /\ acCall[c].pc = "resolve"
    BY <1>1, <1>5 DEF AcAsked, ScopedResolves, AcAt
  <2>1. PICK q : q = acCall[c]
    OBVIOUS
  <2>2. q \in AcCalls /\ AcHeld(q) /\ q.pc = "resolve"
    BY <2>0, <2>1
  <2>3. UNCHANGED <<acHosted, acRows, acStored, acUsers, acLimiter, acNow, acMinted>>
    BY <1>5 DEF ScopedResolves
  <2>4. CASE ~SessionUser(q.session)
    <3>1. /\ acCall' = [acCall EXCEPT ![c] = Idle] /\ DropSessions({q.session})
          /\ acGone' = acGone \cup (DOMAIN acSession \cap {q.session})
      BY <1>5, <2>1, <2>4 DEF ScopedResolves, AcGoto
    <3>2. Idle \in AcCalls /\ Idle.pc = "idle" /\ AcHeld(Idle)'
      BY AcCallFacts DEF AcHeld
    <3>3. AcGrows /\ AcKnown' /\ (acCall' \in [AcClients -> AcCalls] => AcTyped')
      BY <1>1, <2>3, <3>1, AcDrops
    <3>4. acCall' \in [AcClients -> AcCalls] /\ AcAsked' /\ AcComparing' \subseteq AcComparing
      BY <1>1, <3>1, <3>2, <3>3, AcMoves
    <3>5. acNow' \in Nat /\ acNow' >= acNow /\ acLimiter' = acLimiter
      BY <1>1, <2>3
    <3>6. AcLimited'
      BY <1>1, <3>4, <3>5, LimitKept
    <3> QED
      BY <3>3, <3>4, <3>6 DEF AcInv
  <2>5. CASE SessionUser(q.session)
    <3>1. PICK u : u = acSession[q.session].user
      OBVIOUS
    <3>2. acCall' = [acCall EXCEPT ![c] = [acCall[c] EXCEPT !.pc = "serve", !.user = u]]
          /\ UNCHANGED <<acSession, acGone>>
      BY <1>5, <2>1, <2>5, <3>1 DEF ScopedResolves, AcGoto
    <3>3. /\ q.token \in ApiTokens \cup {Root} /\ q.session \in Sessions /\ q.need \in Scopes
          /\ q.dead \in SUBSET AcSecrets
          /\ [q EXCEPT !.pc = "serve", !.user = u] =
               [pc |-> "serve", token |-> q.token, session |-> q.session, need |-> q.need, user |-> u, dead |-> q.dead]
      BY <2>2, AcRecords
    <3>4. u \in acUsers /\ acUsers \subseteq AcUsers /\ acNow <= acSession[q.session].exp
          /\ q.session \in DOMAIN acSession /\ acSession[q.session].exp \in Int
      BY <1>1, <2>5, <3>1 DEF AcTyped, SessionUser
    <3>5. q.session \notin AcDead
      <4>1. q.session \notin acGone
        BY <1>1, <3>3, <3>4 DEF AcKnown
      <4>2. ~(acNow > acSession[q.session].exp)
        BY <1>1, <3>4
      <4> QED
        BY <4>1, <4>2 DEF AcDead
    <3>6. PICK r : r = [pc |-> "serve", token |-> q.token, session |-> q.session, need |-> q.need,
                        user |-> u, dead |-> q.dead]
      OBVIOUS
    <3>7. r \in AcCalls
      BY <3>3, <3>4, <3>6, AcCallFacts
    <3>8. /\ r.pc = "serve" /\ r.token = q.token /\ r.session = q.session /\ r.need = q.need
          /\ r.user = u /\ r.dead = q.dead
      BY <3>6
    <3>9. AcHeld(r)
      BY <2>2, <3>4, <3>5, <3>8 DEF AcHeld
    <3>10. acCall' = [acCall EXCEPT ![c] = r] /\ acStored' \in Blanks
      BY <1>1, <2>1, <2>3, <3>2, <3>3, <3>6
    <3> QED
      BY <2>3, <3>2, <3>7, <3>8, <3>9, <3>10, AcGoes
  <2> QED
    BY <2>4, <2>5
<1> QED
  BY <1>3, <1>4, <1>5

(* The daemon restarts, or time passes. *)
LEMMA StepRestart == ASSUME AcInv, AccessRestart PROVE AcInv'
<1>1. /\ AcTyped /\ AcKnown /\ acNow \in Nat /\ Window \in Nat /\ Attempts \in Nat \ {0} /\ acStored \in Blanks
      /\ Cardinality(AcClients) \in Nat
  BY AccessConstants, ComparingFacts DEF AcInv, AcTyped
<1>2. /\ acRows' = acStored /\ acCall' = [c \in AcClients |-> Idle]
      /\ acLimiter' = [count |-> 0, start |-> -Window - 1]
      /\ UNCHANGED <<acHosted, acStored, acUsers, acSession, acNow, acGone, acMinted>>
  BY DEF AccessRestart
<1>3. Idle \in AcCalls /\ Idle.pc = "idle"
  BY AcCallFacts
<1>4. acLimiter' \in [count : Nat, start : Int] /\ acLimiter'.count = 0 /\ acLimiter'.start = -Window - 1
  BY <1>1, <1>2
<1>5. acRows' \in Seq(TokenRows) /\ \A i \in 1 .. Len(acRows') : acRows'[i].secret \notin ApiTokens
  BY <1>1, <1>2, BlankFacts
<1>6. AcTyped'
  BY <1>1, <1>2, <1>3, <1>4, <1>5 DEF AcTyped
<1>7. AcKnown'
  BY <1>1, <1>2, <1>5 DEF AcKnown
<1>8. AcAsked'
  <2>1. \A c \in AcClients : acCall'[c].pc = "idle"
    BY <1>2, <1>3
  <2> QED
    BY <2>1 DEF AcAsked, AcHeld
<1>9. AcLimited'
  <2>1. ~(acNow' - acLimiter'.start <= Window)
    BY <1>1, <1>2, <1>4
  <2>2. acLimiter'.count <= Attempts + Cardinality(AcClients) - 1
    BY <1>1, <1>4
  <2> QED
    BY <2>1, <2>2 DEF AcLimited
<1> QED
  BY <1>6, <1>7, <1>8, <1>9 DEF AcInv

LEMMA StepTick == ASSUME AcInv, AcTick PROVE AcInv'
<1>1. /\ AcTyped /\ AcKnown /\ AcAsked /\ AcLimited /\ acNow \in Nat /\ MaxNow \in Nat
      /\ acNow' = acNow + 1 /\ acNow < MaxNow
      /\ UNCHANGED <<acHosted, acRows, acStored, acUsers, acSession, acLimiter, acCall, acGone, acMinted>>
  BY AccessConstants DEF AcInv, AcTyped, AcTick
<1>2. acNow' \in 0 .. MaxNow /\ acNow' \in Nat /\ acNow' >= acNow
  BY <1>1
<1>3. AcGrows
  <2>1. AcDead \subseteq AcDead'
    BY <1>1 DEF AcDead, AcTyped
  <2> QED
    BY <1>1, <2>1 DEF AcGrows
<1>4. AcAsked' /\ AcComparing' = AcComparing
  BY <1>1, <1>3, AcWaits
<1>5. AcTyped' /\ AcKnown'
  BY <1>1, <1>2 DEF AcTyped, AcKnown
<1>6. AcLimited'
  BY <1>1, <1>2, <1>4, LimitKept
<1> QED
  BY <1>4, <1>5, <1>6 DEF AcInv

LEMMA AccessStep == ASSUME AcInv, [AccessNext]_acVars PROVE AcInv'
<1>1. ASSUME NEW c \in AcClients,
             \/ PersistDumps(c) \/ PersistPuts(c) \/ ScopedVerifies(c) \/ Serve(c)
             \/ \E u \in AcUsers, good \in BOOLEAN : HandleHostedLogin(c, u, good)
             \/ \E t \in ApiTokens \cup {Root}, s \in Sessions, need \in Scopes : BeginRequest(c, t, s, need)
      PROVE  AcInv'
  BY <1>1, StepGoes
<1>2. ASSUME NEW c \in AcClients, NEW t \in ApiTokens,
             RevokeToken(c, t) \/ \E sc \in Scopes : MintToken(c, t, {sc})
      PROVE  AcInv'
  BY <1>2, StepTokens
<1>3. ASSUME NEW c \in AcClients,
             \/ LoginChecksRate(c) \/ LoginFails(c)
             \/ (\E u \in AcUsers : HandleHostedRegister(c, u)) \/ (\E s \in Sessions : CreateSession(c, s))
      PROVE  AcInv'
  BY <1>3, StepRate, StepFails, StepAccount
<1>4. CASE SweepSessions \/ \E c \in AcClients : ScopedResolves(c) \/ \E s \in Sessions : HandleHostedLogout(c, s)
  BY <1>4, StepSessions
<1>5. CASE AccessRestart \/ AcTick
  BY <1>5, StepRestart, StepTick
<1>6. CASE UNCHANGED acVars
  <2>1. UNCHANGED <<acHosted, acRows, acStored, acUsers, acSession, acLimiter, acNow, acCall, acGone, acMinted>>
    BY <1>6 DEF acVars
  <2>2. AcGrows
    BY <2>1 DEF AcGrows, AcDead
  <2>3. AcAsked' /\ AcComparing' = AcComparing
    BY <2>1, <2>2, AcWaits DEF AcInv
  <2>4. AcTyped' /\ AcKnown'
    BY <2>1 DEF AcInv, AcTyped, AcKnown
  <2>5. AcLimited'
    BY <2>1, <2>3 DEF AcInv, AcLimited
  <2> QED
    BY <2>3, <2>4, <2>5 DEF AcInv
<1> QED
  BY <1>1, <1>2, <1>3, <1>4, <1>5, <1>6 DEF AccessNext

LEMMA AccessStarts == AccessInit => AcInv
<1> SUFFICES ASSUME AccessInit PROVE AcInv
  OBVIOUS
<1>1. /\ acHosted \in BOOLEAN /\ acRows = <<>> /\ acStored = <<>> /\ acUsers = {} /\ acSession = <<>>
      /\ acLimiter = [count |-> 0, start |-> -Window - 1] /\ acNow = 0
      /\ acCall = [c \in AcClients |-> Idle] /\ acGone = {} /\ acMinted = <<>>
  BY DEF AccessInit
<1>2. Idle \in AcCalls /\ Idle.pc = "idle"
  BY AcCallFacts
<1>3. /\ Window \in Nat /\ MaxNow \in Nat /\ Attempts \in Nat \ {0} /\ Cardinality(AcClients) \in Nat
  BY AccessConstants, ComparingFacts
<1>4. acLimiter \in [count : Nat, start : Int] /\ acLimiter.count = 0 /\ acLimiter.start = -Window - 1
  BY <1>1, <1>3
<1>5. DOMAIN acSession = {} /\ DOMAIN acMinted = {} /\ Len(acRows) = 0
  BY <1>1
<1>6. acRows \in Seq(TokenRows) /\ acStored \in Blanks
  BY <1>1 DEF Blanks
<1>7. acNow \in 0 .. MaxNow
  BY <1>1, <1>3
<1>8. AcTyped
  BY <1>1, <1>2, <1>4, <1>5, <1>6, <1>7 DEF AcTyped
<1>9. AcKnown
  BY <1>1, <1>5 DEF AcKnown
<1>10. AcAsked
  BY <1>1, <1>2 DEF AcAsked, AcHeld
<1>11. AcLimited
  BY <1>1, <1>3, <1>4 DEF AcLimited
<1> QED
  BY <1>8, <1>9, <1>10, <1>11 DEF AcInv

(* However requests, revocations, logouts, the sweeper, failed logins and restarts
   interleave, a handler runs only for a token that grants the scope and a session that was
   alive when the request began, and no address fails more logins than the limit and the
   logins under way.  However hosted users join, leave, create, import, activate, save and
   delete meanwhile, a user's default profile is what that user's own requests made of it,
   and no profile names a channel that its user never had. *)
THEOREM OnlyEntitledServed == AccessSpec => []AccessKept
<1>1. AcInv /\ HoInv /\ [(AccessNext /\ UNCHANGED hoVars) \/ (HostedNext /\ UNCHANGED acVars)]_<<acVars, hoVars>>
        => AcInv' /\ HoInv'
  <2> SUFFICES ASSUME AcInv, HoInv,
                      [(AccessNext /\ UNCHANGED hoVars) \/ (HostedNext /\ UNCHANGED acVars)]_<<acVars, hoVars>>
               PROVE AcInv' /\ HoInv'
    OBVIOUS
  <2>1. [AccessNext]_acVars /\ [HostedNext]_hoVars
    OBVIOUS
  <2> QED
    BY <2>1, AccessStep, HostedStep
<1>2. AcInv /\ HoInv => AccessKept
  <2> SUFFICES ASSUME AcInv, HoInv PROVE AccessKept
    OBVIOUS
  <2>1. AccessTypeOK
    <3>1. \A i \in 1 .. Len(acRows) : acRows[i] \in TokenRows
      BY DEF AcInv, AcTyped
    <3> QED
      BY <3>1 DEF AcInv, AcTyped, AccessTypeOK, TokenRows
  <2>2. AdmittedIsEntitled
    BY DEF AcInv, AcAsked, AcHeld, AdmittedIsEntitled
  <2>3. FailuresBounded
    BY DEF AcInv, AcLimited, FailuresBounded
  <2>4. OwnRequestsOnly
    BY DEF HoInv, HoSettled, HoAll, OwnRequestsOnly
  <2>5. OwnChannelsOnly
    BY DEF HoInv, HoOwned, HoAll, OwnChannelsOnly
  <2> QED
    BY <2>1, <2>2, <2>3, <2>4, <2>5 DEF RequestsEntitled, AccessKept
<1>3. AccessInit /\ HostedInit => AcInv /\ HoInv
  BY AccessStarts, HostedStarts
<1> QED
  BY <1>1, <1>2, <1>3, PTL DEF AccessSpec
==============================================================================
