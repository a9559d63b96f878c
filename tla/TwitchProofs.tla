----------------------------- MODULE TwitchProofs -----------------------------
(***************************************************************************)
(* Twitch.  About TwitchIRC, for every set of channels, any number of      *)
(* shards and any capacity, and without its bounds: type correctness, that *)
(* a reconnect loses no membership, and that Close is quiet.  About        *)
(* Moderation, for every set of messages and moderators, any cap and any   *)
(* width of a duration: that the list of held messages and the commands    *)
(* stay faithful to Twitch and to what the moderator typed.                *)
(***************************************************************************)
EXTENDS TwitchIRC, Moderation, SequenceTheorems, TLAPS

-----------------------------------------------------------------------------
(* The IRC read path.                                                        *)

LEMMA TypeFrame ==
  /\ TypeAdapter /\ UNCHANGED adapterVars => TypeAdapter'
  /\ TypeShard /\ UNCHANGED shardVars => TypeShard'
  /\ TypeNet /\ UNCHANGED netVars => TypeNet'
  /\ TypeCaller /\ UNCHANGED callerVars => TypeCaller'
  /\ TypeBounds /\ UNCHANGED bounds => TypeBounds'
BY DEF TypeAdapter, TypeShard, TypeNet, TypeCaller, TypeBounds,
       adapterVars, shardVars, netVars, callerVars, bounds

LEMMA GotoType ==
  ASSUME TypeCaller, NEW c \in Channels, Goto(c, "pick") \/ Goto(c, "find"),
         UNCHANGED <<at, to>>
  PROVE  TypeCaller'
BY DEF TypeCaller, Goto

LEMMA ReturnType ==
  ASSUME TypeCaller, NEW c \in Channels, Return(c) PROVE TypeCaller'
BY DEF TypeCaller, Return, Goto

LEMMA PickType ==
  ASSUME TypeCaller, NEW c \in Channels, NEW s \in Shards,
         Goto(c, "add") \/ Goto(c, "remove"),
         at' = [at EXCEPT ![c] = s], UNCHANGED to
  PROVE  TypeCaller'
BY DEF TypeCaller, Goto

LEMMA LineType ==
  ASSUME TypeCaller, TypeShard, NEW c \in Channels, pc[c] \in {"add", "remove"},
         Goto(c, "joinline") \/ Goto(c, "partline"),
         to' = [to EXCEPT ![c] = conn[at[c]]], UNCHANGED at
  PROVE  TypeCaller'
BY DEF TypeCaller, TypeShard, Goto

LEMMA TypeCallerStep ==
  ASSUME TypeOK, NEW c \in Channels, CallerStep(c) \/ BeginJoin(c) \/ BeginLeave(c)
  PROVE  TypeOK'
<1> USE ShardsAssumption DEF TypeOK
<1>1. CASE BeginJoin(c) \/ BeginLeave(c)
  <2>1. TypeCaller'
    BY <1>1, GotoType DEF BeginJoin, BeginLeave
  <2>2. TypeAdapter' /\ TypeBounds'
    BY <1>1 DEF BeginJoin, BeginLeave, TypeAdapter, TypeBounds
  <2>3. UNCHANGED <<shardVars, netVars>>
    BY <1>1 DEF BeginJoin, BeginLeave
  <2> QED
    BY <2>1, <2>2, <2>3, TypeFrame
<1>2. CASE PickNothing(c) \/ FindNothing(c) \/ JoinClosed(c)
  BY <1>2, ReturnType, TypeFrame DEF PickNothing, FindNothing, JoinClosed
<1>3. CASE PickDialFails(c)
  <2>1. TypeCaller' /\ UNCHANGED <<adapterVars, shardVars, netVars>>
    BY <1>3, ReturnType DEF PickDialFails
  <2>2. TypeBounds'
    BY <1>3 DEF PickDialFails, TypeBounds
  <2> QED
    BY <2>1, <2>2, TypeFrame
<1>4. CASE PickSpare(c) \/ FindShard(c)
  BY <1>4, PickType, TypeFrame DEF PickSpare, FindShard
<1>5. CASE PickNew(c)
  <2>1. PICK s \in Shards :
          /\ s = opened + 1 /\ opened' = s
          /\ at' = [at EXCEPT ![c] = s]
          /\ conn' = [conn EXCEPT ![s] = 1] /\ sock' = [sock EXCEPT ![s] = 1]
          /\ link' = [link EXCEPT ![s] = "up"] /\ sup' = [sup EXCEPT ![s] = "read"]
    BY <1>5 DEF PickNew
  <2>2. TypeCaller'
    BY <1>5, <2>1, PickType DEF PickNew
  <2>3. TypeAdapter'
    BY <1>5, <2>1 DEF PickNew, TypeAdapter
  <2>4. TypeShard'
    BY <1>5, <2>1 DEF PickNew, TypeShard, Supervising
  <2>5. TypeNet'
    BY <1>5, <2>1 DEF PickNew, TypeNet
  <2>6. UNCHANGED bounds
    BY <1>5 DEF PickNew
  <2> QED
    BY <2>2, <2>3, <2>4, <2>5, <2>6, TypeFrame
<1>6. CASE ShardJoin(c) \/ ShardLeave(c)
  <2>1. TypeCaller'
    BY <1>6, ReturnType, LineType DEF ShardJoin, ShardLeave
  <2>2. TypeShard'
    BY <1>6 DEF ShardJoin, ShardLeave, Record, TypeShard, TypeCaller
  <2>3. UNCHANGED <<adapterVars, netVars, bounds>>
    BY <1>6 DEF ShardJoin, ShardLeave
  <2> QED
    BY <2>1, <2>2, <2>3, TypeFrame
<1>7. CASE JoinLine(c) \/ PartLine(c)
  <2>1. TypeCaller' /\ UNCHANGED <<adapterVars, shardVars, bounds>>
    BY <1>7, ReturnType DEF JoinLine, PartLine
  <2>2. TypeNet'
    BY <1>7 DEF JoinLine, PartLine, TypeNet, TypeCaller
  <2> QED
    BY <2>1, <2>2, TypeFrame
<1> QED
  BY <1>1, <1>2, <1>3, <1>4, <1>5, <1>6, <1>7 DEF CallerStep

LEMMA AttemptType ==
  ASSUME TypeShard, NEW s \in Shards, NEW n \in 0 .. DownAfter, NextAttempt(s, n),
         UNCHANGED <<chans, sclosed>>, conn' \in [Shards -> Nat],
         replay' \in [Shards -> SUBSET Channels]
  PROVE  TypeShard'
BY DEF TypeShard, NextAttempt, HealthAt, Supervising

LEMMA TypeSupStep ==
  ASSUME TypeOK, NEW s \in Shards, SupStep(s) \/ Drop(s) PROVE TypeOK'
<1> USE ShardsAssumption DEF TypeOK
<1>1. Bump(0) \in 0 .. DownAfter /\ Bump(attempt[s]) \in 0 .. DownAfter
  BY DEF TypeShard, Bump
<1>2. CASE Drop(s)
  BY <1>2, TypeFrame DEF Drop, TypeNet, TypeBounds
<1>3. CASE ReadFails(s)
  <2>1. TypeShard'
    BY <1>1, <1>3, AttemptType DEF ReadFails, TypeShard
  <2> QED
    BY <1>3, <2>1, TypeFrame DEF ReadFails
<1>4. CASE SuperviseReturns(s) \/ BackoffOver(s) \/ ReplayLost(s) \/ ReplayDone(s)
  <2>1. TypeShard'
    BY <1>4 DEF SuperviseReturns, BackoffOver, ReplayLost, ReplayDone, TypeShard, Supervising
  <2> QED
    BY <1>4, <2>1, TypeFrame DEF SuperviseReturns, BackoffOver, ReplayLost, ReplayDone
<1>5. CASE DialFails(s)
  <2>1. TypeShard'
    BY <1>1, <1>5, AttemptType DEF DialFails, TypeShard
  <2>2. TypeBounds' /\ UNCHANGED <<adapterVars, netVars, callerVars>>
    BY <1>5 DEF DialFails, TypeBounds
  <2> QED
    BY <2>1, <2>2, TypeFrame
<1>6. CASE Reconnect(s)
  <2>1. TypeShard' /\ TypeNet'
    BY <1>6 DEF Reconnect, TypeShard, TypeNet, Supervising
  <2> QED
    BY <1>6, <2>1, TypeFrame DEF Reconnect
<1>7. CASE ReplayLine(s)
  <2>1. TypeShard' /\ TypeNet'
    BY <1>7 DEF ReplayLine, TypeShard, TypeNet
  <2> QED
    BY <1>7, <2>1, TypeFrame DEF ReplayLine
<1>8. CASE ReplayFails(s)
  <2>1. TypeShard'
    BY <1>1, <1>8, AttemptType DEF ReplayFails, TypeShard
  <2>2. TypeNet' /\ UNCHANGED <<adapterVars, callerVars, bounds>>
    BY <1>8 DEF ReplayFails, TypeNet
  <2> QED
    BY <2>1, <2>2, TypeFrame
<1> QED
  BY <1>2, <1>3, <1>4, <1>5, <1>6, <1>7, <1>8 DEF SupStep

LEMMA TypeCloseStep ==
  ASSUME TypeOK, CloseBegin \/ CloseStep PROVE TypeOK'
<1> USE DEF TypeOK
<1>1. CASE CloseBegin \/ CloseCancel \/ CloseAwait \/ CloseEvents
  <2>1. TypeAdapter'
    BY <1>1 DEF CloseBegin, CloseCancel, CloseAwait, CloseEvents, TypeAdapter
  <2> QED
    BY <1>1, <2>1, TypeFrame DEF CloseBegin, CloseCancel, CloseAwait, CloseEvents
<1>2. CASE CloseShard
  <2>1. TypeAdapter' /\ TypeNet' /\ TypeShard'
    BY <1>2 DEF CloseShard, Open, TypeAdapter, TypeNet, TypeShard
  <2> QED
    BY <1>2, <2>1, TypeFrame DEF CloseShard
<1> QED
  BY <1>1, <1>2 DEF CloseStep

(* Every variable of the adapter, its shards and its callers keeps its type; *)
(* in particular a caller that is past ircJoin's choice holds a shard.       *)
THEOREM TypeCorrect == Spec => []TypeOK
<1>1. Init => TypeOK
  BY ShardsAssumption DEF Init, TypeOK, TypeAdapter, TypeShard, TypeNet, TypeCaller, TypeBounds
<1>2. TypeOK /\ UNCHANGED vars => TypeOK'
  BY TypeFrame DEF TypeOK, vars
<1>3. TypeOK /\ [Next]_vars => TypeOK'
  BY <1>2, TypeCallerStep, TypeSupStep, TypeCloseStep DEF Next
<1> QED
  BY <1>1, <1>3, PTL DEF Spec

-----------------------------------------------------------------------------
(* A reconnect loses no membership.                                        *)

(* A published connection is the newest one, a shard that is not open yet    *)
(* is blank, and callers hold open shards.                                   *)
Published == \A s \in Shards : conn[s] = 0 \/ conn[s] = sock[s]
Blank == \A s \in Shards : s > opened => chans[s] = {} /\ sup[s] = "none"
Holding ==
  \A c \in Channels :
    pc[c] \in {"add", "joinline", "remove", "partline"} => at[c] <= opened

(* Reading and replaying need a published connection, and only replaying     *)
(* leaves JOINs to write.                                                    *)
Phases ==
  \A s \in Shards : /\ sup[s] \in {"read", "join"} => conn[s] # 0
                    /\ sup[s] # "join" => replay[s] = {}

(* A caller about to write PART has taken its channel out of the set.        *)
Parting == \A c \in Channels : pc[c] = "partline" => c \notin chans[at[c]]

(* Every channel of a connected shard is joined, or will be by the replay,   *)
(* or will be by a caller that holds this very connection.                   *)
Pending(s, c) ==
  \/ c \in wire[s]
  \/ c \in replay[s]
  \/ pc[c] = "joinline" /\ at[c] = s /\ to[c] = sock[s]
Covered ==
  \A s \in Shards : link[s] = "up" /\ conn[s] # 0 =>
                      \A c \in chans[s] : Pending(s, c)

ReplayInv == TypeOK /\ Published /\ Blank /\ Holding /\ Phases /\ Parting /\ Covered

LEMMA ReplayInit == Init => ReplayInv
<1> SUFFICES ASSUME Init PROVE ReplayInv
  OBVIOUS
<1>1. TypeOK
  BY ShardsAssumption DEF Init, TypeOK, TypeAdapter, TypeShard, TypeNet, TypeCaller, TypeBounds
<1> QED
  BY <1>1 DEF Init, ReplayInv, Published, Blank, Holding, Phases, Parting, Covered

LEMMA ReplayFrame ==
  ASSUME ReplayInv, TypeOK', UNCHANGED <<opened, shardVars, netVars, callerVars>>
  PROVE  ReplayInv'
BY DEF ReplayInv, Published, Blank, Holding, Phases, Parting, Covered, Pending,
       shardVars, netVars, callerVars

LEMMA NatUnion ==
  ASSUME NEW S, \A x \in S : x \in Nat, NEW y, y \in S \/ y = 0 PROVE y \in Nat
OBVIOUS

LEMMA AtNat == TypeCaller => \A d \in Channels : at[d] \in Nat
<1> SUFFICES ASSUME TypeCaller, NEW d \in Channels PROVE at[d] \in Nat
  OBVIOUS
<1>1. at[d] \in Shards \/ at[d] = 0
  BY DEF TypeCaller
<1>2. \A x \in Shards : x \in Nat
  BY ShardsAssumption
<1> QED
  BY <1>1, <1>2, NatUnion

LEMMA ReplayCaller ==
  ASSUME ReplayInv, NEW c \in Channels, CallerStep(c) \/ BeginJoin(c) \/ BeginLeave(c)
  PROVE  ReplayInv'
<1>0. TypeOK /\ TypeOK'
  BY TypeCallerStep DEF ReplayInv
<1> USE ShardsAssumption DEF ReplayInv, TypeOK
<1>1. CASE \/ BeginJoin(c) \/ BeginLeave(c) \/ PickNothing(c) \/ PickSpare(c)
           \/ PickDialFails(c) \/ FindShard(c) \/ FindNothing(c) \/ JoinClosed(c)
  <2>1. UNCHANGED <<opened, shardVars, netVars>>
    BY <1>1 DEF BeginJoin, BeginLeave, PickNothing, PickSpare, PickDialFails,
                FindShard, FindNothing, JoinClosed, adapterVars
  <2>2. /\ pc[c] \notin {"joinline", "partline"}
        /\ \A d \in Channels : d # c => pc'[d] = pc[d] /\ at'[d] = at[d] /\ to'[d] = to[d]
        /\ pc'[c] # "partline"
    BY <1>1, <1>0 DEF BeginJoin, BeginLeave, PickNothing, PickSpare, PickDialFails,
                FindShard, FindNothing, JoinClosed, MayRoute, Goto, Return, TypeCaller
  <2>3. Published' /\ Blank' /\ Phases'
    BY <2>1 DEF Published, Blank, Phases, shardVars, netVars
  <2>4. Parting'
    BY <2>1, <2>2 DEF Parting, shardVars
  <2>6. Holding'
    <3>1. CASE PickSpare(c)
      <4>1. PICK s \in Shards : Spare(s) /\ at' = [at EXCEPT ![c] = s]
        BY <3>1 DEF PickSpare
      <4> QED
        BY <1>0, <2>1, <2>2, <4>1 DEF Spare, Open, Holding, TypeCaller
    <3>2. CASE FindShard(c)
      <4>1. PICK s \in Shards : Has(s, c) /\ at' = [at EXCEPT ![c] = s]
        BY <3>2 DEF FindShard
      <4> QED
        BY <1>0, <2>1, <2>2, <4>1 DEF Has, Open, Holding, TypeCaller
    <3>3. CASE ~PickSpare(c) /\ ~FindShard(c)
      <4>1. pc'[c] \in {"idle", "pick", "find"}
        BY <1>1, <1>0, <3>3 DEF BeginJoin, BeginLeave, PickNothing, PickDialFails,
                FindNothing, JoinClosed, Goto, Return, TypeCaller
      <4> QED
        BY <1>0, <2>1, <2>2, <4>1 DEF Holding
    <3> QED
      BY <3>1, <3>2, <3>3
  <2>5. Covered'
    BY <1>0, <2>1, <2>2 DEF Covered, Pending, shardVars, netVars, TypeShard
  <2> QED
    BY <1>0, <2>3, <2>4, <2>5, <2>6
<1>2. CASE PickNew(c)
  <2>1. PICK s \in Shards :
          /\ s = opened + 1 /\ opened' = s
          /\ at' = [at EXCEPT ![c] = s]
          /\ conn' = [conn EXCEPT ![s] = 1] /\ sock' = [sock EXCEPT ![s] = 1]
          /\ link' = [link EXCEPT ![s] = "up"] /\ sup' = [sup EXCEPT ![s] = "read"]
    BY <1>2 DEF PickNew
  <2>2. /\ pc[c] = "pick" /\ pc' = [pc EXCEPT ![c] = "add"]
        /\ UNCHANGED <<chans, replay, wire, to>>
    BY <1>2 DEF PickNew, MayRoute, Goto
  <2>3. chans[s] = {} /\ sup[s] = "none" /\ replay[s] = {}
    BY <1>0, <2>1 DEF Blank, Phases, TypeAdapter
  <2>4. Published' /\ Phases'
    BY <1>0, <2>1, <2>2, <2>3 DEF Published, Phases, TypeShard, TypeNet
  <2>5. Blank'
    BY <1>0, <2>1, <2>2 DEF Blank, TypeShard, TypeAdapter
  <2>6. Parting'
    BY <1>0, <2>1, <2>2 DEF Parting, TypeCaller
  <2>7. Covered'
    BY <1>0, <2>1, <2>2, <2>3 DEF Covered, Pending, TypeShard, TypeNet, TypeCaller
  <2>8. Holding'
    <3>1. \A d \in Channels : at[d] \in Nat
      BY <1>0, AtNat
    <3> QED
      BY <1>0, <2>1, <2>2, <3>1 DEF Holding, TypeCaller, TypeAdapter
  <2> QED
    BY <1>0, <2>4, <2>5, <2>6, <2>7, <2>8
<1>3. CASE ShardJoin(c)
  <2>1. /\ pc[c] = "add" /\ at[c] \in Shards
        /\ chans' = [chans EXCEPT ![at[c]] = @ \cup {c}]
        /\ UNCHANGED <<opened, conn, sup, replay, sock, link, wire>>
    BY <1>3, <1>0 DEF ShardJoin, Record, TypeCaller, adapterVars, netVars
  <2>2. /\ \A d \in Channels : d # c => pc'[d] = pc[d] /\ at'[d] = at[d] /\ to'[d] = to[d]
        /\ pc'[c] = "idle" \/ (pc'[c] = "joinline" /\ at'[c] = at[c])
        /\ conn[at[c]] # 0 => pc'[c] = "joinline" /\ at'[c] = at[c] /\ to'[c] = conn[at[c]]
    BY <1>3, <1>0 DEF ShardJoin, Goto, Return, TypeCaller
  <2>3. Published' /\ Phases'
    BY <2>1 DEF Published, Phases
  <2>4. Blank'
    BY <1>0, <2>1 DEF Blank, Holding, TypeShard, TypeAdapter
  <2>5. Holding'
    BY <1>0, <2>1, <2>2 DEF Holding, TypeCaller
  <2>6. Parting'
    BY <1>0, <2>1, <2>2 DEF Parting, TypeCaller, TypeShard
  <2>7. Covered'
    <3> SUFFICES ASSUME NEW s \in Shards, link[s] = "up", conn[s] # 0,
                        NEW d \in chans'[s]
                 PROVE  Pending(s, d)'
      BY <2>1 DEF Covered
    <3>1. CASE d \in chans[s]
      <4>1. Pending(s, d) /\ d \in Channels
        BY <1>0, <3>1 DEF Covered, TypeShard
      <4> QED
        BY <2>1, <2>2, <4>1 DEF Pending
    <3>2. CASE d \notin chans[s]
      <4>1. s = at[c] /\ d = c
        BY <1>0, <2>1, <3>2 DEF TypeShard
      <4> QED
        BY <1>0, <2>1, <2>2, <4>1 DEF Pending, Published
    <3> QED
      BY <3>1, <3>2
  <2> QED
    BY <1>0, <2>3, <2>4, <2>5, <2>6, <2>7
<1>4. CASE ShardLeave(c)
  <2>1. /\ pc[c] = "remove" /\ at[c] \in Shards
        /\ chans' = [chans EXCEPT ![at[c]] = @ \ {c}]
        /\ UNCHANGED <<opened, conn, sup, replay, sock, link, wire>>
    BY <1>4, <1>0 DEF ShardLeave, TypeCaller, adapterVars, netVars
  <2>2. /\ \A d \in Channels : d # c => pc'[d] = pc[d] /\ at'[d] = at[d] /\ to'[d] = to[d]
        /\ pc'[c] \in {"idle", "partline"}
        /\ pc'[c] = "partline" => at'[c] = at[c]
    BY <1>4, <1>0 DEF ShardLeave, Goto, Return, TypeCaller
  <2>3. Published' /\ Phases'
    BY <2>1 DEF Published, Phases
  <2>4. Blank'
    BY <1>0, <2>1 DEF Blank, TypeShard, TypeAdapter
  <2>5. Holding'
    BY <1>0, <2>1, <2>2 DEF Holding, TypeCaller
  <2>6. Parting'
    BY <1>0, <2>1, <2>2 DEF Parting, TypeCaller, TypeShard
  <2>7. Covered'
    BY <1>0, <2>1, <2>2 DEF Covered, Pending, TypeShard
  <2> QED
    BY <1>0, <2>3, <2>4, <2>5, <2>6, <2>7
<1>5. CASE JoinLine(c) \/ PartLine(c)
  <2>1. /\ UNCHANGED <<opened, shardVars, sock, link>> /\ at[c] \in Shards
        /\ \A d \in Channels : d # c => pc'[d] = pc[d] /\ at'[d] = at[d] /\ to'[d] = to[d]
        /\ pc'[c] = "idle"
    BY <1>5, <1>0 DEF JoinLine, PartLine, Return, Goto, TypeCaller, adapterVars
  <2>2. Published' /\ Blank' /\ Phases'
    BY <2>1 DEF Published, Blank, Phases, shardVars
  <2>3. Holding' /\ Parting'
    BY <2>1 DEF Holding, Parting, shardVars
  <2>4. \A s \in Shards : \A d \in Channels : d # c /\ d \in wire[s] => d \in wire'[s]
    BY <1>5, <1>0, <2>1 DEF JoinLine, PartLine, TypeNet
  <2>5. CASE JoinLine(c)
    <3>1. \A s \in Shards : c \in wire[s] => c \in wire'[s]
      BY <1>0, <2>1, <2>5 DEF JoinLine, TypeNet
    <3>2. \A s \in Shards : link[s] = "up" /\ at[c] = s /\ to[c] = sock[s] => c \in wire'[s]
      BY <1>0, <2>5 DEF JoinLine, Reaches, TypeNet
    <3> QED
      BY <1>0, <2>1, <2>2, <2>3, <2>4, <3>1, <3>2 DEF Covered, Pending, shardVars, TypeShard
  <2>6. CASE PartLine(c)
    <3>1. pc[c] = "partline" /\ c \notin chans[at[c]]
      BY <2>6 DEF PartLine, Parting
    <3>2. \A s \in Shards : s # at[c] => wire'[s] = wire[s]
      BY <1>0, <2>1, <2>6 DEF PartLine, TypeNet
    <3>3. Covered'
      <4> SUFFICES ASSUME NEW s \in Shards, link[s] = "up", conn[s] # 0, NEW d \in chans[s]
                   PROVE  Pending(s, d)'
        BY <2>1 DEF Covered, shardVars
      <4>1. Pending(s, d) /\ d \in Channels
        BY <1>0 DEF Covered, TypeShard
      <4>2. CASE d = c
        BY <2>1, <3>1, <3>2, <4>1, <4>2 DEF Pending, shardVars
      <4>3. CASE d # c
        BY <2>1, <2>4, <4>1, <4>3 DEF Pending, shardVars
      <4> QED
        BY <4>2, <4>3
    <3> QED
      BY <1>0, <2>2, <2>3, <3>3
  <2> QED
    BY <1>5, <2>5, <2>6
<1> QED
  BY <1>1, <1>2, <1>3, <1>4, <1>5 DEF CallerStep

LEMMA ReplaySup ==
  ASSUME ReplayInv, NEW s \in Shards, SupStep(s) \/ Drop(s) PROVE ReplayInv'
<1>0. TypeOK /\ TypeOK'
  BY TypeSupStep DEF ReplayInv
<1> USE ShardsAssumption DEF ReplayInv, TypeOK
<1>1. UNCHANGED <<opened, chans, pc, at, to>>
  BY DEF SupStep, Drop, ReadFails, SuperviseReturns, BackoffOver, DialFails, Reconnect,
         ReplayLine, ReplayFails, ReplayLost, ReplayDone, adapterVars, shardVars, callerVars
<1>2. Holding' /\ Parting'
  BY <1>1 DEF Holding, Parting
<1>3. sup[s] = "none" => Drop(s)
  BY DEF SupStep, ReadFails, SuperviseReturns, BackoffOver, DialFails, Reconnect,
         ReplayLine, ReplayFails, ReplayLost, ReplayDone
<1>4. \A t \in Shards : t # s => /\ sup'[t] = sup[t] /\ conn'[t] = conn[t]
                                 /\ replay'[t] = replay[t] /\ sock'[t] = sock[t]
                                 /\ link'[t] = link[t] /\ wire'[t] = wire[t]
  BY <1>0 DEF SupStep, Drop, ReadFails, SuperviseReturns, BackoffOver, DialFails, Reconnect,
         ReplayLine, ReplayFails, ReplayLost, ReplayDone, NextAttempt, shardVars, netVars,
         TypeShard, TypeNet
<1>5. sup[s] = "none" => sup'[s] = "none"
  BY <1>3 DEF Drop, shardVars
<1>6. Blank'
  BY <1>1, <1>4, <1>5 DEF Blank
<1>7. /\ conn'[s] = 0 \/ conn'[s] = sock'[s]
      /\ sup'[s] \in {"read", "join"} => conn'[s] # 0
      /\ sup'[s] # "join" => replay'[s] = {}
      /\ link'[s] = "up" /\ conn'[s] # 0 => \A c \in chans[s] : Pending(s, c)'
  <2>1. CASE Drop(s)
    BY <1>0, <2>1 DEF Drop, shardVars, Published, Phases, TypeNet
  <2>2. CASE ReadFails(s)
    BY <1>0, <2>2 DEF ReadFails, NextAttempt, Phases, TypeShard
  <2>3. CASE SuperviseReturns(s) \/ BackoffOver(s)
    BY <1>0, <1>1, <2>3 DEF SuperviseReturns, BackoffOver, netVars, Published, Phases, Covered,
                       Pending, TypeShard
  <2>4. CASE DialFails(s)
    BY <1>0, <1>1, <2>4 DEF DialFails, NextAttempt, netVars, Published, Phases, Covered,
                       Pending, TypeShard
  <2>5. CASE Reconnect(s)
    BY <1>0, <1>1, <2>5 DEF Reconnect, Pending, TypeShard, TypeNet
  <2>6. CASE ReplayLine(s)
    BY <1>0, <1>1, <2>6 DEF ReplayLine, Published, Phases, Covered, Pending, TypeShard, TypeNet
  <2>7. CASE ReplayFails(s)
    BY <1>0, <2>7 DEF ReplayFails, NextAttempt, TypeShard, TypeNet
  <2>8. CASE ReplayLost(s)
    BY <1>0, <1>1, <2>8 DEF ReplayLost, netVars, Published, Phases, TypeShard
  <2>9. CASE ReplayDone(s)
    BY <1>0, <1>1, <2>9 DEF ReplayDone, netVars, Published, Phases, Covered, Pending, TypeShard
  <2> QED
    BY <2>1, <2>2, <2>3, <2>4, <2>5, <2>6, <2>7, <2>8, <2>9 DEF SupStep
<1>8. Published' /\ Phases' /\ Covered'
  BY <1>1, <1>4, <1>7 DEF Published, Phases, Covered, Pending
<1> QED
  BY <1>0, <1>2, <1>6, <1>8

LEMMA ReplayClose ==
  ASSUME ReplayInv, CloseBegin \/ CloseStep PROVE ReplayInv'
<1>0. TypeOK /\ TypeOK'
  BY TypeCloseStep DEF ReplayInv
<1>1. CASE CloseBegin \/ CloseCancel \/ CloseAwait \/ CloseEvents
  BY <1>0, <1>1, ReplayFrame DEF CloseBegin, CloseCancel, CloseAwait, CloseEvents
<1>2. CASE CloseShard
  <2>1. /\ UNCHANGED <<opened, chans, conn, sup, replay, sock, callerVars>>
        /\ \A s \in Shards : link'[s] = "up" /\ conn[s] # 0 =>
             link[s] = "up" /\ wire'[s] = wire[s]
    BY <1>0, <1>2 DEF CloseShard, TypeOK, TypeNet
  <2> QED
    BY <1>0, <2>1 DEF ReplayInv, Published, Blank, Holding, Phases, Parting, Covered, Pending,
                 callerVars
<1> QED
  BY <1>1, <1>2 DEF CloseStep

LEMMA ReplayStep == ReplayInv /\ [Next]_vars => ReplayInv'
<1>1. ReplayInv /\ UNCHANGED vars => ReplayInv'
  <2> SUFFICES ASSUME ReplayInv, UNCHANGED vars PROVE ReplayInv'
    OBVIOUS
  <2>1. TypeOK'
    BY TypeFrame DEF ReplayInv, TypeOK, vars
  <2> QED
    BY <2>1, ReplayFrame DEF vars, adapterVars
<1> QED
  BY <1>1, ReplayCaller, ReplaySup, ReplayClose DEF Next

(* "A slug added mid-reconnect is never silently lost" (shard.join), for any *)
(* number of channels, callers, shards, drops and redials.                   *)
THEOREM ReconnectLosesNothing == Spec => []Replayed
<1>3. ReplayInv => Replayed
  BY DEF ReplayInv, Phases, Covered, Pending, Replayed
<1> QED
  BY <1>3, ReplayInit, ReplayStep, PTL DEF Spec

-----------------------------------------------------------------------------
(* Close is quiet.                                                         *)

(* The shards opened are 1..opened; Close has waited for those before cur,   *)
(* and when it is done for all.                                              *)
Numbered == \A i \in 1 .. opened : i \in Shards
Ended(s) == sup[s] \in {"none", "done"}
Waiting ==
  /\ closer \in {"shut", "await"} => \A s \in Shards : s < cur => Ended(s)
  /\ closer = "shut" => cur <= opened + 1 /\ cur > 0
  /\ closer = "await" => cur <= opened /\ cur > 0
  /\ closer = "done" => \A s \in Shards : Ended(s)

CloseInv == TypeOK /\ Blank /\ Holding /\ Numbered /\ Waiting

LEMMA CloseInvFrame ==
  ASSUME CloseInv, TypeOK', Blank', Holding', UNCHANGED <<opened, closer, cur>>,
         \A s \in Shards : Ended(s) => Ended(s)'
  PROVE  CloseInv'
BY DEF CloseInv, Numbered, Waiting

LEMMA CloseInvStep ==
  ASSUME ReplayInv, ReplayInv', CloseInv, [Next]_vars PROVE CloseInv'
<1>0. TypeOK /\ TypeOK' /\ Blank' /\ Holding'
  BY DEF ReplayInv
<1> USE ShardsAssumption DEF TypeOK
<1>1. ASSUME NEW c \in Channels, CallerStep(c) \/ BeginJoin(c) \/ BeginLeave(c)
      PROVE  CloseInv'
  <2>1. CASE PickNew(c)
    <3>1. closer = "idle" /\ UNCHANGED closer /\ opened' \in Shards /\ opened' = opened + 1
      BY <2>1 DEF PickNew, MayRoute, Closed
    <3>2. Numbered'
      BY <1>0, <3>1 DEF CloseInv, Numbered, TypeAdapter
    <3> QED
      BY <1>0, <3>1, <3>2 DEF CloseInv, Waiting
  <2>2. CASE ~PickNew(c)
    <3>1. UNCHANGED <<opened, closer, cur, sup>>
      BY <1>1, <2>2 DEF CallerStep, BeginJoin, BeginLeave, PickNothing, PickSpare,
           PickDialFails, FindShard, FindNothing, JoinClosed, ShardJoin, Record, JoinLine,
           ShardLeave, PartLine, adapterVars, shardVars
    <3> QED
      BY <1>0, <3>1, CloseInvFrame DEF Ended
  <2> QED
    BY <2>1, <2>2
<1>2. ASSUME NEW s \in Shards, SupStep(s) \/ Drop(s) PROVE CloseInv'
  <2>1. UNCHANGED <<opened, closer, cur>>
    BY <1>2 DEF SupStep, Drop, ReadFails, SuperviseReturns, BackoffOver, DialFails, Reconnect,
           ReplayLine, ReplayFails, ReplayLost, ReplayDone, adapterVars
  <2>2. \A t \in Shards : Ended(t) => Ended(t)'
    BY <1>0, <1>2 DEF SupStep, Drop, ReadFails, SuperviseReturns, BackoffOver, DialFails,
           Reconnect, ReplayLine, ReplayFails, ReplayLost, ReplayDone, NextAttempt, shardVars,
           TypeShard, Ended
  <2> QED
    BY <1>0, <2>1, <2>2, CloseInvFrame
<1>3. CASE CloseBegin \/ CloseStep
  <2>1. UNCHANGED <<opened, sup>> /\ Numbered'
    BY <1>3 DEF CloseInv, Numbered, CloseStep, CloseBegin, CloseCancel, CloseShard, CloseAwait, CloseEvents,
                shardVars
  <2>2. CASE CloseBegin \/ CloseCancel
    <3>1. \/ closer' = "cancel"
          \/ closer' = "shut" /\ cur' = 1
      BY <2>2 DEF CloseBegin, CloseCancel
    <3> QED
      BY <1>0, <2>1, <3>1 DEF CloseInv, Waiting, Ended, TypeAdapter
  <2>3. CASE CloseShard
    BY <1>0, <2>1, <2>3 DEF CloseInv, Waiting, Ended, CloseShard, Open
  <2>4. CASE CloseAwait
    <3>1. cur \in Shards /\ cur \in Nat /\ cur' = cur + 1 /\ closer' = "shut" /\ Ended(cur)
      BY <1>0, <2>4 DEF CloseAwait, Waited, Ended, TypeAdapter
    <3>2. cur <= opened
      BY <2>4 DEF CloseAwait, CloseInv, Waiting
    <3>3. \A s \in Shards : s < cur => Ended(s)
      BY <2>4 DEF CloseAwait, CloseInv, Waiting
    <3>4. \A s \in Shards : s < cur' => Ended(s)'
      BY <2>1, <3>1, <3>3 DEF Ended
    <3>5. Waiting'
      BY <1>0, <2>1, <3>1, <3>2, <3>4 DEF Waiting, TypeAdapter
    <3> QED
      BY <1>0, <2>1, <3>5 DEF CloseInv
  <2>5. CASE CloseEvents
    <3>1. cur > opened
      BY <1>0, <2>5 DEF CloseEvents, Open, CloseInv, Waiting, Numbered, TypeAdapter
    <3> QED
      BY <1>0, <2>1, <2>5, <3>1 DEF CloseInv, Waiting, Ended, CloseEvents, Blank, TypeAdapter
  <2> QED
    BY <1>3, <2>2, <2>3, <2>4, <2>5 DEF CloseStep
<1>4. CASE UNCHANGED vars
  BY <1>0, <1>4, CloseInvFrame DEF vars, adapterVars, shardVars, Ended
<1> QED
  BY <1>1, <1>2, <1>3, <1>4 DEF Next

(* close(a.events) happens after every supervisor has returned, also that of *)
(* a shard a concurrent Join opened, for any number of channels and shards:  *)
(* no emit meets a closed channel.                                           *)
THEOREM CloseIsQuiet == Spec => []ClosedMeansQuiet
<1>1. Init => CloseInv
  <2> SUFFICES ASSUME Init PROVE CloseInv
    OBVIOUS
  <2>1. TypeOK /\ Blank /\ Holding
    BY ReplayInit DEF ReplayInv
  <2> QED
    BY <2>1 DEF Init, CloseInv, Numbered, Waiting
<1>4. ReplayInv /\ ReplayInv' /\ CloseInv /\ [Next]_vars => CloseInv'
  BY CloseInvStep
<1>5. CloseInv => ClosedMeansQuiet
  BY DEF CloseInv, Waiting, Ended, ClosedMeansQuiet
<1> QED
  BY <1>1, <1>4, <1>5, ReplayInit, ReplayStep, PTL DEF Spec

-----------------------------------------------------------------------------
(* Held messages and commands.                                               *)

Decided == {"approved", "denied"}
(* A decision on message i is on its way, behind the k-th event. *)
DecisionAfter(k, i) ==
  \E n \in k + 1 .. Len(moPipe) : moPipe[n].type = "resolved" /\ moPipe[n].id = i

HeldTypes ==
  /\ moRows \in Seq(HeldIds) /\ Len(moRows) <= HeldCap
  /\ moTwitch \in [HeldIds -> {"none", "held"} \cup Decided]
  /\ moPipe \in Seq([type : {"held", "resolved"}, id : HeldIds, approved : BOOLEAN])
  /\ moResolve \in [Moderators -> {NoResolve} \cup [pc : {"ask", "emit"}, id : HeldIds, approve : BOOLEAN]]

(* A row is there once; it is held, or the decision that clears it is on its   *)
(* way; so is, behind it, the decision on a message whose arrival is.          *)
Once(s) == \A k, n \in 1 .. Len(s) : s[k] = s[n] => k = n
RowsOnce == Once(moRows)
RowsCleared == \A k \in 1 .. Len(moRows) : moTwitch[moRows[k]] = "held" \/ DecisionAfter(0, moRows[k])
ArrivalsCleared ==
  \A k \in 1 .. Len(moPipe) : moPipe[k].type = "held" =>
    moTwitch[moPipe[k].id] = "held" \/ DecisionAfter(k, moPipe[k].id)
(* A decision is announced only when Twitch has taken it. *)
DecisionsTrue ==
  /\ \A k \in 1 .. Len(moPipe) : moPipe[k].type = "resolved" => moTwitch[moPipe[k].id] \in Decided
  /\ \A m \in Moderators : moResolve[m].pc = "emit" => moTwitch[moResolve[m].id] \in Decided
(* A held message is a row, was dropped by the cap, or is on its way. *)
HeldSomewhere ==
  \A i \in HeldIds : moTwitch[i] = "held" =>
    \/ i \in moEvicted
    \/ \E k \in 1 .. Len(moRows) : moRows[k] = i
    \/ \E k \in 1 .. Len(moPipe) : moPipe[k].type = "held" /\ moPipe[k].id = i
HeldInv == HeldTypes /\ RowsOnce /\ RowsCleared /\ ArrivalsCleared /\ DecisionsTrue /\ HeldSomewhere
-----------------------------------------------------------------------------
LEMMA AppendElements ==
  ASSUME NEW S, NEW s \in Seq(S), NEW e \in S
  PROVE  /\ Append(s, e) \in Seq(S) /\ Len(Append(s, e)) = Len(s) + 1
         /\ \A k \in 1 .. Len(s) : Append(s, e)[k] = s[k]
         /\ Append(s, e)[Len(s) + 1] = e
  OBVIOUS

LEMMA ConcatElements ==
  ASSUME NEW S, NEW s \in Seq(S), NEW t \in Seq(S)
  PROVE  /\ s \o t \in Seq(S) /\ Len(s \o t) = Len(s) + Len(t)
         /\ \A k \in 1 .. Len(s) + Len(t) : (s \o t)[k] = IF k <= Len(s) THEN s[k] ELSE t[k - Len(s)]
  OBVIOUS

LEMMA TailElements ==
  ASSUME NEW S, NEW s \in Seq(S), s # << >>
  PROVE  /\ Tail(s) \in Seq(S) /\ Len(Tail(s)) = Len(s) - 1 /\ Len(s) \in Nat \ {0}
         /\ \A k \in 1 .. Len(s) - 1 : Tail(s)[k] = s[k + 1]
         /\ Head(s) = s[1] /\ Head(s) \in S
  OBVIOUS

(* What the queue holds after add and after remove. *)
LEMMA HeldAddRows ==
  ASSUME NEW rows \in Seq(HeldIds), Len(rows) <= HeldCap, HeldCap \in Nat \ {0}, NEW i \in HeldIds,
         Once(rows),
         NEW new, new = HeldAdd(rows, i)
  PROVE  /\ new \in Seq(HeldIds) /\ Len(new) <= HeldCap
         /\ Once(new) /\ Contains(new, i)
         /\ \A x : Contains(new, x) => x = i \/ Contains(rows, x)
<1>1. CASE Contains(rows, i)
  <2>1. HeldAdd(rows, i) = rows
    BY <1>1 DEF HeldAdd
  <2> QED
    BY <1>1, <2>1 DEF Contains
<1>2. CASE ~Contains(rows, i)
  <2> DEFINE more == Append(rows, i)
  <2>1. /\ more \in Seq(HeldIds) /\ Len(more) = Len(rows) + 1 /\ Len(rows) \in Nat
        /\ \A k \in 1 .. Len(rows) : more[k] = rows[k]
        /\ more[Len(rows) + 1] = i
    BY AppendElements
  <2>2. \A k, n \in 1 .. Len(more) : more[k] = more[n] => k = n
    BY <1>2, <2>1 DEF Contains, Once
  <2>3. CASE Len(more) > HeldCap
    <3>1. HeldAdd(rows, i) = SubSeq(more, 2, Len(more))
      BY <1>2, <2>3 DEF HeldAdd
    <3> HIDE DEF more
    <3>2. /\ SubSeq(more, 2, Len(more)) \in Seq(HeldIds) /\ Len(SubSeq(more, 2, Len(more))) = Len(rows)
          /\ \A k \in 1 .. Len(rows) : SubSeq(more, 2, Len(more))[k] = more[k + 1]
      BY <2>1
    <3>3. Len(rows) >= 1
      BY <2>1, <2>3
    <3>4. new = SubSeq(more, 2, Len(more))
      BY <3>1
    <3>5. /\ new \in Seq(HeldIds) /\ Len(new) = Len(rows)
          /\ \A k \in 1 .. Len(new) : new[k] = more[k + 1] /\ k + 1 \in 1 .. Len(more)
      BY <2>1, <3>2, <3>4
    <3>6. new[Len(rows)] = i
      BY <2>1, <3>3, <3>5
    <3>7. \A k, n \in 1 .. Len(new) : new[k] = new[n] => k = n
      <4> TAKE k, n \in 1 .. Len(new)
      <4> HAVE new[k] = new[n]
      <4>1. k + 1 \in 1 .. Len(more) /\ n + 1 \in 1 .. Len(more) /\ more[k + 1] = more[n + 1]
        BY <3>5
      <4>2. k + 1 = n + 1
        BY <2>2, <4>1
      <4>3. k \in Int /\ n \in Int
        BY <2>1, <3>5
      <4> QED
        BY <4>2, <4>3
    <3>8. \A k \in 1 .. Len(new) : new[k] = i \/ \E n \in 1 .. Len(rows) : rows[n] = new[k]
      <4> TAKE k \in 1 .. Len(new)
      <4>1. k + 1 \in 1 .. Len(more) /\ new[k] = more[k + 1]
        BY <3>5
      <4>2. k + 1 \in 1 .. Len(rows) \/ k + 1 = Len(rows) + 1
        BY <2>1, <4>1
      <4> QED
        BY <2>1, <4>1, <4>2
    <3>9. Len(new) <= HeldCap
      BY <3>5
    <3>10. \E k \in 1 .. Len(new) : new[k] = i
      <4>1. Len(rows) \in 1 .. Len(new)
        BY <2>1, <3>3, <3>5
      <4> QED
        BY <3>6, <4>1
    <3>11. \A x : Contains(new, x) => x = i \/ Contains(rows, x)
      BY <3>8 DEF Contains
    <3>12. Once(new) /\ Contains(new, i)
      BY <3>7, <3>10 DEF Contains, Once
    <3> QED
      BY <3>5, <3>9, <3>11, <3>12
  <2>4. CASE ~(Len(more) > HeldCap)
    <3>1. HeldAdd(rows, i) = SubSeq(more, 1, Len(more))
      BY <1>2, <2>4 DEF HeldAdd
    <3> HIDE DEF more
    <3>2. SubSeq(more, 1, Len(more)) = more
      BY <2>1
    <3>3. \E k \in 1 .. Len(more) : more[k] = i
      BY <2>1
    <3>4. \A k \in 1 .. Len(more) : more[k] = i \/ \E n \in 1 .. Len(rows) : rows[n] = more[k]
      BY <2>1
    <3> QED
      BY <2>1, <2>2, <2>4, <3>1, <3>2, <3>3, <3>4 DEF Contains, Once
  <2> QED
    BY <2>3, <2>4
<1> QED
  BY <1>1, <1>2

LEMMA HeldRemoveRows ==
  ASSUME NEW rows \in Seq(HeldIds), NEW i \in HeldIds,
         Once(rows),
         NEW new, new = HeldRemove(rows, i)
  PROVE  /\ new \in Seq(HeldIds) /\ Len(new) <= Len(rows)
         /\ Once(new) /\ ~Contains(new, i)
         /\ \A x : x # i => (Contains(new, x) <=> Contains(rows, x))
<1>1. CASE ~Contains(rows, i)
  <2>1. HeldRemove(rows, i) = rows
    BY <1>1 DEF HeldRemove
  <2> QED
    BY <1>1, <2>1 DEF Contains
<1>2. CASE Contains(rows, i)
  <2> DEFINE pos == CHOOSE k \in DOMAIN rows : rows[k] = i
  <2>1. pos \in 1 .. Len(rows) /\ rows[pos] = i /\ Len(rows) \in Nat
    BY <1>2 DEF Contains
  <2>2. HeldRemove(rows, i) = SubSeq(rows, 1, pos - 1) \o SubSeq(rows, pos + 1, Len(rows))
    BY <1>2 DEF HeldRemove, RemoveAt
  <2> HIDE DEF pos
  <2> DEFINE a == SubSeq(rows, 1, pos - 1)  b == SubSeq(rows, pos + 1, Len(rows)) 
  <2>10. new = a \o b
    BY <2>2
  <2>3. /\ a \in Seq(HeldIds) /\ Len(a) = pos - 1
        /\ \A k \in 1 .. pos - 1 : a[k] = rows[k]
    BY <2>1
  <2>4. /\ b \in Seq(HeldIds) /\ Len(b) = Len(rows) - pos
        /\ \A k \in 1 .. Len(rows) - pos : b[k] = rows[pos + k]
    BY <2>1
  <2> HIDE DEF a, b
  <2>5. /\ new \in Seq(HeldIds) /\ Len(new) = Len(rows) - 1
        /\ \A k \in 1 .. pos - 1 : new[k] = a[k]
        /\ \A k \in pos .. Len(rows) - 1 : new[k] = b[k - pos + 1]
    <3>1. Len(a) \in Nat /\ Len(b) \in Nat /\ Len(a) + Len(b) = Len(rows) - 1
      BY <2>1, <2>3, <2>4
    <3>2. /\ a \o b \in Seq(HeldIds) /\ Len(a \o b) = Len(a) + Len(b)
          /\ \A k \in 1 .. Len(a) + Len(b) : (a \o b)[k] = IF k <= Len(a) THEN a[k] ELSE b[k - Len(a)]
      BY <2>3, <2>4, ConcatElements
    <3>3. \A k \in 1 .. Len(rows) - 1 : new[k] = IF k <= pos - 1 THEN a[k] ELSE b[k - (pos - 1)]
      BY <2>3, <2>10, <3>1, <3>2
    <3>4. \A k \in 1 .. pos - 1 : k \in 1 .. Len(rows) - 1
      BY <2>1
    <3>5. \A k \in pos .. Len(rows) - 1 : k \in 1 .. Len(rows) - 1 /\ ~(k <= pos - 1) /\ k - (pos - 1) = k - pos + 1
      BY <2>1
    <3> QED
      BY <2>10, <3>1, <3>2, <3>3, <3>4, <3>5
  <2>6. \A k \in 1 .. Len(rows) - 1 : new[k] = IF k < pos THEN rows[k] ELSE rows[k + 1]
    <3> TAKE k \in 1 .. Len(rows) - 1
    <3>1. CASE k < pos
      BY <2>1, <2>3, <2>5, <3>1
    <3>2. CASE ~(k < pos)
      <4>1. k \in pos .. Len(rows) - 1 /\ k - pos + 1 \in 1 .. Len(rows) - pos /\ pos + (k - pos + 1) = k + 1
        BY <2>1, <3>2
      <4> QED
        BY <2>4, <2>5, <3>2, <4>1
    <3> QED
      BY <3>1, <3>2
  <2>7. \A k \in 1 .. Len(new) : new[k] # i /\ \E n \in 1 .. Len(rows) : rows[n] = new[k]
    <3> TAKE k \in 1 .. Len(new)
    <3>0. k \in 1 .. Len(rows) - 1 /\ new[k] = IF k < pos THEN rows[k] ELSE rows[k + 1]
      BY <2>5, <2>6
    <3>1. PICK n \in 1 .. Len(rows) : n # pos /\ new[k] = rows[n]
      <4>1. CASE k < pos
        BY <2>1, <3>0, <4>1
      <4>2. CASE ~(k < pos)
        <5>1. k + 1 \in 1 .. Len(rows) /\ k + 1 # pos
          BY <2>1, <3>0, <4>2
        <5> QED
          BY <3>0, <4>2, <5>1
      <4> QED
        BY <4>1, <4>2
    <3>2. rows[n] # i
      BY <2>1, <3>1 DEF Once
    <3> QED
      BY <3>1, <3>2
  <2>8. \A n \in 1 .. Len(rows) : rows[n] # i => \E k \in 1 .. Len(new) : new[k] = rows[n]
    <3> SUFFICES ASSUME NEW n \in 1 .. Len(rows), rows[n] # i PROVE \E k \in 1 .. Len(new) : new[k] = rows[n]
      OBVIOUS
    <3>1. CASE n < pos
      <4>1. n \in 1 .. Len(rows) - 1 /\ new[n] = rows[n]
        BY <2>1, <2>6, <3>1
      <4> QED
        BY <2>5, <4>1
    <3>2. CASE n > pos
      <4>1. n - 1 \in 1 .. Len(rows) - 1 /\ ~(n - 1 < pos) /\ (n - 1) + 1 = n
        BY <2>1, <3>2
      <4>2. new[n - 1] = rows[n]
        BY <2>6, <4>1
      <4> QED
        BY <2>5, <4>1, <4>2
    <3> QED
      BY <2>1, <3>1, <3>2
  <2>9. Once(new)
    <3> SUFFICES ASSUME NEW k \in 1 .. Len(new), NEW n \in 1 .. Len(new), new[k] = new[n] PROVE k = n
      BY DEF Once
    <3> DEFINE from(j) == IF j < pos THEN j ELSE j + 1
    <3>1. from(k) \in 1 .. Len(rows) /\ from(n) \in 1 .. Len(rows) /\ k \in Int /\ n \in Int
      BY <2>1, <2>5
    <3>2. rows[from(k)] = rows[from(n)]
      BY <2>5, <2>6
    <3>3. PICK u \in 1 .. Len(rows) : u = from(k)
      BY <3>1
    <3>4. PICK v \in 1 .. Len(rows) : v = from(n)
      BY <3>1
    <3>5. rows[u] = rows[v]
      BY <3>2, <3>3, <3>4
    <3>6. u = v
      BY <3>5 DEF Once
    <3>7. (IF k < pos THEN k ELSE k + 1) = IF n < pos THEN n ELSE n + 1
      BY <3>3, <3>4, <3>6
    <3>8. k \in Int /\ n \in Int /\ pos \in Int
      BY <2>1, <3>1
    <3>9. \A x, y, z \in Int : (IF x < z THEN x ELSE x + 1) = (IF y < z THEN y ELSE y + 1) => x = y
      OBVIOUS
    <3> QED
      BY <3>7, <3>8, <3>9, Zenon
  <2> QED
    <3>1. \A x : x # i => (Contains(new, x) <=> Contains(rows, x))
      <4> TAKE x
      <4> HAVE x # i
      <4>1. Contains(new, x) => Contains(rows, x)
        BY <2>7, Zenon DEF Contains
      <4>2. Contains(rows, x) => Contains(new, x)
        BY <2>8, Zenon DEF Contains
      <4> QED
        BY <4>1, <4>2
    <3>2. ~Contains(new, i)
      BY <2>7 DEF Contains
    <3>3. Len(new) <= Len(rows)
      BY <2>1, <2>5
    <3> QED
      BY <2>5, <2>9, <3>1, <3>2, <3>3
<1> QED
  BY <1>1, <1>2

(* An event joins the pipe, together with what Twitch did: a message arrives   *)
(* in the state the event tells of.                                            *)
HeldEvents == [type : {"held", "resolved"}, id : HeldIds, approved : BOOLEAN]
LEMMA EventAnnounced ==
  ASSUME HeldInv, NEW e \in HeldEvents, moPipe' = Append(moPipe, e), UNCHANGED <<moRows, moEvicted>>,
         moTwitch' \in [HeldIds -> {"none", "held"} \cup Decided],
         \A j \in HeldIds \ {e.id} : moTwitch'[j] = moTwitch[j],
         e.type = "held" => moTwitch[e.id] \in {"none", "held"} /\ moTwitch'[e.id] = "held",
         e.type = "resolved" => moTwitch[e.id] \in {"held"} \cup Decided /\ moTwitch'[e.id] \in Decided
  PROVE  /\ moPipe' \in Seq(HeldEvents)
         /\ RowsOnce' /\ RowsCleared' /\ ArrivalsCleared' /\ HeldSomewhere'
         /\ \A k \in 1 .. Len(moPipe') : moPipe'[k].type = "resolved" => moTwitch'[moPipe'[k].id] \in Decided
<1>1. /\ moPipe \in Seq(HeldEvents) /\ moRows \in Seq(HeldIds)
      /\ moTwitch \in [HeldIds -> {"none", "held"} \cup Decided]
  BY DEF HeldInv, HeldTypes, HeldEvents
<1>2. /\ moPipe' \in Seq(HeldEvents) /\ Len(moPipe') = Len(moPipe) + 1 /\ Len(moPipe) \in Nat
      /\ \A k \in 1 .. Len(moPipe) : moPipe'[k] = moPipe[k] /\ moPipe[k].id \in HeldIds
      /\ moPipe'[Len(moPipe) + 1] = e
      /\ e.id \in HeldIds /\ e.type \in {"held", "resolved"}
  <2>1. /\ Append(moPipe, e) \in Seq(HeldEvents) /\ Len(Append(moPipe, e)) = Len(moPipe) + 1
        /\ \A k \in 1 .. Len(moPipe) : Append(moPipe, e)[k] = moPipe[k]
        /\ Append(moPipe, e)[Len(moPipe) + 1] = e
    BY <1>1, AppendElements
  <2>2. \A k \in 1 .. Len(moPipe) : moPipe[k] \in HeldEvents
    BY <1>1
  <2> QED
    BY <1>1, <2>1, <2>2 DEF HeldEvents
<1>3. \A k \in 0 .. Len(moPipe), i \in HeldIds : DecisionAfter(k, i) => DecisionAfter(k, i)'
  BY <1>2 DEF DecisionAfter
<1>4. e.type = "resolved" => \A k \in 0 .. Len(moPipe) : DecisionAfter(k, e.id)'
  <2> SUFFICES ASSUME e.type = "resolved", NEW k \in 0 .. Len(moPipe) PROVE DecisionAfter(k, e.id)'
    OBVIOUS
  <2>1. Len(moPipe) + 1 \in k + 1 .. Len(moPipe')
    BY <1>2
  <2> QED
    BY <1>2, <2>1 DEF DecisionAfter
<1>5. \A i \in HeldIds, k \in 0 .. Len(moPipe) :
        moTwitch[i] = "held" \/ DecisionAfter(k, i) => moTwitch'[i] = "held" \/ DecisionAfter(k, i)'
  BY <1>2, <1>3, <1>4
<1>6. RowsOnce' /\ RowsCleared'
  <2>1. \A k \in 1 .. Len(moRows) : moRows[k] \in HeldIds
    BY <1>1
  <2>2. \A k \in 1 .. Len(moRows) : moTwitch'[moRows[k]] = "held" \/ DecisionAfter(0, moRows[k])'
    BY <1>2, <1>5, <2>1 DEF HeldInv, RowsCleared
  <2> QED
    BY <2>2 DEF HeldInv, RowsOnce, RowsCleared, DecisionAfter
<1>7. ArrivalsCleared'
  <2>1. \A k \in 1 .. Len(moPipe) : moPipe[k].type = "held" =>
          moTwitch'[moPipe[k].id] = "held" \/ DecisionAfter(k, moPipe[k].id)'
    BY <1>2, <1>5 DEF HeldInv, ArrivalsCleared
  <2>2. \A k \in 1 .. Len(moPipe') : moPipe'[k].type = "held" =>
          moTwitch'[moPipe'[k].id] = "held" \/ \E n \in k + 1 .. Len(moPipe') : moPipe'[n].type = "resolved" /\ moPipe'[n].id = moPipe'[k].id
    BY <1>2, <2>1 DEF DecisionAfter
  <2> QED
    BY <2>2 DEF ArrivalsCleared, DecisionAfter
<1>8. HeldSomewhere'
  <2> SUFFICES ASSUME NEW i \in HeldIds, moTwitch'[i] = "held"
               PROVE  \/ i \in moEvicted
                      \/ \E k \in 1 .. Len(moRows) : moRows[k] = i
                      \/ \E k \in 1 .. Len(moPipe') : moPipe'[k].type = "held" /\ moPipe'[k].id = i
    BY DEF HeldSomewhere
  <2>1. CASE i = e.id
    <3>1. e.type = "held" /\ Len(moPipe) + 1 \in 1 .. Len(moPipe')
      BY <1>2, <2>1 DEF Decided
    <3> QED
      BY <1>2, <2>1, <3>1
  <2>2. CASE i # e.id
    <3>1. moTwitch[i] = "held"
      BY <2>2
    <3>2. \A k \in 1 .. Len(moPipe) : k \in 1 .. Len(moPipe')
      BY <1>2
    <3> QED
      BY <1>2, <3>1, <3>2 DEF HeldInv, HeldSomewhere
  <2> QED
    BY <2>1, <2>2
<1>9. \A k \in 1 .. Len(moPipe') : moPipe'[k].type = "resolved" => moTwitch'[moPipe'[k].id] \in Decided
  <2> SUFFICES ASSUME NEW k \in 1 .. Len(moPipe'), moPipe'[k].type = "resolved" PROVE moTwitch'[moPipe'[k].id] \in Decided
    OBVIOUS
  <2>1. CASE k = Len(moPipe) + 1
    BY <1>2, <2>1
  <2>2. CASE k # Len(moPipe) + 1
    <3>1. k \in 1 .. Len(moPipe) /\ moPipe'[k] = moPipe[k]
      BY <1>2, <2>2
    <3>2. moTwitch[moPipe[k].id] \in Decided
      BY <3>1 DEF HeldInv, DecisionsTrue
    <3>3. moPipe[k].id # e.id \/ e.type = "resolved"
      BY <1>2, <3>2 DEF Decided
    <3> QED
      BY <1>2, <3>1, <3>2, <3>3
  <2> QED
    BY <2>1, <2>2
<1> QED
  BY <1>2, <1>6, <1>7, <1>8, <1>9

(* The event at the head of the pipe reaches the queue. *)
LEMMA EventConsumed ==
  ASSUME ModerationConstants, HeldInv, HeldConsume PROVE HeldInv'
<1> DEFINE ev == Head(moPipe)
<1>1. /\ moPipe \in Seq(HeldEvents) /\ moRows \in Seq(HeldIds) /\ Len(moRows) <= HeldCap
      /\ Once(moRows)
      /\ HeldCap \in Nat \ {0} /\ Len(moRows) \in Nat
  BY DEF HeldInv, HeldTypes, HeldEvents, RowsOnce, ModerationConstants
<1>2. /\ moPipe # << >> /\ moPipe' = Tail(moPipe)
      /\ moRows' = IF ev.type = "held" THEN HeldAdd(moRows, ev.id) ELSE HeldRemove(moRows, ev.id)
      /\ moEvicted' = IF ev.type = "held" THEN moEvicted \cup (ToSet(moRows) \ ToSet(moRows')) ELSE moEvicted
      /\ moTwitch' = moTwitch /\ moResolve' = moResolve
  BY DEF HeldConsume
<1>3. /\ moPipe' \in Seq(HeldEvents) /\ Len(moPipe') = Len(moPipe) - 1 /\ Len(moPipe) \in Nat \ {0}
      /\ \A k \in 1 .. Len(moPipe) - 1 : moPipe'[k] = moPipe[k + 1]
      /\ ev = moPipe[1] /\ ev \in HeldEvents /\ ev.id \in HeldIds /\ ev.type \in {"held", "resolved"}
  <2>1. /\ Tail(moPipe) \in Seq(HeldEvents) /\ Len(Tail(moPipe)) = Len(moPipe) - 1 /\ Len(moPipe) \in Nat \ {0}
        /\ \A k \in 1 .. Len(moPipe) - 1 : Tail(moPipe)[k] = moPipe[k + 1]
        /\ Head(moPipe) = moPipe[1] /\ Head(moPipe) \in HeldEvents
    BY <1>1, <1>2, TailElements
  <2> QED
    BY <1>2, <2>1 DEF HeldEvents
<1> HIDE DEF ev
<1>13. /\ Len(moPipe) \in Nat \ {0} /\ Len(moPipe') = Len(moPipe) - 1
       /\ \A k \in 1 .. Len(moPipe) - 1 : moPipe'[k] = moPipe[k + 1]
  BY <1>3
<1>4. \A k \in 1 .. Len(moPipe), i \in HeldIds : DecisionAfter(k, i) => DecisionAfter(k - 1, i)'
  <2> SUFFICES ASSUME NEW k \in 1 .. Len(moPipe), NEW i \in HeldIds, DecisionAfter(k, i) PROVE DecisionAfter(k - 1, i)'
    OBVIOUS
  <2>1. PICK n \in k + 1 .. Len(moPipe) : moPipe[n].type = "resolved" /\ moPipe[n].id = i
    BY DEF DecisionAfter
  <2>2. n - 1 \in (k - 1) + 1 .. Len(moPipe') /\ moPipe'[n - 1] = moPipe[n]
    <3>1. n \in Int /\ n - 1 \in 1 .. Len(moPipe) - 1 /\ n - 1 + 1 = n
      BY <1>13
    <3>2. n - 1 \in (k - 1) + 1 .. Len(moPipe')
      BY <1>13, <3>1
    <3>3. moPipe'[n - 1] = moPipe[n - 1 + 1]
      BY <1>13, <3>1
    <3> QED
      BY <3>1, <3>2, <3>3
  <2> QED
    BY <2>1, <2>2 DEF DecisionAfter
(* Only the message of the head can lose the decision it waits for. *)
<1>5. \A i \in HeldIds : moTwitch[i] = "held" \/ DecisionAfter(0, i) =>
        moTwitch[i] = "held" \/ DecisionAfter(0, i)' \/ (ev.type = "resolved" /\ i = ev.id)
  <2> SUFFICES ASSUME NEW i \in HeldIds, DecisionAfter(0, i), ~(ev.type = "resolved" /\ i = ev.id) PROVE DecisionAfter(0, i)'
    OBVIOUS
  <2>1. PICK n \in 1 .. Len(moPipe) : moPipe[n].type = "resolved" /\ moPipe[n].id = i
    BY DEF DecisionAfter
  <2>2. n # 1
    BY <1>3, <2>1
  <2>3. n \in 2 .. Len(moPipe)
    BY <2>2
  <2>4. DecisionAfter(1, i)
    BY <2>1, <2>3 DEF DecisionAfter
  <2>6. 1 \in 1 .. Len(moPipe)
    BY <1>13
  <2>5. DecisionAfter(1 - 1, i)'
    BY <1>4, <2>4, <2>6
  <2> QED
    BY <2>5
<1>6. ArrivalsCleared'
  <2>1. \A k \in 1 .. Len(moPipe') : moPipe'[k] \in HeldEvents
    BY <1>3
  <2>2. \A k \in 1 .. Len(moPipe'), i \in HeldIds : moPipe'[k].type = "held" /\ moPipe'[k].id = i =>
          moTwitch[i] = "held" \/ DecisionAfter(k, i)'
    <3> SUFFICES ASSUME NEW k \in 1 .. Len(moPipe'), NEW i \in HeldIds, moPipe'[k].type = "held", moPipe'[k].id = i
                 PROVE  moTwitch[i] = "held" \/ DecisionAfter(k, i)'
      OBVIOUS
    <3>1. k \in 1 .. Len(moPipe) - 1 /\ k + 1 \in 1 .. Len(moPipe) /\ (k + 1) - 1 = k
      BY <1>3
    <3>2. i = moPipe[k + 1].id /\ moPipe[k + 1].type = "held"
      BY <1>3, <3>1
    <3>3. moTwitch[i] = "held" \/ DecisionAfter(k + 1, i)
      BY <3>1, <3>2 DEF HeldInv, ArrivalsCleared
    <3>4. DecisionAfter(k + 1, i) => DecisionAfter((k + 1) - 1, i)'
      BY <1>4, <3>1
    <3> QED
      BY <3>1, <3>3, <3>4
  <2>4. \A k \in 1 .. Len(moPipe') : moPipe'[k].id \in HeldIds
    BY <2>1 DEF HeldEvents
  <2>5. moTwitch' = moTwitch
    BY <1>2
  <2>6. \A k \in 1 .. Len(moPipe') : moPipe'[k].type = "held" =>
          moTwitch'[moPipe'[k].id] = "held"
            \/ \E n \in k + 1 .. Len(moPipe') : moPipe'[n].type = "resolved" /\ moPipe'[n].id = moPipe'[k].id
    <3> TAKE k \in 1 .. Len(moPipe')
    <3> HAVE moPipe'[k].type = "held"
    <3>1. PICK i \in HeldIds : i = moPipe'[k].id
      BY <2>4
    <3>2. moTwitch[i] = "held" \/ DecisionAfter(k, i)'
      BY <2>2, <3>1
    <3>3. moTwitch[i] = "held" \/ \E n \in k + 1 .. Len(moPipe') : moPipe'[n].type = "resolved" /\ moPipe'[n].id = i
      BY <3>2 DEF DecisionAfter
    <3> QED
      BY <2>5, <3>1, <3>3, Zenon
  <2> QED
    BY <2>6 DEF ArrivalsCleared, DecisionAfter
<1>7. DecisionsTrue'
  <2>1. \A k \in 1 .. Len(moPipe') : moPipe'[k].type = "resolved" => moTwitch[moPipe'[k].id] \in Decided
    <3> SUFFICES ASSUME NEW k \in 1 .. Len(moPipe'), moPipe'[k].type = "resolved" PROVE moTwitch[moPipe'[k].id] \in Decided
      OBVIOUS
    <3>1. k + 1 \in 1 .. Len(moPipe) /\ moPipe'[k] = moPipe[k + 1]
      BY <1>3
    <3> QED
      BY <3>1 DEF HeldInv, DecisionsTrue
  <2> QED
    BY <1>2, <2>1 DEF HeldInv, DecisionsTrue
(* The rows after the event, whichever it was. *)
<1>11. /\ moRows \in Seq(HeldIds) /\ Len(moRows) <= HeldCap /\ HeldCap \in Nat \ {0}
       /\ Once(moRows)
  BY <1>1
<1>8. /\ moRows' \in Seq(HeldIds) /\ Len(moRows') <= HeldCap /\ Once(moRows')
      /\ \A x : Contains(moRows', x) => Contains(moRows, x) \/ (ev.type = "held" /\ x = ev.id)
      /\ ev.type = "resolved" => ~Contains(moRows', ev.id)
      /\ ev.type = "held" => Contains(moRows', ev.id)
      /\ \A x : Contains(moRows, x) =>
           Contains(moRows', x) \/ x \in moEvicted' \/ (ev.type = "resolved" /\ x = ev.id)
  <2>1. CASE ev.type = "held"
    <3>1. PICK i \in HeldIds : i = ev.id
      BY <1>3
    <3>2. PICK new : new = HeldAdd(moRows, i) /\ moRows' = new
      BY <1>2, <2>1, <3>1
    <3>3. /\ new \in Seq(HeldIds) /\ Len(new) <= HeldCap
          /\ Once(new) /\ Contains(new, i)
          /\ \A x : Contains(new, x) => x = i \/ Contains(moRows, x)
      BY <1>11, <3>1, <3>2, HeldAddRows
    <3>4. \A x : Contains(moRows, x) => Contains(new, x) \/ x \in moEvicted'
      <4>1. DOMAIN moRows = 1 .. Len(moRows) /\ DOMAIN new = 1 .. Len(new)
        BY <1>11, <3>3
      <4>2. \A x : (x \in ToSet(moRows) <=> Contains(moRows, x)) /\ (x \in ToSet(new) <=> Contains(new, x))
        BY <4>1 DEF ToSet, Contains
      <4> QED
        BY <1>2, <2>1, <3>2, <4>2
    <3> QED
      BY <2>1, <3>1, <3>2, <3>3, <3>4
  <2>2. CASE ev.type = "resolved"
    <3>1. PICK i \in HeldIds : i = ev.id
      BY <1>3
    <3>2. PICK new : new = HeldRemove(moRows, i) /\ moRows' = new
      BY <1>2, <2>2, <3>1
    <3>3. /\ new \in Seq(HeldIds) /\ Len(new) <= Len(moRows)
          /\ Once(new) /\ ~Contains(new, i)
          /\ \A x : x # i => (Contains(new, x) <=> Contains(moRows, x))
      BY <1>11, <3>1, <3>2, HeldRemoveRows
    <3>4. Len(new) <= HeldCap
      BY <1>1, <3>3
    <3> QED
      BY <2>2, <3>1, <3>2, <3>3, <3>4
  <2> QED
    BY <1>3, <2>1, <2>2
<1>9. RowsCleared'
  <2>0. \A k \in 1 .. Len(moRows') : moRows'[k] \in HeldIds
    BY <1>8
  <2> SUFFICES \A k \in 1 .. Len(moRows'), i \in HeldIds : i = moRows'[k] => moTwitch[i] = "held" \/ DecisionAfter(0, i)'
    <3>1. \A i \in HeldIds : DecisionAfter(0, i)' = \E n \in 0 + 1 .. Len(moPipe') : moPipe'[n].type = "resolved" /\ moPipe'[n].id = i
      BY DEF DecisionAfter
    <3>2. RowsCleared' = \A k \in 1 .. Len(moRows') : \/ moTwitch'[moRows'[k]] = "held"
            \/ \E n \in 0 + 1 .. Len(moPipe') : moPipe'[n].type = "resolved" /\ moPipe'[n].id = moRows'[k]
      BY DEF RowsCleared, DecisionAfter
    <3>3. SUFFICES ASSUME NEW k \in 1 .. Len(moRows'),
                          \A i \in HeldIds : i = moRows'[k] => moTwitch[i] = "held" \/ DecisionAfter(0, i)'
                   PROVE  \/ moTwitch'[moRows'[k]] = "held"
                          \/ \E n \in 0 + 1 .. Len(moPipe') : moPipe'[n].type = "resolved" /\ moPipe'[n].id = moRows'[k]
      BY <3>2
    <3>4. PICK i \in HeldIds : i = moRows'[k]
      BY <2>0
    <3>5. moTwitch[i] = "held" \/ \E n \in 0 + 1 .. Len(moPipe') : moPipe'[n].type = "resolved" /\ moPipe'[n].id = i
      BY <3>1, <3>3, <3>4
    <3> QED
      BY <1>2, <3>4, <3>5
  <2> SUFFICES ASSUME NEW k \in 1 .. Len(moRows'), NEW i \in HeldIds, i = moRows'[k]
               PROVE  moTwitch[i] = "held" \/ DecisionAfter(0, i)'
    OBVIOUS
  <2>2. CASE Contains(moRows, i)
    <3>1. moTwitch[i] = "held" \/ DecisionAfter(0, i)
      BY <2>2 DEF HeldInv, RowsCleared, Contains
    <3>2. ~(ev.type = "resolved" /\ i = ev.id)
      BY <1>8 DEF Contains
    <3> QED
      BY <1>5, <3>1, <3>2
  <2>3. CASE ev.type = "held" /\ i = ev.id
    <3>1. 1 \in 1 .. Len(moPipe) /\ moPipe[1].type = "held" /\ moPipe[1].id = i
      BY <1>3, <2>3
    <3>2. moTwitch[i] = "held" \/ DecisionAfter(1, i)
      BY <3>1 DEF HeldInv, ArrivalsCleared
    <3>3. DecisionAfter(1, i) => DecisionAfter(1 - 1, i)'
      BY <1>4, <3>1
    <3> QED
      BY <3>2, <3>3
  <2> QED
    BY <1>8, <2>2, <2>3 DEF Contains
<1>10. HeldSomewhere'
  <2> SUFFICES ASSUME NEW i \in HeldIds, moTwitch[i] = "held"
               PROVE  \/ i \in moEvicted'
                      \/ \E k \in 1 .. Len(moRows') : moRows'[k] = i
                      \/ \E k \in 1 .. Len(moPipe') : moPipe'[k].type = "held" /\ moPipe'[k].id = i
    BY <1>2 DEF HeldSomewhere
  <2>1. ~(ev.type = "resolved" /\ i = ev.id)
    <3>1. ev.type = "resolved" => moTwitch[ev.id] \in Decided
      BY <1>3 DEF HeldInv, DecisionsTrue
    <3> QED
      BY <3>1 DEF Decided
  <2>2. moEvicted \subseteq moEvicted'
    BY <1>2
  <2>3. CASE \E k \in 1 .. Len(moRows) : moRows[k] = i
    <3>1. Contains(moRows', i) \/ i \in moEvicted'
      BY <1>8, <2>1, <2>3 DEF Contains
    <3> QED
      BY <3>1 DEF Contains
  <2>4. CASE \E k \in 1 .. Len(moPipe) : moPipe[k].type = "held" /\ moPipe[k].id = i
    <3>1. PICK k \in 1 .. Len(moPipe) : moPipe[k].type = "held" /\ moPipe[k].id = i
      BY <2>4
    <3>2. CASE k = 1
      BY <1>3, <1>8, <3>1, <3>2 DEF Contains
    <3>3. CASE k # 1
      <4>0. PICK j : j = k - 1
        OBVIOUS
      <4>5. Len(moPipe) \in Nat \ {0} /\ Len(moPipe') = Len(moPipe) - 1
        BY <1>3
      <4>2. j \in 1 .. Len(moPipe) - 1 /\ j \in 1 .. Len(moPipe') /\ j + 1 = k
        BY <3>3, <4>0, <4>5
      <4>3. moPipe'[j] = moPipe[j + 1]
        BY <1>3, <4>2
      <4>1. k - 1 \in 1 .. Len(moPipe') /\ moPipe'[k - 1] = moPipe[k]
        BY <4>0, <4>2, <4>3
      <4> QED
        BY <3>1, <4>1
    <3> QED
      BY <3>2, <3>3
  <2> QED
    BY <2>2, <2>3, <2>4 DEF HeldInv, HeldSomewhere
<1> QED
  BY <1>2, <1>3, <1>6, <1>7, <1>8, <1>9, <1>10 DEF HeldInv, HeldTypes, RowsOnce, HeldEvents

-----------------------------------------------------------------------------
(* Commands: arithmetic.                                                     *)

LEMMA Quotient ==
  ASSUME NEW x \in Int, NEW u \in Nat \ {0}
  PROVE  x \div u \in Int /\ (x \div u) * u <= x /\ x < (x \div u) * u + u
  OBVIOUS

LEMMA FactorCancels ==
  ASSUME NEW a \in Int, NEW b \in Int, NEW c \in Nat \ {0}
  PROVE  a <= b <=> a * c <= b * c
  OBVIOUS

LEMMA Products ==
  ASSUME NEW a \in Int, NEW b \in Int, NEW c \in Int
  PROVE  a * b \in Int /\ a * (b * c) = (a * b) * c /\ (a + 1) * c = a * c + c
  OBVIOUS

LEMMA WrapsAround ==
  ASSUME ModerationConstants, NEW x \in Int
  PROVE  /\ Wrap(x) \in Int
         /\ x >= 0 /\ x < 2 ^ (Bits - 1) => Wrap(x) = x
<1>1. PICK h \in Nat \ {0} : h = 2 ^ (Bits - 1)
  BY DEF ModerationConstants
<1>2. /\ ((x + h) % (2 * h)) - h \in Int
      /\ x \in 0 .. h - 1 => ((x + h) % (2 * h)) - h = x
  OBVIOUS
<1>3. Wrap(x) = ((x + h) % (2 * h)) - h
  BY <1>1 DEF Wrap
<1> QED
  BY <1>1, <1>2, <1>3

LEMMA ConstantsAreNumbers ==
  ASSUME ModerationConstants
  PROVE  /\ Second \in Nat \ {0} /\ Minute \in Nat \ {0} /\ DefaultTimeout \in Nat \ {0}
         /\ MaxTimeout \in Nat \ {0} /\ KickMaxTimeout \in Nat \ {0} /\ DefaultTimeout <= MaxTimeout
         /\ Numbers \subseteq Int /\ Minute * Second \in Nat \ {0} /\ KickMaxTimeout % Minute = 0
<1>1. /\ Second \in Nat \ {0} /\ Minute \in Nat \ {0} /\ DefaultTimeout \in Nat \ {0}
      /\ MaxTimeout \in Nat \ {0} /\ KickMaxTimeout \in Nat \ {0} /\ DefaultTimeout <= MaxTimeout
      /\ Numbers \subseteq Int /\ KickMaxTimeout % Minute = 0
  BY DEF ModerationConstants
<1>2. \A a, b \in Nat \ {0} : a * b \in Nat \ {0}
  OBVIOUS
<1> QED
  BY <1>1, <1>2

LEMMA WholeUnits ==
  ASSUME NEW d \in Int, NEW unit \in Nat \ {0} PROVE InUnits(d, unit) \in Int
<1>1. d \div unit \in Int /\ (-d) \div unit \in Int
  BY Quotient
<1> QED
  BY <1>1 DEF InUnits

(* Whatever a duration wrapped to, Twitch is asked for a second or more and     *)
(* for no more than its ceiling.                                                *)
LEMMA TwitchClamps ==
  ASSUME ModerationConstants, NEW d \in Int
  PROVE  ClampTimeout(d) \in 1 .. MaxTimeout
<1>1. Seconds(d) \in Int
  BY WholeUnits, ConstantsAreNumbers DEF Seconds
<1> QED
  BY <1>1, ConstantsAreNumbers DEF ClampTimeout

(* Kick is asked for a minute or more, for no more than its maximum, and for no *)
(* less than was meant.                                                         *)
LEMMA KickRoundsUp ==
  ASSUME ModerationConstants, NEW d \in Int, d > 0, d <= KickMaxTimeout * Second
  PROVE  /\ KickMinutes(d) * Minute \in 1 .. KickMaxTimeout
         /\ \A n \in Int : d = n * Second => n <= KickMinutes(d) * Minute
<1>1. PICK u \in Nat \ {0} : u = Minute * Second
  BY ConstantsAreNumbers
<1>2. PICK q \in Int : q = KickMinutes(d) /\ q * u <= d + u - 1 /\ d + u - 1 < q * u + u
  <2>1. d + u - 1 \in Int
    OBVIOUS
  <2>2. PICK x \in Int : x = d + u - 1
    BY <2>1
  <2>3. x \div u \in Int /\ (x \div u) * u <= x /\ x < (x \div u) * u + u
    BY Quotient
  <2> QED
    BY <1>1, <2>2, <2>3 DEF KickMinutes
<1>3. PICK r \in Nat : KickMaxTimeout = r * Minute
  <2>1. \A x \in Nat, m \in Nat \ {0} : x % m = 0 => \E r \in Nat : x = r * m
    <3> SUFFICES ASSUME NEW x \in Nat, NEW m \in Nat \ {0}, x % m = 0 PROVE \E r \in Nat : x = r * m
      OBVIOUS
    <3> WITNESS x \div m \in Nat
    <3> QED
      OBVIOUS
  <2> QED
    BY <2>1, ConstantsAreNumbers
<1>4. /\ q * u = (q * Minute) * Second /\ KickMaxTimeout * Second = r * u
      /\ q * Minute \in Int /\ q * u \in Int /\ r * u \in Int /\ (r + 1) * u = r * u + u
  BY <1>1, <1>3, Products, ConstantsAreNumbers
<1>5. d <= q * u
  BY <1>2, <1>4
<1>6. q <= r
  <2>1. q * u < (r + 1) * u
    BY <1>2, <1>4
  <2>2. ~((r + 1) * u <= q * u)
    BY <1>4, <2>1
  <2>3. ~(r + 1 <= q)
    BY <2>2, FactorCancels
  <2> QED
    BY <2>3
<1>7. q >= 1
  <2>1. ~(q <= 0)
    <3>1. 0 * u = 0
      OBVIOUS
    <3>2. q <= 0 => q * u <= 0
      BY <3>1, FactorCancels
    <3> QED
      BY <1>4, <1>5, <3>2
  <2> QED
    BY <2>1
<1>8. q * Minute <= KickMaxTimeout
  BY <1>3, <1>6, FactorCancels, ConstantsAreNumbers
<1>9. q * Minute >= 1
  <2>1. 1 * Minute <= q * Minute
    BY <1>7, FactorCancels, ConstantsAreNumbers
  <2> QED
    BY <1>4, <2>1, ConstantsAreNumbers
<1>10. ASSUME NEW n \in Int, d = n * Second PROVE n <= q * Minute
  <2>1. n * Second <= (q * Minute) * Second
    BY <1>4, <1>5, <1>10
  <2> QED
    BY <1>4, <2>1, FactorCancels, ConstantsAreNumbers
<1> QED
  BY <1>2, <1>4, <1>8, <1>9, <1>10, ConstantsAreNumbers

-----------------------------------------------------------------------------
(* Commands: parsing.                                                        *)

LEMMA ArgumentTypes ==
  ASSUME ModerationConstants, NEW args \in ArgLists
  PROVE  /\ Len(args) \in 0 .. 2 /\ (args # << >> <=> Len(args) >= 1)
         /\ \A k \in 1 .. Len(args) : args[k].n \in Int
<1>1. \A n \in Numbers : Num(n).n \in Int
  BY ConstantsAreNumbers DEF Num
<1>2. Word.n \in Int
  BY DEF Word
<1>3. CASE args = << >>
  BY <1>3
<1>4. CASE \E w : w.n \in Int /\ args = <<w>>
  BY <1>4
<1>5. CASE \E w, x : w.n \in Int /\ x.n \in Int /\ args = <<w, x>>
  BY <1>5
<1>6. args = << >> \/ (\E w : w.n \in Int /\ args = <<w>>) \/ \E w, x : w.n \in Int /\ x.n \in Int /\ args = <<w, x>>
  BY Zenon, <1>1, <1>2 DEF ArgLists
<1> QED
  BY <1>3, <1>4, <1>5, <1>6

(* What a command asks for is an action of its own name, and a typed duration  *)
(* is positive.                                                                *)
ActionOf(input, a) ==
  /\ a.dur \in Int
  /\ a.type = "ban" => input.name = "ban"
  /\ input.name = "timeout" => a.type = "timeout"
  /\ a.type = "timeout" =>
       input.name = "timeout" /\
       (Len(input.args) = 2 /\ input.args[2].num => input.args[2].n > 0 /\ a.dur = Times(input.args[2].n, Second))
LEMMA BuiltAction ==
  ASSUME ModerationConstants, NEW name \in Commands, NEW args \in ArgLists, NEW input,
         input.name = name, input.args = args, NEW a, a = Build(name, args), a.kind = "mod"
  PROVE  ActionOf(input, a)
<1>1. \A n \in Int, unit \in Int : Times(n, unit) \in Int
  BY WrapsAround, Products DEF Times
<1>2. /\ Second \in Int /\ Minute * Second \in Int /\ DefaultTimeout \in Int
  BY ConstantsAreNumbers
<1>3. /\ Len(args) \in 0 .. 2 /\ (args # << >> <=> Len(args) >= 1)
      /\ \A k \in 1 .. Len(args) : args[k].n \in Int
  BY ArgumentTypes
<1>4. a # Hint
  BY DEF Hint
(* All but timeouts are only about their name and an integer. *)
<1>5. SUFFICES ASSUME name # "timeout" PROVE a.dur \in Int /\ a.type = name
  <2>1. CASE name # "timeout"
    BY <1>5, <2>1 DEF ActionOf
  <2>2. CASE name = "timeout"
    <3>1. a = BuildTimeout(args)
      BY <2>2 DEF Build
    <3>2. args # << >>
      <4>1. SUFFICES ASSUME args = << >> PROVE FALSE
        OBVIOUS
      <4>2. ~(Len(args) >= 2)
        BY <1>3, <4>1
      <4>3. a = Hint
        BY <3>1, <4>1, <4>2 DEF BuildTimeout
      <4> QED
        BY <1>4, <4>3
    <3>3. CASE Len(args) >= 2 /\ args[2].num
      <4>1. CASE args[2].n <= 0
        <5>1. a = Hint
          BY <3>1, <3>2, <3>3, <4>1 DEF BuildTimeout
        <5> QED
          BY <1>4, <5>1
      <4>2. CASE ~(args[2].n <= 0)
        <5>1. a = Mod("timeout", Times(args[2].n, Second), FALSE)
          BY <3>1, <3>2, <3>3, <4>2 DEF BuildTimeout
        <5>2. a.type = "timeout" /\ a.dur = Times(args[2].n, Second)
          BY <5>1 DEF Mod
        <5>8. Len(args) >= 2
          BY <3>3
        <5>6. Len(args) \in Nat /\ \A k \in 1 .. Len(args) : args[k].n \in Int
          BY <1>3
        <5>7. 2 \in 1 .. Len(args)
          BY <5>6, <5>8
        <5>9. args[2].n \in Int
          BY <5>6, <5>7
        <5>3. PICK n \in Int : n = args[2].n
          BY <5>9
        <5>4. a.dur \in Int
          BY <1>1, <1>2, <5>2, <5>3
        <5>5. args[2].n > 0
          BY <4>2, <5>3
        <5> QED
          BY <2>2, <5>2, <5>4, <5>5 DEF ActionOf
      <4> QED
        BY <4>1, <4>2
    <3>4. CASE ~(Len(args) >= 2 /\ args[2].num)
      <4>1. a = Mod("timeout", Times(DefaultTimeout, Second), FALSE)
        BY <3>1, <3>2, <3>4 DEF BuildTimeout
      <4>2. a.type = "timeout" /\ a.dur = Times(DefaultTimeout, Second)
        BY <4>1 DEF Mod
      <4>3. a.dur \in Int
        BY <1>1, <1>2, <4>2
      <4>4. ~(Len(args) = 2 /\ args[2].num)
        BY <3>4
      <4> QED
        BY <2>2, <4>2, <4>3, <4>4 DEF ActionOf
    <3> QED
      BY <3>3, <3>4
  <2> QED
    BY <2>1, <2>2
<1>7. CASE name = "slow"
  <2>1. a = BuildCounted("slow", args, 30, Second, TRUE)
    BY <1>7 DEF Build
  <2>2. PICK n \in Int : n = IF args = << >> THEN 30 ELSE args[1].n
    <3>1. args # << >> => args[1].n \in Int
      BY <1>3
    <3> QED
      BY <3>1
  <2>3. a = Mod("slow", Times(n, Second), TRUE => n > 0)
    BY <1>4, <2>1, <2>2 DEF BuildCounted
  <2>4. a.type = "slow" /\ a.dur = Times(n, Second)
    BY <2>3 DEF Mod
  <2> QED
    BY <1>1, <1>2, <1>7, <2>4
<1>8. CASE name = "followers"
  <2>1. a = BuildCounted("followers", args, 0, Minute * Second, FALSE)
    BY <1>8 DEF Build
  <2>2. PICK n \in Int : n = IF args = << >> THEN 0 ELSE args[1].n
    <3>1. args # << >> => args[1].n \in Int
      BY <1>3
    <3> QED
      BY <3>1
  <2>3. a = Mod("followers", Times(n, Minute * Second), FALSE => n > 0)
    BY <1>4, <2>1, <2>2 DEF BuildCounted
  <2>4. a.type = "followers" /\ a.dur = Times(n, Minute * Second)
    BY <2>3 DEF Mod
  <2> QED
    BY <1>1, <1>2, <1>8, <2>4
<1>9. CASE name \in {"ban", "unban", "untimeout", "delete"}
  <2>1. a = Mod(name, 0, FALSE)
    <3>1. args = << >> => a = Hint
      BY <1>9 DEF Build
    <3>2. args # << >> => a = Mod(name, 0, FALSE)
      BY <1>9 DEF Build
    <3> QED
      BY <1>4, <3>1, <3>2
  <2> QED
    BY <2>1 DEF Mod
<1>10. CASE name = "clear"
  <2>1. a = Mod("clear", 0, FALSE)
    BY <1>10 DEF Build
  <2> QED
    BY <1>10, <2>1 DEF Mod
<1>11. CASE name \in {"slowoff", "followersoff", "emoteonlyoff", "uniquechatoff"}
  <2>1. a = Mod(name, 0, FALSE)
    BY <1>11 DEF Build
  <2> QED
    BY <2>1 DEF Mod
<1>12. CASE name \in {"emoteonly", "uniquechat"}
  <2>1. a = Mod(name, 0, TRUE)
    BY <1>12 DEF Build
  <2> QED
    BY <2>1 DEF Mod
<1> QED
  BY <1>5, <1>7, <1>8, <1>9, <1>10, <1>11, <1>12 DEF Commands, Toggles

LEMMA ParsedInput ==
  ASSUME ModerationConstants, NEW input \in Inputs, NEW caps \in [send : BOOLEAN, moderation : BOOLEAN]
  PROVE  /\ Parse(input, caps).kind = "send" => input.form # "command" \/ input.name = "me"
         /\ Parse(input, caps).kind = "mod" =>
              input.form = "command" /\ ActionOf(input, Parse(input, caps))
<1>1. CASE input.form # "command"
  <2>1. Parse(input, caps) = [kind |-> "send"]
    BY <1>1 DEF Parse
  <2> QED
    BY <1>1, <2>1
<1>2. CASE input.form = "command"
  <2>1. input.name \in Commands \cup {"me", "help", "nonsense"} /\ input.args \in ArgLists
    BY <1>2 DEF Inputs
  <2>2. CASE input.name = "me"
    <3>1. Parse(input, caps) = [kind |-> "send"]
      BY <1>2, <2>2 DEF Parse
    <3> QED
      BY <2>2, <3>1
  <2>3. CASE input.name = "help"
    <3>1. Parse(input, caps) = [kind |-> "help"]
      BY <1>2, <2>3 DEF Parse
    <3> QED
      BY <3>1
  <2>4. CASE input.name \notin {"me", "help"} /\ (input.name \notin Commands \/ ~caps.moderation)
    <3>1. Parse(input, caps) = Hint
      BY <1>2, <2>4 DEF Parse
    <3> QED
      BY <3>1 DEF Hint
  <2>5. CASE input.name \notin {"me", "help"} /\ ~(input.name \notin Commands \/ ~caps.moderation)
    <3>1. Parse(input, caps) = Build(input.name, input.args)
      BY <1>2, <2>5 DEF Parse
    <3>2. Build(input.name, input.args).kind # "send"
      BY DEF Build, BuildTimeout, BuildCounted, Hint, Mod
    <3>3. Build(input.name, input.args).kind = "mod" => ActionOf(input, Build(input.name, input.args))
      BY <2>1, <2>5, BuiltAction
    <3> QED
      BY <1>2, <3>1, <3>2, <3>3
  <2> QED
    BY <2>2, <2>3, <2>4, <2>5
<1> QED
  BY <1>1, <1>2

(* What the platform is asked to do keeps the meaning of what was typed. *)
LEMMA CommandKept ==
  ASSUME ModerationConstants, NEW plat \in {"twitch", "kick"}, NEW input \in Inputs,
         NEW caps \in [send : BOOLEAN, moderation : BOOLEAN], Do(plat, input, caps)
  PROVE  CommandsKeepMeaning' /\ moLast'.done.secs \in Int
<1>1. PICK p : p = Parse(input, caps)
  OBVIOUS
<1>2. /\ p.kind = "send" => input.form # "command" \/ input.name = "me"
      /\ p.kind = "mod" => input.form = "command" /\ ActionOf(input, p)
  BY <1>1, ParsedInput
<1>3. PICK do : /\ moLast' = [plat |-> plat, input |-> input, done |-> do]
                /\ do = CASE p.kind = "send" /\ caps.send -> [call |-> "send", secs |-> 0]
                          [] p.kind = "mod" -> IF plat = "kick" THEN KickCall(p) ELSE HelixCall(p)
                          [] OTHER -> Nothing
  BY <1>1 DEF Do
<1>4. moLast'.plat = plat /\ moLast'.input = input /\ moLast'.done = do
  BY <1>3
<1>5. SUFFICES /\ do.secs \in Int
               /\ do.call = "send" => input.form # "command" \/ input.name = "me"
               /\ do.call = "ban" /\ do.secs = 0 => input.name = "ban"
               /\ do.call = "ban" /\ input.name = "timeout" =>
                    /\ do.secs \in 1 .. (IF plat = "kick" THEN KickMaxTimeout ELSE MaxTimeout)
                    /\ plat = "kick" /\ Len(input.args) = 2 /\ input.args[2].num /\ input.args[2].n * Second < 2 ^ (Bits - 1)
                         => do.secs >= input.args[2].n
  BY <1>4 DEF CommandsKeepMeaning
<1>6. CASE p.kind # "mod"
  <2>1. do = Nothing \/ (p.kind = "send" /\ do = [call |-> "send", secs |-> 0])
    BY <1>3, <1>6
  <2> QED
    BY <1>2, <2>1 DEF Nothing
<1>7. CASE p.kind = "mod" /\ plat = "kick"
  <2>1. ActionOf(input, p) /\ do = KickCall(p)
    BY <1>2, <1>3, <1>7
  <2>2. p.dur \in Int
    BY <2>1 DEF ActionOf
  <2>3. CASE p.type = "timeout"
    <3>1. PICK d \in Int : d = (IF p.dur <= 0 THEN Minute * Second ELSE p.dur) /\ d > 0
      BY <2>2, ConstantsAreNumbers
    <3>2. CASE d <= KickMaxTimeout * Second
      <4>1. do = [call |-> "ban", secs |-> KickMinutes(d) * Minute]
        BY <2>1, <2>3, <3>1, <3>2 DEF KickCall
      <4>2. /\ KickMinutes(d) * Minute \in 1 .. KickMaxTimeout
            /\ \A n \in Int : d = n * Second => n <= KickMinutes(d) * Minute
        BY <3>1, <3>2, KickRoundsUp
      <4>3. do.call = "ban" /\ do.secs \in 1 .. KickMaxTimeout /\ do.secs \in Int /\ do.secs # 0
        BY <4>1, <4>2, ConstantsAreNumbers
      <4>4. ASSUME Len(input.args) = 2, input.args[2].num, input.args[2].n * Second < 2 ^ (Bits - 1)
            PROVE  do.secs >= input.args[2].n
        <5>1. input.args \in ArgLists
          BY <1>2, <1>7 DEF Inputs
        <5>2. PICK n \in Int : n = input.args[2].n
          <6>1. \A k \in 1 .. Len(input.args) : input.args[k].n \in Int
            BY <5>1, ArgumentTypes
          <6> QED
            BY <4>4, <6>1
        <5>3. n > 0 /\ p.dur = Times(n, Second)
          BY <2>1, <2>3, <4>4, <5>2 DEF ActionOf
        <5>4. n * Second \in Int /\ n * Second > 0 /\ n * Second < 2 ^ (Bits - 1)
          <6>1. \A s \in Nat \ {0} : n * s \in Int /\ n * s > 0
            BY <5>2, <5>3
          <6> QED
            BY <4>4, <5>2, <6>1, ConstantsAreNumbers
        <5>5. p.dur = n * Second
          BY <5>3, <5>4, WrapsAround DEF Times
        <5>6. d = n * Second
          BY <3>1, <5>4, <5>5
        <5>7. n <= KickMinutes(d) * Minute
          BY <4>2, <5>2, <5>6
        <5> QED
          BY <4>1, <4>2, <5>2, <5>7
      <4> QED
        BY <1>7, <4>3, <4>4
    <3>3. CASE ~(d <= KickMaxTimeout * Second)
      <4>1. do = Nothing
        BY <2>1, <2>3, <3>1, <3>3 DEF KickCall
      <4> QED
        BY <4>1 DEF Nothing
    <3> QED
      BY <3>2, <3>3
  <2>4. CASE p.type = "ban"
    <3>1. do = [call |-> "ban", secs |-> 0]
      BY <2>1, <2>4 DEF KickCall
    <3> QED
      BY <2>1, <2>4, <3>1 DEF ActionOf
  <2>5. CASE p.type \notin {"timeout", "ban"}
    <3>1. \/ do = Nothing
          \/ do = [call |-> "unban", secs |-> 0]
          \/ do = [call |-> "delete", secs |-> 0]
      BY <2>1, <2>5 DEF KickCall
    <3> QED
      BY <3>1 DEF Nothing
  <2> QED
    BY <2>3, <2>4, <2>5
<1>8. CASE p.kind = "mod" /\ plat = "twitch"
  <2>1. ActionOf(input, p) /\ do = HelixCall(p)
    BY <1>2, <1>3, <1>8
  <2>2. p.dur \in Int
    BY <2>1 DEF ActionOf
  <2>3. CASE p.type = "timeout"
    <3>1. do = [call |-> "ban", secs |-> ClampTimeout(p.dur)]
      BY <2>1, <2>3 DEF HelixCall
    <3>2. ClampTimeout(p.dur) \in 1 .. MaxTimeout
      BY <2>2, TwitchClamps
    <3>3. do.call = "ban" /\ do.secs \in 1 .. MaxTimeout /\ do.secs \in Int /\ do.secs # 0
      BY <3>1, <3>2, ConstantsAreNumbers
    <3> QED
      BY <1>8, <3>3
  <2>4. CASE p.type = "ban"
    <3>1. do = [call |-> "ban", secs |-> 0]
      BY <2>1, <2>4 DEF HelixCall
    <3> QED
      BY <2>1, <2>4, <3>1 DEF ActionOf
  <2>5. CASE p.type \notin {"timeout", "ban"}
    <3>1. ChatSettingsPatch(p) \in Int
      <4>1. InUnits(p.dur, Minute * Second) \in Int /\ InUnits(p.dur, Second) \in Int
        BY <2>2, WholeUnits, ConstantsAreNumbers
      <4>2. CASE ~p.on
        BY <4>2 DEF ChatSettingsPatch
      <4>3. CASE p.on
        BY <4>1, <4>3 DEF ChatSettingsPatch
      <4> QED
        BY <4>2, <4>3
    <3>2. \/ do = [call |-> "unban", secs |-> 0]
          \/ do = [call |-> p.type, secs |-> 0] /\ p.type \in {"delete", "clear"}
          \/ do = [call |-> "settings", secs |-> ChatSettingsPatch(p)]
      BY <2>1, <2>5 DEF HelixCall
    <3> QED
      BY <3>1, <3>2
  <2> QED
    BY <2>3, <2>4, <2>5
<1> QED
  BY <1>6, <1>7, <1>8

-----------------------------------------------------------------------------
(* The two together. *)

ModerationInv == HeldInv /\ CommandsKeepMeaning /\ moLast.done.secs \in Int

LEMMA ModerationStarts == ASSUME ModerationConstants, ModerationInit PROVE ModerationInv
<1>1. /\ moRows = << >> /\ moPipe = << >> /\ moTwitch = [i \in HeldIds |-> "none"]
      /\ moResolve = [m \in Moderators |-> NoResolve] /\ moLast = NoInput
  BY DEF ModerationInit
<1>2. HeldTypes
  <2>1. HeldCap \in Nat
    BY DEF ModerationConstants
  <2> QED
    BY <1>1, <2>1 DEF HeldTypes
<1>3. RowsOnce /\ RowsCleared /\ ArrivalsCleared /\ HeldSomewhere
  BY <1>1 DEF RowsOnce, Once, RowsCleared, ArrivalsCleared, HeldSomewhere
<1>4. DecisionsTrue
  BY <1>1 DEF DecisionsTrue, NoResolve
<1>5. CommandsKeepMeaning /\ moLast.done.secs \in Int
  BY <1>1 DEF CommandsKeepMeaning, NoInput, Nothing
<1> QED
  BY <1>2, <1>3, <1>4, <1>5 DEF HeldInv, ModerationInv

(* A step of an approve or deny request that asks Twitch nothing. *)
LEMMA RequestMoved ==
  ASSUME HeldInv, UNCHANGED <<moRows, moEvicted, moTwitch, moPipe>>,
         NEW m \in Moderators, NEW r, moResolve' = [moResolve EXCEPT ![m] = r],
         r = NoResolve \/ r \in [pc : {"ask"}, id : HeldIds, approve : BOOLEAN]
  PROVE  HeldInv'
<1>1. /\ moResolve \in [Moderators -> {NoResolve} \cup [pc : {"ask", "emit"}, id : HeldIds, approve : BOOLEAN]]
      /\ r \in {NoResolve} \cup [pc : {"ask", "emit"}, id : HeldIds, approve : BOOLEAN] /\ r.pc # "emit"
  BY DEF HeldInv, HeldTypes, NoResolve
<1>2. /\ moResolve' \in [Moderators -> {NoResolve} \cup [pc : {"ask", "emit"}, id : HeldIds, approve : BOOLEAN]]
      /\ \A x \in Moderators : moResolve'[x] = IF x = m THEN r ELSE moResolve[x]
  BY <1>1
<1>3. DecisionsTrue'
  BY <1>1, <1>2 DEF HeldInv, DecisionsTrue
<1> QED
  BY <1>2, <1>3 DEF HeldInv, HeldTypes, RowsOnce, RowsCleared, ArrivalsCleared, HeldSomewhere, DecisionAfter

LEMMA HeldStep ==
  ASSUME ModerationConstants, ModerationInv, HeldNext PROVE ModerationInv'
<1>1. moLast' = moLast
  BY DEF HeldNext, TwitchHolds, TwitchRepeats, TwitchResolves, ResolveHeld, HeldConsume,
         ManageHeldMessage, ManageHeldFails, EmitResolved
<1>2. SUFFICES HeldInv'
  BY <1>1 DEF ModerationInv, CommandsKeepMeaning
<1>3. /\ HeldInv /\ moTwitch \in [HeldIds -> {"none", "held"} \cup Decided]
      /\ moResolve \in [Moderators -> {NoResolve} \cup [pc : {"ask", "emit"}, id : HeldIds, approve : BOOLEAN]]
      /\ moRows \in Seq(HeldIds) /\ Len(moRows) <= HeldCap
  BY DEF ModerationInv, HeldInv, HeldTypes
<1>4. \A i \in HeldIds, approve \in BOOLEAN : Resolved(i, approve) \in HeldEvents
                 /\ Resolved(i, approve).type = "resolved" /\ Resolved(i, approve).id = i
  BY DEF Resolved, HeldEvents
<1>5. \A i \in HeldIds : [type |-> "held", id |-> i, approved |-> FALSE] \in HeldEvents
  BY DEF HeldEvents
<1>14. \A m \in Moderators : moResolve[m].pc \in {"ask", "emit"} =>
         moResolve[m] \in [pc : {"ask", "emit"}, id : HeldIds, approve : BOOLEAN]
  BY <1>3 DEF NoResolve
<1>15. \A m \in Moderators : moResolve[m].pc = "emit" => moResolve[m].id \in HeldIds /\ moTwitch[moResolve[m].id] \in Decided
  BY <1>3, <1>14 DEF HeldInv, DecisionsTrue
<1>6. ASSUME NEW i \in HeldIds, TwitchHolds(i) PROVE HeldInv'
  <2>1. PICK e \in HeldEvents : e = [type |-> "held", id |-> i, approved |-> FALSE]
    BY <1>5
  <2>2. /\ moTwitch[i] = "none" /\ moTwitch' = [moTwitch EXCEPT ![i] = "held"] /\ moPipe' = Append(moPipe, e)
        /\ UNCHANGED <<moRows, moEvicted, moResolve>>
    BY <1>6, <2>1 DEF TwitchHolds
  <2>3. /\ moTwitch' \in [HeldIds -> {"none", "held"} \cup Decided]
        /\ \A j \in HeldIds \ {i} : moTwitch'[j] = moTwitch[j]
        /\ moTwitch'[i] = "held"
    BY <1>3, <2>2
  <2>4. e.type = "held" /\ e.id = i
    BY <2>1
  <2>5. /\ moPipe' \in Seq(HeldEvents) /\ RowsOnce' /\ RowsCleared' /\ ArrivalsCleared' /\ HeldSomewhere'
        /\ \A k \in 1 .. Len(moPipe') : moPipe'[k].type = "resolved" => moTwitch'[moPipe'[k].id] \in Decided
    BY <1>3, <2>2, <2>3, <2>4, EventAnnounced
  <2>6. \A m \in Moderators : moResolve[m].pc = "emit" => moTwitch'[moResolve[m].id] \in Decided
    BY <1>15, <2>2, <2>3 DEF Decided
  <2> QED
    BY <1>3, <2>2, <2>3, <2>5, <2>6 DEF HeldInv, HeldTypes, DecisionsTrue, HeldEvents
<1>7. ASSUME NEW i \in HeldIds, TwitchRepeats(i) PROVE HeldInv'
  <2>1. PICK e \in HeldEvents : e = [type |-> "held", id |-> i, approved |-> FALSE]
    BY <1>5
  <2>2. /\ moTwitch[i] = "held" /\ moTwitch' = moTwitch /\ moPipe' = Append(moPipe, e)
        /\ UNCHANGED <<moRows, moEvicted, moResolve>>
    BY <1>7, <2>1 DEF TwitchRepeats
  <2>4. e.type = "held" /\ e.id = i
    BY <2>1
  <2>5. /\ moPipe' \in Seq(HeldEvents) /\ RowsOnce' /\ RowsCleared' /\ ArrivalsCleared' /\ HeldSomewhere'
        /\ \A k \in 1 .. Len(moPipe') : moPipe'[k].type = "resolved" => moTwitch'[moPipe'[k].id] \in Decided
    BY <1>3, <2>2, <2>4, EventAnnounced
  <2> QED
    BY <1>3, <2>2, <2>5 DEF HeldInv, HeldTypes, DecisionsTrue, HeldEvents
<1>8. ASSUME NEW i \in HeldIds, NEW approve \in BOOLEAN, TwitchResolves(i, approve) PROVE HeldInv'
  <2>1. PICK e \in HeldEvents : e = Resolved(i, approve) /\ e.type = "resolved" /\ e.id = i
    BY <1>4
  <2>2. /\ moTwitch[i] = "held" /\ moPipe' = Append(moPipe, e) /\ UNCHANGED <<moRows, moEvicted, moResolve>>
        /\ moTwitch' = [moTwitch EXCEPT ![i] = IF approve THEN "approved" ELSE "denied"]
    BY <1>8, <2>1 DEF TwitchResolves
  <2>3. /\ moTwitch' \in [HeldIds -> {"none", "held"} \cup Decided]
        /\ \A j \in HeldIds \ {i} : moTwitch'[j] = moTwitch[j]
        /\ moTwitch'[i] \in Decided
    BY <1>3, <2>2 DEF Decided
  <2>5. /\ moPipe' \in Seq(HeldEvents) /\ RowsOnce' /\ RowsCleared' /\ ArrivalsCleared' /\ HeldSomewhere'
        /\ \A k \in 1 .. Len(moPipe') : moPipe'[k].type = "resolved" => moTwitch'[moPipe'[k].id] \in Decided
    BY <1>3, <2>1, <2>2, <2>3, EventAnnounced
  <2>6. \A m \in Moderators : moResolve[m].pc = "emit" => moTwitch'[moResolve[m].id] \in Decided
    BY <1>15, <2>2, <2>3 DEF Decided
  <2> QED
    BY <1>3, <2>2, <2>3, <2>5, <2>6 DEF HeldInv, HeldTypes, DecisionsTrue, HeldEvents
<1>9. ASSUME NEW i \in HeldIds, NEW approve \in BOOLEAN, NEW m \in Moderators, ResolveHeld(m, i, approve) PROVE HeldInv'
  <2>1. PICK r : r = [pc |-> "ask", id |-> i, approve |-> approve] /\ r \in [pc : {"ask"}, id : HeldIds, approve : BOOLEAN]
    <3>1. [pc |-> "ask", id |-> i, approve |-> approve] \in [pc : {"ask"}, id : HeldIds, approve : BOOLEAN]
      BY Zenon
    <3> QED
      BY <3>1
  <2>2. moResolve' = [moResolve EXCEPT ![m] = r] /\ UNCHANGED <<moRows, moEvicted, moTwitch, moPipe>>
    BY <1>9, <2>1 DEF ResolveHeld
  <2> QED
    BY <1>3, <2>1, <2>2, RequestMoved
<1>10. ASSUME HeldConsume PROVE HeldInv'
  BY <1>3, <1>10, EventConsumed
<1>11. ASSUME NEW m \in Moderators, ManageHeldFails(m) PROVE HeldInv'
  <2>1. moResolve' = [moResolve EXCEPT ![m] = NoResolve] /\ UNCHANGED <<moRows, moEvicted, moTwitch, moPipe>>
    BY <1>11 DEF ManageHeldFails
  <2> QED
    BY <1>3, <2>1, RequestMoved
<1>12. ASSUME NEW m \in Moderators, ManageHeldMessage(m) PROVE HeldInv'
  <2>1. PICK i, approve : /\ i = moResolve[m].id /\ approve = moResolve[m].approve
                          /\ i \in HeldIds /\ approve \in BOOLEAN /\ moResolve[m].pc = "ask"
    BY <1>12, <1>14 DEF ManageHeldMessage
  <2>2. CASE moTwitch[i] # "held"
    <3>1. moResolve' = [moResolve EXCEPT ![m] = NoResolve] /\ UNCHANGED <<moRows, moEvicted, moTwitch, moPipe>>
      BY <1>12, <2>1, <2>2 DEF ManageHeldMessage
    <3> QED
      BY <1>3, <3>1, RequestMoved
  <2>3. CASE moTwitch[i] = "held"
    <3>1. PICK e \in HeldEvents : e = Resolved(i, approve) /\ e.type = "resolved" /\ e.id = i
      BY <1>4, <2>1
    <3>2. /\ moPipe' = Append(moPipe, e) /\ UNCHANGED <<moRows, moEvicted>>
          /\ moTwitch' = [moTwitch EXCEPT ![i] = IF approve THEN "approved" ELSE "denied"]
          /\ moResolve' = [moResolve EXCEPT ![m].pc = "emit"]
      BY <1>12, <2>1, <2>3, <3>1 DEF ManageHeldMessage
    <3>3. /\ moTwitch' \in [HeldIds -> {"none", "held"} \cup Decided]
          /\ \A j \in HeldIds \ {i} : moTwitch'[j] = moTwitch[j]
          /\ moTwitch'[i] \in Decided
      BY <1>3, <2>1, <3>2 DEF Decided
    <3>4. /\ moPipe' \in Seq(HeldEvents) /\ RowsOnce' /\ RowsCleared' /\ ArrivalsCleared' /\ HeldSomewhere'
          /\ \A k \in 1 .. Len(moPipe') : moPipe'[k].type = "resolved" => moTwitch'[moPipe'[k].id] \in Decided
      <4>1. HeldInv /\ UNCHANGED <<moRows, moEvicted>> /\ moPipe' = Append(moPipe, e) /\ e \in HeldEvents
        BY <1>3, <3>1, <3>2
      <4>2. /\ moTwitch' \in [HeldIds -> {"none", "held"} \cup Decided]
            /\ \A j \in HeldIds \ {e.id} : moTwitch'[j] = moTwitch[j]
            /\ e.type = "resolved" /\ e.type # "held" /\ moTwitch[e.id] = "held" /\ moTwitch'[e.id] \in Decided
        BY <2>3, <3>1, <3>3
      <4> QED
        BY <4>1, <4>2, EventAnnounced
    <3>5. PICK r : r = [moResolve[m] EXCEPT !.pc = "emit"] /\ moResolve' = [moResolve EXCEPT ![m] = r]
      BY <3>2
    <3>6. moResolve[m] \in [pc : {"ask", "emit"}, id : HeldIds, approve : BOOLEAN]
      BY <1>3, <2>1 DEF NoResolve
    <3>7. r \in [pc : {"ask", "emit"}, id : HeldIds, approve : BOOLEAN] /\ r.id = i
      BY <2>1, <3>5, <3>6
    <3>8. /\ moResolve' \in [Moderators -> {NoResolve} \cup [pc : {"ask", "emit"}, id : HeldIds, approve : BOOLEAN]]
          /\ \A x \in Moderators : moResolve'[x] = IF x = m THEN r ELSE moResolve[x]
      BY <1>3, <3>5, <3>7
    <3>9. \A x \in Moderators : moResolve'[x].pc = "emit" => moTwitch'[moResolve'[x].id] \in Decided
      BY <1>3, <2>1, <3>3, <3>7, <3>8 DEF HeldInv, DecisionsTrue, Decided, NoResolve
    <3> QED
      BY <1>3, <3>2, <3>3, <3>4, <3>8, <3>9 DEF HeldInv, HeldTypes, DecisionsTrue, HeldEvents
  <2> QED
    BY <2>2, <2>3
<1>13. ASSUME NEW m \in Moderators, EmitResolved(m) PROVE HeldInv'
  <2>1. PICK i, approve : /\ i = moResolve[m].id /\ approve = moResolve[m].approve
                          /\ i \in HeldIds /\ approve \in BOOLEAN /\ moResolve[m].pc = "emit"
    BY <1>13, <1>14 DEF EmitResolved
  <2>2. PICK e \in HeldEvents : e = Resolved(i, approve) /\ e.type = "resolved" /\ e.id = i
    BY <1>4, <2>1
  <2>3. /\ moPipe' = Append(moPipe, e) /\ UNCHANGED <<moRows, moEvicted, moTwitch>>
        /\ moResolve' = [moResolve EXCEPT ![m] = NoResolve]
    BY <1>13, <2>1, <2>2 DEF EmitResolved
  <2>4. moTwitch[i] \in Decided
    BY <2>1 DEF ModerationInv, HeldInv, DecisionsTrue
  <2>5. /\ moPipe' \in Seq(HeldEvents) /\ RowsOnce' /\ RowsCleared' /\ ArrivalsCleared' /\ HeldSomewhere'
        /\ \A k \in 1 .. Len(moPipe') : moPipe'[k].type = "resolved" => moTwitch'[moPipe'[k].id] \in Decided
    BY <1>3, <2>2, <2>3, <2>4, EventAnnounced
  <2>6. /\ moResolve' \in [Moderators -> {NoResolve} \cup [pc : {"ask", "emit"}, id : HeldIds, approve : BOOLEAN]]
        /\ \A x \in Moderators : moResolve'[x] = IF x = m THEN NoResolve ELSE moResolve[x]
    BY <1>3, <2>3
  <2>7. \A x \in Moderators : moResolve'[x].pc = "emit" => moTwitch'[moResolve'[x].id] \in Decided
    BY <1>3, <2>3, <2>6 DEF HeldInv, DecisionsTrue, NoResolve
  <2> QED
    BY <1>3, <2>3, <2>5, <2>6, <2>7 DEF HeldInv, HeldTypes, DecisionsTrue, HeldEvents
<1> QED
  BY <1>6, <1>7, <1>8, <1>9, <1>10, <1>11, <1>12, <1>13 DEF HeldNext

(* Once its events are through, the queue that moderators see is the messages   *)
(* Twitch still holds but for those the cap has dropped (Queue.Consume,         *)
(* heldControl.resolve, Twitch's own notifications), and what is typed keeps    *)
(* its meaning through Parse, wrapping durations and Moderate of the adapters:  *)
(* for any number of messages, moderators and repeated notifications, any cap,  *)
(* width of a duration and ceilings.                                            *)
THEOREM ModerationHolds == ModerationSpec => []ModerationFaithful
<1>1. ModerationInit => ModerationInv
  BY ModerationStarts, ModerationConstants
<1>2. ModerationInv /\ [HeldNext \/ CommandsNext]_moVars => ModerationInv'
  <2> SUFFICES ASSUME ModerationInv, [HeldNext \/ CommandsNext]_moVars PROVE ModerationInv'
    OBVIOUS
  <2>1. CASE HeldNext
    BY <2>1, HeldStep, ModerationConstants
  <2>2. CASE CommandsNext
    <3>1. PICK plat \in {"twitch", "kick"}, input \in Inputs, caps \in [send : BOOLEAN, moderation : BOOLEAN] :
            Do(plat, input, caps)
      BY <2>2 DEF CommandsNext
    <3>2. CommandsKeepMeaning' /\ moLast'.done.secs \in Int
      BY <3>1, CommandKept, ModerationConstants
    <3>3. UNCHANGED <<moRows, moEvicted, moTwitch, moPipe, moResolve, moDups>>
      BY <3>1 DEF Do
    <3> QED
      BY <3>2, <3>3 DEF ModerationInv, HeldInv, HeldTypes, RowsOnce, RowsCleared, ArrivalsCleared, DecisionsTrue, HeldSomewhere, DecisionAfter
  <2>3. CASE UNCHANGED moVars
    BY <2>3 DEF ModerationInv, HeldInv, HeldTypes, RowsOnce, RowsCleared, ArrivalsCleared, DecisionsTrue, HeldSomewhere, DecisionAfter,
                CommandsKeepMeaning, moVars
  <2> QED
    BY <2>1, <2>2, <2>3
<1>3. ModerationInv => ModerationFaithful
  <2> SUFFICES ASSUME ModerationInv PROVE ModerationFaithful
    OBVIOUS
  <2>1. ModerationTypeOK /\ CommandsKeepMeaning
    BY DEF ModerationInv, HeldInv, HeldTypes, ModerationTypeOK, Decided
  <2>2. HeldRowsAreHeld
    <3> SUFFICES ASSUME moPipe = << >>
                 PROVE  /\ ToSet(moRows) \subseteq {i \in HeldIds : moTwitch[i] = "held"}
                        /\ {i \in HeldIds : moTwitch[i] = "held"} \subseteq ToSet(moRows) \cup moEvicted
                        /\ \A i, j \in 1 .. Len(moRows) : moRows[i] = moRows[j] => i = j
      BY DEF HeldRowsAreHeld
    <3>1. moRows \in Seq(HeldIds) /\ DOMAIN moRows = 1 .. Len(moRows)
      BY DEF ModerationInv, HeldInv, HeldTypes
    <3>2. \A k \in 1 .. Len(moRows) : moRows[k] \in HeldIds /\ moTwitch[moRows[k]] = "held"
      BY <3>1 DEF ModerationInv, HeldInv, RowsCleared, DecisionAfter
    <3>3. \A i \in HeldIds : moTwitch[i] = "held" => i \in moEvicted \/ \E k \in 1 .. Len(moRows) : moRows[k] = i
      BY DEF ModerationInv, HeldInv, HeldSomewhere
    <3> QED
      BY <3>1, <3>2, <3>3 DEF ToSet, ModerationInv, HeldInv, RowsOnce, Once
  <2> QED
    BY <2>1, <2>2 DEF ModerationFaithful
<1> QED
  BY <1>1, <1>2, <1>3, PTL DEF ModerationSpec
=============================================================================
