---------------------------- MODULE ReadersProofs ----------------------------
(* Proofs about the readers of YouTube and Kick and the live updates beside them, for any
   channels, calls of Join and buffers, and for any bounds: however Join, Leave, Close and
   lost connections overlap, a channel has one worker, a connection that lives is
   subscribed to every chatroom or emote set, and nothing runs after Close.   *)
EXTENDS YouTubeAdapter, KickAdapter, Overlays, FiniteSetTheorems, TLAPS

-----------------------------------------------------------------------------
(* YouTube: the inductive invariant.                                         *)

Health == {"none", "ok", "reconnecting", "not_found", "not_live", "upstream_down"}
YtPcs == {"wait", "sleep", "next", "poll", "deliver", "emit", "ended"}
YtWorkers == [ch : YtChannels, pc : YtPcs, health : Health, fails : 0 .. MaxPollFailures,
              left : BOOLEAN, todo : Nat]

YtTyped ==
  /\ ytWorker \in Seq(YtWorkers) /\ ytListed \in [YtChannels -> Nat]
  /\ ytClose \in {"no", "waits", "done"} /\ ytBuf \in 0 .. YtEventCap
  /\ \A j \in YtJoins : ytJoin[j].pc = "resolve" => ytJoin[j].ch \in YtChannels
  /\ ytJoin = [j \in YtJoins |-> ytJoin[j]]

(* An entry leads to a worker of its channel that nobody has cancelled, and every such
   worker is behind an entry; Close empties the list.                         *)
Entries(w) == ytListed[ytWorker[w].ch] = w
Listed ==
  /\ \A c \in YtChannels : ytListed[c] # 0 =>
       ytListed[c] \in 1 .. Len(ytWorker) /\ ytWorker[ytListed[c]].ch = c
         /\ ~ytWorker[ytListed[c]].left
  /\ ytClose = "no" => \A w \in 1 .. Len(ytWorker) : ~ytWorker[w].left => Entries(w)
  /\ ytClose # "no" => \A c \in YtChannels : ytListed[c] = 0

(* A poll is made only below the limit of failures, and what is reported fits. *)
Honest(r) ==
  /\ r.pc \in {"poll", "deliver", "emit"} => (r.health = "ok") = (r.fails = 0)
  /\ r.pc = "sleep" => r.health \in {"not_found", "not_live", "upstream_down"}
  /\ r.pc = "poll" => r.fails < MaxPollFailures
  /\ r.pc \in {"deliver", "emit"} => r.fails = 0
Reports == \A w \in 1 .. Len(ytWorker) : Honest(ytWorker[w])

YtQuiet ==
  /\ ~ytPanic
  /\ ytClose = "done" => \A w \in 1 .. Len(ytWorker) : ~Running(w)

YtInv == YtTyped /\ Listed /\ Reports /\ YtQuiet

(* A step of one worker that keeps its channel and whether it was cancelled. *)
LEMMA WorkerMoves ==
  ASSUME YtInv, NEW w \in 1 .. Len(ytWorker), NEW r \in YtWorkers,
         r.ch = ytWorker[w].ch, r.left = ytWorker[w].left, Honest(r),
         Running(w), ytWorker' = [ytWorker EXCEPT ![w] = r],
         UNCHANGED <<ytListed, ytClose, ytJoin>>,
         UNCHANGED <<ytBuf, ytPanic>> \/ YtEmit(w)
  PROVE  YtInv'
<1>1. /\ ytWorker \in Seq(YtWorkers) /\ Len(ytWorker) \in Nat
      /\ ytClose # "done" /\ ~ytPanic
  BY DEF YtInv, YtTyped, YtQuiet
<1>2. /\ ytWorker' \in Seq(YtWorkers) /\ Len(ytWorker') = Len(ytWorker)
      /\ ytWorker'[w] = r
      /\ \A v \in 1 .. Len(ytWorker) : v # w => ytWorker'[v] = ytWorker[v]
  BY <1>1
<1>3. ytBuf' \in 0 .. YtEventCap /\ ~ytPanic'
  <2>1. ytBuf \in 0 .. YtEventCap /\ YtEventCap \in Nat
    BY YouTubeConstants DEF YtInv, YtTyped
  <2> QED
    BY <1>1, <2>1 DEF YtEmit
<1>4. YtTyped'
  BY <1>2, <1>3 DEF YtInv, YtTyped
<1>5. \A v \in 1 .. Len(ytWorker) : /\ ytWorker'[v].ch = ytWorker[v].ch
                                    /\ ytWorker'[v].left = ytWorker[v].left
  BY <1>2
<1>6. Listed'
  BY <1>2, <1>5 DEF YtInv, Listed, Entries
<1>7. Reports'
  BY <1>2 DEF YtInv, Reports
<1> QED
  BY <1>1, <1>3, <1>4, <1>6, <1>7 DEF YtInv, YtQuiet

(* What Step changes of its worker. *)
LEMMA StepMoves ==
  ASSUME YtInv, NEW w \in 1 .. Len(ytWorker), NEW from \in YtPcs \ {"ended"}, NEW pc \in YtPcs,
         NEW h \in Health, NEW fails \in 0 .. MaxPollFailures,
         Step(w, from, pc, h, fails),
         Honest([ytWorker[w] EXCEPT !.pc = pc, !.health = h, !.fails = fails])
  PROVE  YtInv'
<1> DEFINE r == [ytWorker[w] EXCEPT !.pc = pc, !.health = h, !.fails = fails]
<1>1. ytWorker[w] \in YtWorkers
  BY DEF YtInv, YtTyped
<1>2. r \in YtWorkers /\ r.ch = ytWorker[w].ch /\ r.left = ytWorker[w].left
  BY <1>1 DEF YtWorkers
<1>3. /\ ytWorker' = [ytWorker EXCEPT ![w] = r]
      /\ Running(w) /\ UNCHANGED <<ytListed, ytClose, ytJoin>>
      /\ UNCHANGED <<ytBuf, ytPanic>> \/ YtEmit(w)
  BY DEF Step, Moves, Running
<1> QED
  BY <1>2, <1>3, WorkerMoves

(* A worker that a Join starts. *)
LEMMA JoinStarts ==
  ASSUME YtInv, NEW j \in YtJoins, YtJoinStarts(j)
  PROVE  YtInv'
<1>1. /\ ytWorker \in Seq(YtWorkers) /\ Len(ytWorker) \in Nat /\ ytListed \in [YtChannels -> Nat]
      /\ ytJoin[j].pc = "resolve" /\ ytJoin' = [ytJoin EXCEPT ![j] = YtIdle]
      /\ UNCHANGED <<ytClose, ytBuf, ytPanic>>
  BY DEF YtInv, YtTyped, YtJoinStarts
<1>2. PICK c \in YtChannels : c = ytJoin[j].ch
  BY <1>1 DEF YtInv, YtTyped
<1>3. /\ \A i \in YtJoins : ytJoin'[i].pc = "resolve" => ytJoin'[i].ch \in YtChannels
      /\ ytJoin' = [i \in YtJoins |-> ytJoin'[i]]
  BY <1>1 DEF YtInv, YtTyped, YtIdle
<1>4. CASE ytClose = "no" /\ ytListed[c] = 0
  <2>1. Starts(j, c)
    BY <1>2, <1>4 DEF YtJoinStarts
  <2>2. PICK live \in BOOLEAN : ytWorker' = Append(ytWorker, NewWorker(c, live))
    BY <2>1 DEF Starts
  <2>3. PICK r : r = NewWorker(c, live)
    OBVIOUS
  <2>4. r \in YtWorkers /\ Honest(r) /\ r.ch = c /\ ~r.left
    BY <2>3, YouTubeConstants DEF YtWorkers, NewWorker, Honest, YtPcs, Health
  <2>5. /\ ytWorker' \in Seq(YtWorkers) /\ Len(ytWorker') = Len(ytWorker) + 1
        /\ ytWorker'[Len(ytWorker) + 1] = r
        /\ \A w \in 1 .. Len(ytWorker) : ytWorker'[w] = ytWorker[w]
    BY <1>1, <2>2, <2>3, <2>4
  <2>6. /\ ytListed' \in [YtChannels -> Nat] /\ ytListed'[c] = Len(ytWorker) + 1
        /\ \A d \in YtChannels \ {c} : ytListed'[d] = ytListed[d]
    BY <1>1, <2>1 DEF Starts
  <2>7. \A w \in 1 .. Len(ytWorker') : w \in 1 .. Len(ytWorker) \/ w = Len(ytWorker) + 1
    BY <1>1, <2>5
  <2>8. YtTyped'
    BY <1>1, <1>3, <2>5, <2>6 DEF YtInv, YtTyped
  <2>9. Listed'
    <3>1. ASSUME NEW d \in YtChannels, ytListed'[d] # 0
          PROVE  /\ ytListed'[d] \in 1 .. Len(ytWorker') /\ ytWorker'[ytListed'[d]].ch = d
                 /\ ~ytWorker'[ytListed'[d]].left
      <4>1. CASE d = c
        BY <4>1, <1>1, <2>4, <2>5, <2>6
      <4>2. CASE d # c
        <5>1. /\ ytListed[d] \in 1 .. Len(ytWorker) /\ ytWorker[ytListed[d]].ch = d
              /\ ~ytWorker[ytListed[d]].left
          BY <3>1, <4>2, <2>6 DEF YtInv, Listed
        <5> QED
          BY <4>2, <5>1, <1>1, <2>5, <2>6
      <4> QED
        BY <4>1, <4>2
    <3>2. ASSUME NEW w \in 1 .. Len(ytWorker'), ~ytWorker'[w].left
          PROVE  ytListed'[ytWorker'[w].ch] = w
      <4>1. CASE w = Len(ytWorker) + 1
        BY <4>1, <2>4, <2>5, <2>6
      <4>2. CASE w \in 1 .. Len(ytWorker)
        <5>1. ytListed[ytWorker[w].ch] = w /\ ytWorker[w] \in YtWorkers
          BY <3>2, <4>2, <1>1, <1>4, <2>5 DEF YtInv, Listed, Entries
        <5>2. ytWorker[w].ch \in YtChannels \ {c} /\ ytWorker'[w] = ytWorker[w]
          BY <5>1, <4>2, <1>4, <2>5 DEF YtWorkers
        <5> QED
          BY <5>1, <5>2, <2>6
      <4> QED
        BY <4>1, <4>2, <2>7
    <3> QED
      BY <3>1, <3>2, <1>1, <1>4 DEF Listed, Entries
  <2>10. Reports'
    BY <2>4, <2>5, <2>7 DEF YtInv, Reports
  <2> QED
    BY <2>8, <2>9, <2>10, <1>1, <1>4 DEF YtInv, YtQuiet
<1>5. CASE ~(ytClose = "no" /\ ytListed[c] = 0)
  <2>1. UNCHANGED <<ytListed, ytWorker>>
    BY <1>2, <1>5 DEF YtJoinStarts
  <2> QED
    BY <1>1, <1>3, <2>1 DEF YtInv, YtTyped, Listed, Entries, Reports, YtQuiet, Running
<1> QED
  BY <1>4, <1>5

(* Leave cancels the worker behind the entry. *)
LEMMA LeaveCancels ==
  ASSUME YtInv, NEW c \in YtChannels, YtLeave(c)
  PROVE  YtInv'
<1>1. /\ ytWorker \in Seq(YtWorkers) /\ Len(ytWorker) \in Nat /\ ytListed \in [YtChannels -> Nat]
      /\ UNCHANGED <<ytJoin, ytClose, ytBuf, ytPanic>>
  BY DEF YtInv, YtTyped, YtLeave
<1>2. PICK v \in 1 .. Len(ytWorker) : v = ytListed[c] /\ ytWorker[v].ch = c
  BY DEF YtInv, Listed, YtLeave
<1>3. PICK r \in YtWorkers : r = [ytWorker[v] EXCEPT !.left = TRUE]
  <2>1. ytWorker[v] \in YtWorkers
    BY <1>1
  <2>2. [ytWorker[v] EXCEPT !.left = TRUE] \in YtWorkers
    BY <2>1 DEF YtWorkers
  <2> QED
    BY <2>2
<1>4. /\ ytWorker' = [ytWorker EXCEPT ![v] = r] /\ ytListed' = [ytListed EXCEPT ![c] = 0]
  BY <1>2, <1>3 DEF YtLeave
<1>5. /\ ytWorker' \in Seq(YtWorkers) /\ Len(ytWorker') = Len(ytWorker) /\ ytWorker'[v] = r
      /\ \A w \in 1 .. Len(ytWorker) : w # v => ytWorker'[w] = ytWorker[w]
      /\ ytListed' \in [YtChannels -> Nat] /\ ytListed'[c] = 0
      /\ \A d \in YtChannels \ {c} : ytListed'[d] = ytListed[d]
  BY <1>1, <1>4
<1>6. r.left /\ r.ch = c /\ r.pc = ytWorker[v].pc /\ Honest(r)
  <2>1. ytWorker[v] \in YtWorkers
    BY <1>1
  <2>2. r.left /\ r.ch = ytWorker[v].ch /\ r.pc = ytWorker[v].pc /\ r.health = ytWorker[v].health
        /\ r.fails = ytWorker[v].fails
    BY <2>1, <1>3 DEF YtWorkers
  <2>3. Honest(ytWorker[v])
    BY <1>2 DEF YtInv, Reports
  <2> QED
    BY <2>2, <2>3, <1>2 DEF Honest
<1>7. Listed'
  <2>1. ASSUME NEW d \in YtChannels, ytListed'[d] # 0
        PROVE  /\ ytListed'[d] \in 1 .. Len(ytWorker') /\ ytWorker'[ytListed'[d]].ch = d
               /\ ~ytWorker'[ytListed'[d]].left
    <3>1. d # c
      BY <2>1, <1>5
    <3>2. /\ ytListed[d] \in 1 .. Len(ytWorker) /\ ytWorker[ytListed[d]].ch = d
          /\ ~ytWorker[ytListed[d]].left /\ ytListed'[d] = ytListed[d]
      BY <2>1, <3>1, <1>5 DEF YtInv, Listed
    <3>3. ytListed[d] # v
      BY <3>1, <3>2, <1>2
    <3> QED
      BY <3>2, <3>3, <1>5
  <2>2. ASSUME ytClose = "no", NEW w \in 1 .. Len(ytWorker), ~ytWorker'[w].left
        PROVE  ytListed'[ytWorker'[w].ch] = w
    <3>1. w # v
      BY <2>2, <1>5, <1>6
    <3>2. ytWorker'[w] = ytWorker[w] /\ ytListed[ytWorker[w].ch] = w /\ ytWorker[w] \in YtWorkers
      BY <2>2, <3>1, <1>1, <1>5 DEF YtInv, Listed, Entries
    <3>3. ytWorker[w].ch \in YtChannels \ {c}
      BY <3>1, <3>2, <1>2 DEF YtWorkers
    <3> QED
      BY <3>2, <3>3, <1>5
  <2>3. ytClose # "no" => \A d \in YtChannels : ytListed'[d] = 0
    BY <1>5 DEF YtInv, Listed
  <2> QED
    BY <2>1, <2>2, <2>3, <1>1, <1>5 DEF Listed, Entries
<1>8. YtTyped' /\ Reports'
  BY <1>1, <1>5, <1>6 DEF YtInv, YtTyped, Reports
<1>9. YtQuiet'
  BY <1>1, <1>5, <1>6 DEF YtInv, YtQuiet, Running
<1> QED
  BY <1>7, <1>8, <1>9 DEF YtInv

(* The steps of a worker between waiting for a broadcast and the end. *)
LEMMA WorkerSteps ==
  ASSUME YtInv, NEW w \in 1 .. Len(ytWorker),
         \/ WorkerEndsCancelled(w) \/ Waits(w) \/ FoundLive(w) \/ FetchContinuation(w)
         \/ NoContinuation(w) \/ \E h \in {"not_found", "not_live", "upstream_down"} : StillWaits(w, h)
         \/ \E n \in 0 .. 1 : Delivers(w, n)
         \/ FetchChatFails(w) \/ FetchChat(w) \/ EmitsOne(w) \/ BroadcastEnds(w)
         \/ NextContinuation(w) \/ NoNextContinuation(w)
  PROVE  YtInv'
<1>t. /\ ytWorker[w] \in YtWorkers /\ Honest(ytWorker[w])
      /\ MaxPollFailures \in Nat \ {0} /\ 0 \in 0 .. MaxPollFailures
      /\ ytWorker[w].health \in Health /\ ytWorker[w].fails \in 0 .. MaxPollFailures
      /\ ytWorker[w].todo \in Nat
      /\ \A v \in 1 .. Len(ytWorker) : ytWorker[v] \in YtWorkers
  <2>1. /\ ytWorker \in Seq(YtWorkers) /\ Honest(ytWorker[w])
        /\ MaxPollFailures \in Nat \ {0}
    BY YouTubeConstants DEF YtInv, YtTyped, Reports
  <2>2. ytWorker[w] \in YtWorkers /\ \A v \in 1 .. Len(ytWorker) : ytWorker[v] \in YtWorkers
    BY <2>1
  <2> QED
    BY <2>1, <2>2 DEF YtWorkers
<1>h. {"ok", "reconnecting", "not_found", "not_live", "upstream_down"} \subseteq Health
      /\ {"wait", "sleep", "next", "poll", "deliver", "emit"} \subseteq YtPcs \ {"ended"}
  BY DEF Health, YtPcs
<1>m. ASSUME NEW pc \in YtPcs, NEW h \in Health, NEW fails \in 0 .. MaxPollFailures
      PROVE  /\ [ytWorker[w] EXCEPT !.pc = pc, !.health = h, !.fails = fails].pc = pc
             /\ [ytWorker[w] EXCEPT !.pc = pc, !.health = h, !.fails = fails].health = h
             /\ [ytWorker[w] EXCEPT !.pc = pc, !.health = h, !.fails = fails].fails = fails
  BY <1>t DEF YtWorkers
<1>1. CASE WorkerEndsCancelled(w)
  <2>1. PICK r : r = [ytWorker[w] EXCEPT !.pc = "ended"]
    OBVIOUS
  <2>2. r \in YtWorkers /\ r.pc = "ended" /\ r.ch = ytWorker[w].ch /\ r.left = ytWorker[w].left
    BY <2>1, <1>t DEF YtWorkers, YtPcs
  <2>3. Honest(r)
    BY <2>2 DEF Honest
  <2>4. /\ ytWorker' = [ytWorker EXCEPT ![w] = r] /\ Running(w)
        /\ UNCHANGED <<ytListed, ytClose, ytJoin>> /\ UNCHANGED <<ytBuf, ytPanic>>
    BY <1>1, <2>1 DEF WorkerEndsCancelled
  <2> QED
    BY <2>2, <2>3, <2>4, WorkerMoves
<1>2. CASE Waits(w)
  BY <1>2, <1>h, <1>m, <1>t, StepMoves DEF Waits, Honest
<1>3. CASE FoundLive(w)
  BY <1>3, <1>h, <1>m, <1>t, StepMoves DEF FoundLive, Honest
<1>4. CASE FetchContinuation(w)
  BY <1>4, <1>h, <1>m, <1>t, StepMoves DEF FetchContinuation, Honest
<1>5. CASE NoContinuation(w)
  BY <1>5, <1>h, <1>m, <1>t, StepMoves DEF NoContinuation, Honest
<1>6. ASSUME NEW h \in {"not_found", "not_live", "upstream_down"}, StillWaits(w, h)
      PROVE  YtInv'
  BY <1>6, <1>h, <1>m, <1>t, StepMoves DEF StillWaits, Honest
<1>7. ASSUME NEW n \in 0 .. 1, Delivers(w, n)
      PROVE  YtInv'
  <2>1. PICK r : r = [ytWorker[w] EXCEPT !.pc = "emit", !.todo = n]
    OBVIOUS
  <2>n. n \in Nat /\ "emit" \in YtPcs
    BY DEF YtPcs
  <2>2. /\ r \in YtWorkers /\ r.pc = "emit" /\ r.ch = ytWorker[w].ch /\ r.left = ytWorker[w].left
        /\ r.health = ytWorker[w].health /\ r.fails = ytWorker[w].fails
    BY <2>1, <2>n, <1>t DEF YtWorkers
  <2>3. Honest(r)
    BY <1>7, <2>2, <1>t DEF Honest, Delivers
  <2>4. /\ ytWorker' = [ytWorker EXCEPT ![w] = r] /\ Running(w)
        /\ UNCHANGED <<ytListed, ytClose, ytJoin>> /\ UNCHANGED <<ytBuf, ytPanic>>
    BY <1>7, <2>1 DEF Delivers, Running
  <2> QED
    BY <2>2, <2>3, <2>4, WorkerMoves
<1>8. CASE FetchChatFails(w)
  <2>1. PICK n \in 0 .. MaxPollFailures : n = ytWorker[w].fails + 1 /\ n # 0
    <3>1. ytWorker[w].pc = "poll"
      BY <1>8 DEF FetchChatFails, Step
    <3>2. ytWorker[w].fails < MaxPollFailures
      BY <3>1, <1>t DEF Honest
    <3> QED
      BY <3>2, <1>t
  <2>2. CASE n >= MaxPollFailures
    <3>1. Step(w, "poll", "wait", ytWorker[w].health, n)
      BY <1>8, <2>1, <2>2 DEF FetchChatFails
    <3> QED
      BY <3>1, <1>h, <1>m, <1>t, StepMoves DEF Honest
  <2>3. CASE ~(n >= MaxPollFailures)
    <3>1. Step(w, "poll", "poll", "reconnecting", n) /\ n < MaxPollFailures
      BY <1>8, <1>t, <2>1, <2>3 DEF FetchChatFails
    <3> QED
      BY <2>1, <3>1, <1>h, <1>m, <1>t, StepMoves DEF Honest
  <2> QED
    BY <2>2, <2>3
<1>9. CASE FetchChat(w)
  <2>1. PICK h \in Health : h = IF ytWorker[w].fails > 0 THEN "ok" ELSE ytWorker[w].health
    BY <1>h, <1>t
  <2>2. Step(w, "poll", "deliver", h, 0)
    BY <1>9, <2>1 DEF FetchChat
  <2>3. h = "ok"
    <3>1. ytWorker[w].pc = "poll"
      BY <2>2 DEF Step
    <3> QED
      BY <3>1, <2>1, <1>t DEF Honest
  <2> QED
    BY <2>2, <2>3, <1>h, <1>m, <1>t, StepMoves DEF Honest
<1>10. CASE EmitsOne(w)
  <2>1. PICK r : r = [ytWorker[w] EXCEPT !.todo = @ - 1]
    OBVIOUS
  <2>2. /\ r \in YtWorkers /\ r.pc = "emit" /\ r.ch = ytWorker[w].ch /\ r.left = ytWorker[w].left
        /\ r.health = ytWorker[w].health /\ r.fails = ytWorker[w].fails
    <3>1. ytWorker[w].todo - 1 \in Nat /\ ytWorker[w].pc = "emit"
      BY <1>10, <1>t DEF EmitsOne
    <3> QED
      BY <2>1, <3>1, <1>t DEF YtWorkers
  <2>3. Honest(r)
    BY <1>10, <2>2, <1>t DEF Honest, EmitsOne
  <2>4. /\ ytWorker' = [ytWorker EXCEPT ![w] = r] /\ Running(w)
        /\ UNCHANGED <<ytListed, ytClose, ytJoin>> /\ YtEmit(w)
    BY <1>10, <2>1 DEF EmitsOne, Running
  <2> QED
    BY <2>2, <2>3, <2>4, WorkerMoves
<1>11. CASE BroadcastEnds(w)
  BY <1>11, <1>h, <1>m, <1>t, StepMoves DEF BroadcastEnds, Honest
<1>12. CASE NextContinuation(w)
  <2>1. Step(w, "emit", "poll", ytWorker[w].health, 0) /\ ytWorker[w].pc = "emit"
    BY <1>12 DEF NextContinuation, Step
  <2>2. ytWorker[w].health = "ok"
    BY <2>1, <1>t DEF Honest
  <2>3. 0 < MaxPollFailures
    BY <1>t
  <2> QED
    BY <2>1, <2>2, <2>3, <1>h, <1>m, <1>t, StepMoves DEF Honest
<1>13. CASE NoNextContinuation(w)
  BY <1>13, <1>h, <1>m, <1>t, StepMoves DEF NoNextContinuation, Honest
<1> QED
  BY <1>1, <1>2, <1>3, <1>4, <1>5, <1>6, <1>7, <1>8, <1>9, <1>10, <1>11, <1>12, <1>13

(* YtInv holds at the start and is kept by every step. *)
LEMMA YtInvStarts ==
  ASSUME YouTubeInit
  PROVE  YtInv
<1>1. /\ ytListed = [c \in YtChannels |-> 0] /\ ytWorker = <<>> /\ ytJoin = [j \in YtJoins |-> YtIdle]
      /\ ytClose = "no" /\ ytBuf = 0 /\ ytPanic = FALSE /\ YtEventCap \in Nat
  BY YouTubeConstants DEF YouTubeInit
<1>2. ytWorker \in Seq(YtWorkers) /\ Len(ytWorker) = 0
  BY <1>1
<1>3. YtTyped
  BY <1>1, <1>2 DEF YtTyped, YtIdle
<1> QED
  BY <1>1, <1>2, <1>3 DEF YtInv, Listed, Entries, Reports, YtQuiet

LEMMA YtInvStep ==
  ASSUME YtInv, [YouTubeNext]_ytVars
  PROVE  YtInv'
<1>t. /\ ytWorker \in Seq(YtWorkers) /\ Len(ytWorker) \in Nat /\ ytBuf \in Nat /\ YtEventCap \in Nat
      /\ ytBuf \in 0 .. YtEventCap
  BY YouTubeConstants DEF YtInv, YtTyped
<1>1. ASSUME NEW j \in YtJoins, NEW c \in YtChannels, YtJoinBegins(j, c)
      PROVE  YtInv'
  <2>1. /\ UNCHANGED <<ytListed, ytWorker, ytClose, ytBuf, ytPanic>>
        /\ ytJoin' = [ytJoin EXCEPT ![j] = [pc |-> "resolve", ch |-> c]]
    BY <1>1 DEF YtJoinBegins
  <2>2. YtTyped'
    BY <2>1 DEF YtInv, YtTyped
  <2> QED
    BY <2>1, <2>2 DEF YtInv, Listed, Entries, Reports, YtQuiet, Running
<1>2. ASSUME NEW j \in YtJoins, YtJoinUnknown(j)
      PROVE  YtInv'
  <2>1. /\ UNCHANGED <<ytListed, ytWorker, ytClose, ytBuf, ytPanic>>
        /\ ytJoin' = [ytJoin EXCEPT ![j] = YtIdle]
    BY <1>2 DEF YtJoinUnknown
  <2>2. YtTyped'
    BY <2>1 DEF YtInv, YtTyped, YtIdle
  <2> QED
    BY <2>1, <2>2 DEF YtInv, Listed, Entries, Reports, YtQuiet, Running
<1>3. CASE YtCloseBegins
  <2>1. /\ UNCHANGED <<ytWorker, ytJoin, ytBuf, ytPanic>> /\ ytClose' = "waits"
        /\ ytListed' = [c \in YtChannels |-> 0]
    BY <1>3 DEF YtCloseBegins
  <2>2. YtTyped'
    BY <2>1 DEF YtInv, YtTyped
  <2> QED
    BY <2>1, <2>2 DEF YtInv, Listed, Reports, YtQuiet
<1>4. CASE YtCloseReturns
  <2>1. /\ UNCHANGED <<ytListed, ytWorker, ytJoin, ytBuf, ytPanic>> /\ ytClose = "waits" /\ ytClose' = "done"
        /\ \A w \in 1 .. Len(ytWorker) : ~Running(w)
    BY <1>4 DEF YtCloseReturns
  <2>2. YtTyped'
    BY <2>1 DEF YtInv, YtTyped
  <2> QED
    BY <2>1, <2>2 DEF YtInv, Listed, Reports, YtQuiet, Running
<1>5. CASE YtEngineForwards
  <2>1. UNCHANGED <<ytListed, ytWorker, ytJoin, ytClose, ytPanic>> /\ ytBuf' \in 0 .. YtEventCap
    BY <1>5, <1>t DEF YtEngineForwards
  <2>2. YtTyped'
    BY <2>1 DEF YtInv, YtTyped
  <2> QED
    BY <2>1, <2>2 DEF YtInv, Listed, Entries, Reports, YtQuiet, Running
<1>6. CASE UNCHANGED ytVars
  BY <1>6 DEF ytVars, YtInv, YtTyped, Listed, Entries, Reports, YtQuiet, Running
<1> QED
  BY <1>1, <1>2, <1>3, <1>4, <1>5, <1>6, JoinStarts, LeaveCancels, WorkerSteps DEF YouTubeNext

(* The entries are the workers that nobody has cancelled. *)
LEMMA YtInvSound ==
  ASSUME YtInv
  PROVE  YouTubeSound
<1>t. /\ ytWorker \in Seq(YtWorkers) /\ Len(ytWorker) \in Nat /\ ytListed \in [YtChannels -> Nat]
      /\ \A w \in 1 .. Len(ytWorker) : ytWorker[w] \in YtWorkers
  <2>1. ytWorker \in Seq(YtWorkers) /\ Len(ytWorker) \in Nat /\ ytListed \in [YtChannels -> Nat]
    BY DEF YtInv, YtTyped
  <2> QED
    BY <2>1
<1>1. YouTubeTypeOK
  <2>1. \A c \in YtChannels : ytListed[c] \in 0 .. Len(ytWorker)
    BY <1>t DEF YtInv, Listed
  <2> QED
    BY <1>t, <2>1 DEF YtInv, YtTyped, YouTubeTypeOK, YtWorkers
<1>2. ASSUME NEW c \in YtChannels
      PROVE  {w \in 1 .. Len(ytWorker) : ytWorker[w].ch = c /\ ~Cancelled(w)} = {ytListed[c]} \ {0}
  <2>1. CASE ytClose = "no"
    <3>1. ASSUME NEW w \in 1 .. Len(ytWorker), ytWorker[w].ch = c, ~Cancelled(w)
          PROVE  w \in {ytListed[c]} \ {0}
      BY <3>1, <2>1, <1>t DEF YtInv, Listed, Entries, Cancelled
    <3>2. ASSUME ytListed[c] # 0
          PROVE  /\ ytListed[c] \in 1 .. Len(ytWorker) /\ ytWorker[ytListed[c]].ch = c
                 /\ ~Cancelled(ytListed[c])
      BY <3>2, <2>1 DEF YtInv, Listed, Cancelled
    <3> QED
      BY <3>1, <3>2
  <2>2. CASE ytClose # "no"
    BY <2>2 DEF YtInv, Listed, Cancelled
  <2> QED
    BY <2>1, <2>2
<1>3. HealthIsHonest
  BY DEF YtInv, Reports, Honest, HealthIsHonest
<1>4. YtClosedIsQuiet
  BY DEF YtInv, YtQuiet, YtClosedIsQuiet
<1> QED
  BY <1>1, <1>2, <1>3, <1>4 DEF YouTubeSound, OneWorker

(* However Join, Leave and Close overlap, and whatever the polls of YouTube answer, a
   channel has at most the one worker that Leave can cancel, its last health report is
   what that worker is doing, and Close leaves no worker and no send behind
   (youtube.Adapter).                                                         *)
THEOREM OneWorkerPerChannel == YouTubeSpec => []YouTubeSound
<1>1. YouTubeSpec => []YtInv
  BY YtInvStarts, YtInvStep, PTL DEF YouTubeSpec
<1> QED
  BY <1>1, YtInvSound, PTL

-----------------------------------------------------------------------------
(* Kick: the inductive invariant.                                            *)

JoinPcs == {"resolve", "direct", "fallback", "check", "dial", "install", "add", "write"}
BusyJoin == [pc : JoinPcs, ch : KkChannels, conn : 0 .. MaxKkConns, blocked : BOOLEAN]
SupPcs == {"none", "hello", "read", "degrade", "redial", "recover", "ended"}
Supervisors == [pc : SupPcs, conn : 0 .. MaxKkConns, ids : SUBSET KkChannels]

KkTyped ==
  /\ KickTypeOK
  /\ kkClose \in {"no", "waits", "done"} /\ kkStarted \in BOOLEAN /\ kkOpen \in BOOLEAN /\ kkDirect \in Nat
  /\ kkJoin \in [KkJoins -> BusyJoin \cup {JoinIdle}] /\ kkSup \in Supervisors
  /\ kkOpened \in 0 .. MaxKkConns /\ kkAlive \subseteq 1 .. kkOpened
  /\ kkServer \in [KkConns -> SUBSET KkChannels]

(* The connection that is published is the one the supervisor reads, there is a
   supervisor once a Join has started one, and only a dial gives out connections. *)
Published ==
  /\ kkSup.pc \in {"recover", "hello", "read"} => kkConn = kkSup.conn
  /\ kkStarted = (kkSup.pc # "none")
  /\ kkSup.conn <= kkOpened
  /\ \A j \in KkJoins : kkJoin[j].pc = "install" => kkJoin[j].conn <= kkOpened

(* Every chatroom of the map is subscribed on the connection, is still in the
   supervisor's list, or its Join is about to write to that connection.       *)
OnItsWay(c) ==
  \/ c \in kkServer[kkSup.conn] \/ c \in kkSup.ids
  \/ \E j \in KkJoins : kkJoin[j].pc = "write" /\ kkJoin[j].ch = c /\ kkJoin[j].conn = kkSup.conn
Subscribed ==
  kkClose = "no" /\ kkSup.pc = "read" /\ kkSup.conn \in kkAlive => \A c \in kkSubs : OnItsWay(c)

Feed == KkTyped /\ Published /\ Subscribed /\ KickClosedIsQuiet

(* With the breaker open, the Joins that are past it can add to the refusals; with the
   breaker closed, the refusals are counted and below the threshold.          *)
AtDirect == {j \in KkJoins : kkJoin[j].pc = "direct"}
Spared ==
  /\ kkOpen => kkDirect + Cardinality(AtDirect) <= Threshold + Cardinality(KkJoins) - 1
  /\ ~kkOpen => kkDirect = 0 \/ (kkDirect <= kkFailures /\ kkFailures < Threshold)

(* What a Join's step does to its own record. *)
LEMMA JoinSet ==
  ASSUME KkTyped, NEW j \in KkJoins, NEW r \in BusyJoin \cup {JoinIdle},
         kkJoin' = [kkJoin EXCEPT ![j] = r]
  PROVE  /\ kkJoin' \in [KkJoins -> BusyJoin \cup {JoinIdle}] /\ kkJoin'[j] = r
         /\ \A i \in KkJoins : i # j => kkJoin'[i] = kkJoin[i]
<1>1. kkJoin \in [KkJoins -> BusyJoin \cup {JoinIdle}]
  BY DEF KkTyped
<1> QED
  BY <1>1

LEMMA JoinBusy ==
  ASSUME KkTyped, NEW j \in KkJoins, kkJoin[j].pc # "idle"
  PROVE  /\ kkJoin[j] \in BusyJoin /\ kkJoin[j].ch \in KkChannels
         /\ kkJoin[j].conn \in 0 .. MaxKkConns
         /\ \A pc \in JoinPcs : /\ [kkJoin[j] EXCEPT !.pc = pc] \in BusyJoin
                                /\ [kkJoin[j] EXCEPT !.pc = pc].pc = pc
                                /\ [kkJoin[j] EXCEPT !.pc = pc].ch = kkJoin[j].ch
                                /\ [kkJoin[j] EXCEPT !.pc = pc].conn = kkJoin[j].conn
<1>1. kkJoin[j] \in BusyJoin
  BY DEF KkTyped, JoinIdle
<1> QED
  BY <1>1 DEF BusyJoin

(* emit keeps the buffer within its capacity. *)
LEMMA EmitKeeps ==
  ASSUME KkTyped, Emit \/ UNCHANGED <<kkBuf, kkPanic>>
  PROVE  kkBuf' \in 0 .. EventCap
<1>1. kkBuf \in 0 .. EventCap /\ EventCap \in Nat
  BY KickConstants DEF KkTyped, KickTypeOK
<1> QED
  BY <1>1 DEF Emit

(* A step of a Join that leaves the map and the supervisor alone. *)
LEMMA JoinMoves ==
  ASSUME Feed, NEW j \in KkJoins, NEW r \in BusyJoin \cup {JoinIdle},
         kkJoin' = [kkJoin EXCEPT ![j] = r], kkJoin[j].pc # "write",
         UNCHANGED <<kkSubs, kkConn, kkStarted, kkClose, kkSup, kkServer>>,
         \/ kkOpened' = kkOpened /\ kkAlive' \subseteq kkAlive
         \/ DialOpens,
         r.pc = "install" => r.conn <= kkOpened',
         kkJoined' \subseteq KkChannels, kkBuf' \in 0 .. EventCap,
         kkHealth' \in {"ok", "degraded", "down"},
         kkFailures' \in 0 .. Threshold, kkOpen' \in BOOLEAN, kkDirect' \in Nat
  PROVE  Feed'
<1>1. /\ kkJoin' \in [KkJoins -> BusyJoin \cup {JoinIdle}] /\ kkJoin'[j] = r
      /\ \A i \in KkJoins : i # j => kkJoin'[i] = kkJoin[i]
  BY JoinSet DEF Feed
<1>2. /\ kkOpened \in 0 .. MaxKkConns /\ MaxKkConns \in Nat /\ kkAlive \subseteq 1 .. kkOpened
      /\ kkSup.conn \in 0 .. MaxKkConns /\ kkSup.conn <= kkOpened
      /\ \A i \in KkJoins : kkJoin[i].pc # "idle" => kkJoin[i].conn \in 0 .. MaxKkConns
  <2>1. \A i \in KkJoins : kkJoin[i].pc # "idle" => kkJoin[i].conn \in 0 .. MaxKkConns
    BY JoinBusy DEF Feed
  <2> QED
    BY <2>1, KickConstants DEF Feed, KkTyped, Published, Supervisors
<1>3. /\ kkOpened' \in 0 .. MaxKkConns /\ kkOpened <= kkOpened' /\ kkAlive' \subseteq 1 .. kkOpened'
      /\ kkSup.conn \in kkAlive' => kkSup.conn \in kkAlive
  <2>1. CASE kkOpened' = kkOpened /\ kkAlive' \subseteq kkAlive
    BY <2>1, <1>2
  <2>2. CASE DialOpens
    <3>1. kkOpened' = kkOpened + 1 /\ kkOpened < MaxKkConns /\ kkAlive' = kkAlive \cup {kkOpened + 1}
      BY <2>2 DEF DialOpens
    <3> QED
      BY <3>1, <1>2
  <2> QED
    BY <2>1, <2>2
<1>4. KkTyped'
  BY <1>1, <1>3 DEF Feed, KkTyped, KickTypeOK
<1>5. Published'
  <2>1. ASSUME NEW i \in KkJoins, kkJoin'[i].pc = "install"
        PROVE  kkJoin'[i].conn <= kkOpened'
    <3>1. CASE i = j
      BY <2>1, <3>1, <1>1
    <3>2. CASE i # j
      <4>1. kkJoin'[i] = kkJoin[i] /\ kkJoin[i].conn <= kkOpened /\ kkJoin[i].conn \in 0 .. MaxKkConns
        BY <2>1, <3>2, <1>1, <1>2 DEF Feed, Published
      <4> QED
        BY <4>1, <1>2, <1>3
    <3> QED
      BY <3>1, <3>2
  <2>2. kkSup'.conn <= kkOpened'
    BY <1>2, <1>3
  <2> QED
    BY <2>1, <2>2 DEF Feed, Published
<1>6. Subscribed'
  BY <1>1, <1>3 DEF Feed, Subscribed, OnItsWay
<1> QED
  BY <1>4, <1>5, <1>6 DEF Feed, KickClosedIsQuiet

(* The steps of a Join before it has its place in the map. *)
LEMMA JoinLooks ==
  ASSUME Feed, NEW j \in KkJoins,
         \/ \E c \in KkChannels : BeginJoin(j, c)
         \/ \E blocked \in BOOLEAN : DirectFails(j, blocked)
         \/ Resolve(j) \/ FetchFound(j) \/ FetchUnknown(j) \/ FallbackFails(j)
         \/ JoinChecks(j) \/ JoinDials(j)
  PROVE  Feed'
<1>t. /\ KkTyped /\ kkJoined \subseteq KkChannels /\ kkBuf \in 0 .. EventCap
      /\ kkHealth \in {"ok", "degraded", "down"}
      /\ kkFailures \in 0 .. Threshold /\ kkOpen \in BOOLEAN /\ kkDirect \in Nat /\ Threshold \in Nat \ {0}
      /\ kkOpened \in 0 .. MaxKkConns /\ MaxKkConns \in Nat
      /\ JoinIdle \in BusyJoin \cup {JoinIdle} /\ JoinIdle.pc = "idle"
      /\ {"resolve", "direct", "fallback", "check", "dial", "install", "add", "write"} = JoinPcs
  BY KickConstants DEF Feed, KkTyped, KickTypeOK, JoinIdle, JoinPcs
<1>1. ASSUME NEW c \in KkChannels, BeginJoin(j, c)
      PROVE  Feed'
  <2>1. PICK r : r = [pc |-> "resolve", ch |-> c, conn |-> 0, blocked |-> FALSE]
    OBVIOUS
  <2>2. r \in BusyJoin /\ r.pc = "resolve"
    BY <2>1, <1>t DEF BusyJoin
  <2>3. /\ kkJoin' = [kkJoin EXCEPT ![j] = r] /\ kkJoin[j].pc = "idle" /\ kkJoined' = kkJoined \cup {c}
        /\ UNCHANGED <<kkSubs, kkConn, kkStarted, kkClose, kkSup, kkHealth, kkBuf, kkServer, kkOpened, kkAlive,
                       kkFailures, kkOpen, kkDirect>>
    BY <1>1, <1>t, <2>1 DEF BeginJoin, JoinAt, netVars, resolverVars
  <2> QED
    BY <2>2, <2>3, <1>t, JoinMoves
<1>2. ASSUME NEW blocked \in BOOLEAN, DirectFails(j, blocked)
      PROVE  Feed'
  <2>1. PICK r : r = [kkJoin[j] EXCEPT !.pc = "fallback", !.blocked = blocked]
    OBVIOUS
  <2>2. kkJoin[j].pc = "direct"
    BY <1>2 DEF DirectFails
  <2>3. kkJoin[j] \in BusyJoin
    BY <2>2, <1>t, JoinBusy
  <2>4. r \in BusyJoin /\ r.pc = "fallback"
    BY <2>1, <2>3, <1>t DEF BusyJoin
  <2>5. /\ kkJoin' = [kkJoin EXCEPT ![j] = r]
        /\ UNCHANGED <<kkJoined, kkSubs, kkConn, kkStarted, kkClose, kkSup, kkHealth, kkBuf, kkServer, kkOpened, kkAlive>>
        /\ OnFailure(blocked) /\ kkDirect' = kkDirect + 1
    BY <1>2, <2>1 DEF DirectFails, JoinAt, netVars
  <2>6. kkFailures' \in 0 .. Threshold
    BY <2>5, <1>t DEF OnFailure
  <2>7. kkOpen' \in BOOLEAN
    BY <2>5, <1>t DEF OnFailure
  <2>8. kkDirect' \in Nat
    BY <2>5, <1>t
  <2> QED
    BY <2>2, <2>4, <2>5, <2>6, <2>7, <2>8, <1>t, JoinMoves
<1>3. ASSUME kkJoin[j].pc \notin {"idle", "write"}, NEW pc \in JoinPcs \ {"install"}, JoinGoes(j, pc),
             UNCHANGED <<kkJoined, kkSubs, kkConn, kkStarted, kkClose, kkSup, kkHealth, kkBuf, kkServer,
                         kkOpened, kkAlive>>,
             kkFailures' \in 0 .. Threshold, kkOpen' \in BOOLEAN, kkDirect' \in Nat
      PROVE  Feed'
  <2>1. PICK r : r = [kkJoin[j] EXCEPT !.pc = pc]
    OBVIOUS
  <2>2. r \in BusyJoin /\ r.pc = pc
    BY <2>1, <1>3, <1>t, JoinBusy
  <2>3. kkJoin' = [kkJoin EXCEPT ![j] = r]
    BY <2>1, <1>3 DEF JoinGoes
  <2> QED
    BY <2>2, <2>3, <1>3, <1>t, JoinMoves
<1>4. ASSUME kkJoin[j].pc \notin {"write"}, JoinAt(j, JoinIdle), kkJoined' \subseteq kkJoined,
             UNCHANGED <<kkSubs, kkConn, kkStarted, kkClose, kkSup, kkServer, kkOpened, kkAlive,
                         kkFailures, kkOpen, kkDirect>>,
             kkHealth' \in {"ok", "degraded", "down"}, kkBuf' \in 0 .. EventCap
      PROVE  Feed'
  BY <1>4, <1>t, JoinMoves DEF JoinAt
<1>5. CASE Resolve(j)
  <2>1. /\ kkJoin[j].pc = "resolve"
        /\ UNCHANGED <<kkJoined, kkSubs, kkConn, kkStarted, kkClose, kkSup, kkHealth, kkBuf, kkServer,
                       kkOpened, kkAlive, kkFailures, kkOpen, kkDirect>>
    BY <1>5 DEF Resolve, netVars, resolverVars
  <2>2. \/ JoinGoes(j, "check") \/ JoinGoes(j, "direct")
        \/ JoinAt(j, [kkJoin[j] EXCEPT !.pc = "fallback", !.blocked = TRUE])
    BY <1>5 DEF Resolve
  <2>3. CASE JoinAt(j, [kkJoin[j] EXCEPT !.pc = "fallback", !.blocked = TRUE])
    <3>1. PICK r : r = [kkJoin[j] EXCEPT !.pc = "fallback", !.blocked = TRUE]
      OBVIOUS
    <3>2. kkJoin[j] \in BusyJoin
      BY <2>1, <1>t, JoinBusy
    <3>3. r \in BusyJoin /\ r.pc = "fallback"
      BY <3>1, <3>2, <1>t DEF BusyJoin
    <3>4. kkJoin' = [kkJoin EXCEPT ![j] = r]
      BY <2>3, <3>1 DEF JoinAt
    <3> QED
      BY <3>3, <3>4, <2>1, <1>t, JoinMoves
  <2> QED
    BY <2>1, <2>2, <2>3, <1>3, <1>t
<1>6. CASE FetchFound(j)
  <2>1. /\ kkJoin[j].pc \in {"direct", "fallback"} /\ JoinGoes(j, "check")
        /\ UNCHANGED <<kkJoined, kkSubs, kkConn, kkStarted, kkClose, kkSup, kkHealth, kkBuf, kkServer,
                       kkOpened, kkAlive>>
        /\ kkFailures' = 0 /\ kkOpen' = FALSE /\ kkDirect' = 0
    BY <1>6 DEF FetchFound, OnSuccess, netVars
  <2>2. kkFailures' \in 0 .. Threshold /\ kkOpen' \in BOOLEAN /\ kkDirect' \in Nat
    <3>1. 0 \in 0 .. Threshold /\ 0 \in Nat
      BY <1>t
    <3>2. kkOpen' \in BOOLEAN
      BY <2>1
    <3> QED
      BY <2>1, <3>1, <3>2
  <2>3. kkJoin[j].pc \notin {"idle", "write"} /\ "check" \in JoinPcs \ {"install"}
    BY <2>1, <1>t
  <2> QED
    BY <2>1, <2>2, <2>3, <1>3
<1>7. CASE FetchUnknown(j)
  <2>1. /\ kkJoin[j].pc \in {"direct", "fallback"} /\ JoinAt(j, JoinIdle) /\ kkJoined' \subseteq kkJoined
        /\ UNCHANGED <<kkSubs, kkConn, kkStarted, kkClose, kkSup, kkHealth, kkBuf, kkServer, kkOpened, kkAlive,
                       kkFailures, kkOpen, kkDirect>>
    BY <1>7 DEF FetchUnknown, JoinErr, netVars, resolverVars
  <2> QED
    BY <2>1, <1>4, <1>t
<1>8. CASE FallbackFails(j)
  <2>1. /\ kkJoin[j].pc = "fallback" /\ JoinAt(j, JoinIdle) /\ kkJoined' \subseteq kkJoined
        /\ UNCHANGED <<kkSubs, kkConn, kkStarted, kkClose, kkSup, kkHealth, kkBuf, kkServer, kkOpened, kkAlive,
                       kkFailures, kkOpen, kkDirect>>
    BY <1>8 DEF FallbackFails, JoinErr, netVars, resolverVars
  <2> QED
    BY <2>1, <1>4, <1>t
<1>9. CASE JoinChecks(j)
  <2>1. /\ kkJoin[j].pc = "check"
        /\ UNCHANGED <<kkSubs, kkConn, kkStarted, kkClose, kkSup, kkHealth, kkBuf, kkServer, kkOpened, kkAlive,
                       kkFailures, kkOpen, kkDirect>>
    BY <1>9 DEF JoinChecks, netVars, resolverVars
  <2>2. \/ JoinAt(j, JoinIdle) /\ kkJoined' \subseteq kkJoined
        \/ (JoinGoes(j, "add") \/ JoinGoes(j, "dial")) /\ kkJoined' = kkJoined
    BY <1>9 DEF JoinChecks, JoinErr
  <2> QED
    BY <2>1, <2>2, <1>3, <1>4, <1>t
<1>10. CASE JoinDials(j)
  <2>1. /\ kkJoin[j].pc = "dial"
        /\ UNCHANGED <<kkSubs, kkConn, kkStarted, kkClose, kkSup, kkServer, kkFailures, kkOpen, kkDirect>>
    BY <1>10 DEF JoinDials, resolverVars
  <2>2. CASE JoinErr(j) /\ SetHealth("down") /\ UNCHANGED <<kkOpened, kkAlive>>
    <3>1. kkBuf' \in 0 .. EventCap
      BY <2>2, <1>t, EmitKeeps DEF SetHealth
    <3> QED
      BY <2>1, <2>2, <3>1, <1>4, <1>t DEF JoinErr, SetHealth
  <2>3. CASE /\ DialOpens /\ JoinAt(j, [kkJoin[j] EXCEPT !.pc = "install", !.conn = kkOpened + 1])
             /\ UNCHANGED <<kkJoined, kkHealth, kkBuf, kkPanic>>
    <3>1. PICK n \in 0 .. MaxKkConns : n = kkOpened + 1 /\ kkOpened' = n
      BY <2>3, <1>t DEF DialOpens
    <3>2. PICK r : r = [kkJoin[j] EXCEPT !.pc = "install", !.conn = n]
      OBVIOUS
    <3>3. kkJoin[j] \in BusyJoin
      BY <2>1, <1>t, JoinBusy
    <3>4. r \in BusyJoin /\ r.pc = "install" /\ r.conn = n
      BY <3>2, <3>3, <1>t DEF BusyJoin
    <3>5. kkJoin' = [kkJoin EXCEPT ![j] = r] /\ r.conn <= kkOpened'
      BY <2>3, <3>1, <3>2, <3>4 DEF JoinAt
    <3> QED
      BY <2>1, <2>3, <3>4, <3>5, <1>t, JoinMoves
  <2> QED
    BY <1>10, <2>2, <2>3 DEF JoinDials
<1> QED
  BY <1>1, <1>2, <1>5, <1>6, <1>7, <1>8, <1>9, <1>10

(* A Join that installs its connection, is entered in the map, or subscribes. *)
LEMMA JoinEnters ==
  ASSUME Feed, NEW j \in KkJoins, JoinInstalls(j) \/ JoinAdds(j) \/ JoinWrites(j)
  PROVE  Feed'
<1>t. /\ KkTyped /\ kkJoined \subseteq KkChannels /\ kkBuf \in 0 .. EventCap
      /\ kkHealth \in {"ok", "degraded", "down"}
      /\ kkFailures \in 0 .. Threshold /\ kkOpen \in BOOLEAN /\ kkDirect \in Nat
      /\ kkOpened \in 0 .. MaxKkConns /\ MaxKkConns \in Nat /\ kkAlive \subseteq 1 .. kkOpened
      /\ kkConn \in 0 .. MaxKkConns /\ kkServer \in [KkConns -> SUBSET KkChannels]
      /\ JoinIdle \in BusyJoin \cup {JoinIdle} /\ JoinIdle.pc = "idle"
      /\ {"resolve", "direct", "fallback", "check", "dial", "install", "add", "write"} = JoinPcs
      /\ \A n \in kkAlive : n \in KkConns
  BY KickConstants DEF Feed, KkTyped, KickTypeOK, JoinIdle, JoinPcs, KkConns
<1>1. CASE JoinInstalls(j)
  <2>1. PICK n \in 0 .. MaxKkConns : n = kkJoin[j].conn
    BY <1>1, <1>t, JoinBusy DEF JoinInstalls
  <2>2. /\ kkJoin[j].pc = "install"
        /\ UNCHANGED <<kkSubs, kkClose, kkBuf, kkOpened, kkServer, kkFailures, kkOpen, kkDirect>>
    BY <1>1 DEF JoinInstalls, resolverVars
  <2>3. CASE kkClose # "no"
    <3>1. /\ kkJoin' = [kkJoin EXCEPT ![j] = JoinIdle] /\ kkJoined' \subseteq kkJoined
          /\ kkAlive' \subseteq kkAlive /\ UNCHANGED <<kkConn, kkStarted, kkSup, kkHealth>>
      BY <1>1, <2>3 DEF JoinInstalls, JoinErr, JoinAt
    <3> QED
      BY <2>2, <3>1, <1>t, JoinMoves
  <2>4. CASE kkClose = "no" /\ kkStarted
    <3>1. PICK r : r = [kkJoin[j] EXCEPT !.pc = "add"]
      OBVIOUS
    <3>2. r \in BusyJoin /\ r.pc = "add"
      BY <3>1, <2>2, <1>t, JoinBusy
    <3>3. /\ kkJoin' = [kkJoin EXCEPT ![j] = r] /\ kkJoined' \subseteq kkJoined
          /\ kkAlive' \subseteq kkAlive /\ UNCHANGED <<kkConn, kkStarted, kkSup, kkHealth>>
      BY <1>1, <2>4, <3>1 DEF JoinInstalls, JoinGoes
    <3> QED
      BY <2>2, <3>2, <3>3, <1>t, JoinMoves
  <2>5. CASE kkClose = "no" /\ ~kkStarted
    <3>1. PICK r : r = [kkJoin[j] EXCEPT !.pc = "add"]
      OBVIOUS
    <3>2. r \in BusyJoin /\ r.pc = "add"
      BY <3>1, <2>2, <1>t, JoinBusy
    <3>3. /\ kkJoin' = [kkJoin EXCEPT ![j] = r] /\ kkConn' = n /\ kkStarted' = TRUE /\ kkHealth' = "ok"
          /\ kkSup' = [pc |-> "hello", conn |-> n, ids |-> {}] /\ UNCHANGED <<kkJoined, kkAlive>>
      BY <1>1, <2>1, <2>5, <3>1 DEF JoinInstalls, JoinGoes
    <3>4. /\ kkJoin' \in [KkJoins -> BusyJoin \cup {JoinIdle}] /\ kkJoin'[j] = r
          /\ \A i \in KkJoins : i # j => kkJoin'[i] = kkJoin[i]
      BY <3>2, <3>3, <1>t, JoinSet
    <3>5. kkSup' \in Supervisors
      BY <3>3 DEF Supervisors, SupPcs
    <3>6. KkTyped'
      BY <2>2, <3>3, <3>4, <3>5, <1>t DEF KkTyped, KickTypeOK
    <3>7. Published'
      <4>1. n <= kkOpened /\ \A i \in KkJoins : kkJoin[i].pc = "install" => kkJoin[i].conn <= kkOpened
        BY <2>1, <2>2 DEF Feed, Published
      <4>2. \A i \in KkJoins : kkJoin'[i].pc = "install" => kkJoin'[i].conn <= kkOpened
        BY <3>2, <3>4, <4>1
      <4> QED
        BY <2>2, <3>3, <4>1, <4>2 DEF Published
    <3> QED
      BY <2>2, <2>5, <3>3, <3>6, <3>7 DEF Feed, Subscribed, KickClosedIsQuiet
  <2> QED
    BY <2>3, <2>4, <2>5, <1>t DEF KkTyped
<1>2. CASE JoinAdds(j)
  <2>1. PICK c \in KkChannels : c = kkJoin[j].ch
    BY <1>2, <1>t, JoinBusy DEF JoinAdds
  <2>2. /\ kkJoin[j].pc = "add"
        /\ UNCHANGED <<kkConn, kkStarted, kkClose, kkSup, kkHealth, kkBuf, kkOpened, kkAlive, kkServer,
                       kkFailures, kkOpen, kkDirect>>
    BY <1>2 DEF JoinAdds, netVars, resolverVars
  <2>3. CASE kkClose # "no"
    <3>1. kkJoin' = [kkJoin EXCEPT ![j] = JoinIdle] /\ kkJoined' \subseteq kkJoined /\ UNCHANGED kkSubs
      BY <1>2, <2>3 DEF JoinAdds, JoinErr, JoinAt
    <3> QED
      BY <2>2, <3>1, <1>t, JoinMoves
  <2>4. CASE kkClose = "no"
    <3>1. PICK r : r = [kkJoin[j] EXCEPT !.pc = "write", !.conn = kkConn]
      OBVIOUS
    <3>2. kkJoin[j] \in BusyJoin
      BY <2>2, <1>t, JoinBusy
    <3>3. r \in BusyJoin /\ r.pc = "write" /\ r.ch = c /\ r.conn = kkConn
      BY <2>1, <3>1, <3>2, <1>t DEF BusyJoin
    <3>4. kkJoin' = [kkJoin EXCEPT ![j] = r] /\ kkSubs' = kkSubs \cup {c} /\ UNCHANGED kkJoined
      BY <1>2, <2>1, <2>4, <3>1 DEF JoinAdds, JoinAt
    <3>5. /\ kkJoin' \in [KkJoins -> BusyJoin \cup {JoinIdle}] /\ kkJoin'[j] = r
          /\ \A i \in KkJoins : i # j => kkJoin'[i] = kkJoin[i]
      BY <3>3, <3>4, <1>t, JoinSet
    <3>6. KkTyped'
      BY <2>1, <2>2, <3>4, <3>5 DEF Feed, KkTyped, KickTypeOK
    <3>7. Published'
      <4>1. \A i \in KkJoins : kkJoin'[i].pc = "install" => kkJoin'[i].conn <= kkOpened
        BY <3>3, <3>5 DEF Feed, Published
      <4> QED
        BY <2>2, <4>1 DEF Feed, Published
    <3>8. ASSUME kkSup.pc = "read", kkSup.conn \in kkAlive, NEW d \in kkSubs'
          PROVE  OnItsWay(d)'
      <4>1. CASE d = c
        <5>1. kkConn = kkSup.conn
          BY <3>8 DEF Feed, Published
        <5> QED
          BY <4>1, <5>1, <2>2, <3>3, <3>5 DEF OnItsWay
      <4>2. CASE d # c
        <5>1. OnItsWay(d)
          BY <3>8, <4>2, <2>4, <3>4 DEF Feed, Subscribed
        <5>2. \A i \in KkJoins : kkJoin[i].pc = "write" => i # j
          BY <2>2
        <5> QED
          BY <5>1, <5>2, <2>2, <3>5 DEF OnItsWay
      <4> QED
        BY <4>1, <4>2
    <3>9. Subscribed'
      BY <2>2, <3>8 DEF Subscribed
    <3> QED
      BY <2>2, <3>6, <3>7, <3>9 DEF Feed, KickClosedIsQuiet
  <2> QED
    BY <2>3, <2>4
<1>3. CASE JoinWrites(j)
  <2>1. /\ kkJoin[j].pc = "write" /\ kkJoin' = [kkJoin EXCEPT ![j] = JoinIdle]
        /\ UNCHANGED <<kkJoined, kkSubs, kkConn, kkStarted, kkClose, kkSup, kkHealth, kkBuf, kkOpened, kkAlive,
                       kkFailures, kkOpen, kkDirect>>
        /\ Subscribe(kkJoin[j].conn, {kkJoin[j].ch})
    BY <1>3 DEF JoinWrites, JoinAt, resolverVars
  <2>2. PICK n \in 0 .. MaxKkConns, c \in KkChannels : n = kkJoin[j].conn /\ c = kkJoin[j].ch
    BY <2>1, <1>t, JoinBusy
  <2>3. /\ kkServer' \in [KkConns -> SUBSET KkChannels]
        /\ \A m \in KkConns : kkServer[m] \subseteq kkServer'[m]
        /\ n \in kkAlive => c \in kkServer'[n]
    BY <2>1, <2>2, <1>t DEF Subscribe
  <2>4. /\ kkJoin' \in [KkJoins -> BusyJoin \cup {JoinIdle}] /\ kkJoin'[j] = JoinIdle
        /\ \A i \in KkJoins : i # j => kkJoin'[i] = kkJoin[i]
    BY <2>1, <1>t, JoinSet
  <2>5. KkTyped'
    BY <2>1, <2>3, <2>4 DEF Feed, KkTyped, KickTypeOK
  <2>6. Published'
    <3>1. \A i \in KkJoins : kkJoin'[i].pc = "install" => kkJoin'[i].conn <= kkOpened
      BY <1>t, <2>4 DEF Feed, Published
    <3> QED
      BY <2>1, <3>1 DEF Feed, Published
  <2>7. ASSUME kkClose = "no", kkSup.pc = "read", kkSup.conn \in kkAlive, NEW d \in kkSubs
        PROVE  OnItsWay(d)'
    <3>1. OnItsWay(d) /\ kkSup.conn \in KkConns
      BY <2>7, <1>t DEF Feed, Subscribed
    <3>2. CASE d \in kkServer[kkSup.conn] \/ d \in kkSup.ids
      BY <3>1, <3>2, <2>1, <2>3 DEF OnItsWay
    <3>3. ASSUME NEW i \in KkJoins, kkJoin[i].pc = "write", kkJoin[i].ch = d, kkJoin[i].conn = kkSup.conn
          PROVE  OnItsWay(d)'
      <4>1. CASE i = j
        BY <4>1, <3>3, <2>1, <2>2, <2>3, <2>7 DEF OnItsWay
      <4>2. CASE i # j
        BY <4>2, <3>3, <2>1, <2>4 DEF OnItsWay
      <4> QED
        BY <4>1, <4>2
    <3> QED
      BY <3>1, <3>2, <3>3 DEF OnItsWay
  <2>8. Subscribed'
    BY <2>1, <2>7 DEF Subscribed
  <2> QED
    BY <2>1, <2>5, <2>6, <2>8 DEF Feed, KickClosedIsQuiet
<1> QED
  BY <1>1, <1>2, <1>3

(* The supervisor, Leave and Close, the network and the engine. *)
LEMMA FeedSteps ==
  ASSUME Feed,
         \/ \E c \in KkChannels : KickLeave(c) \/ HandleChatMessage(c)
         \/ \E n \in KkConns : ConnDrops(n)
         \/ \E h \in {"degraded", "down"} : Degrade(h)
         \/ BreakerCooldown \/ ReadEstablished \/ SubscribeAll \/ ReadFails \/ RedialFails \/ Redialed
         \/ Recovered \/ EngineForwards \/ KickClose \/ KickCloseReturns \/ UNCHANGED kkVars
  PROVE  Feed'
<1>t. /\ KkTyped /\ kkJoined \subseteq KkChannels /\ kkSubs \subseteq KkChannels /\ kkBuf \in 0 .. EventCap
      /\ EventCap \in Nat /\ kkHealth \in {"ok", "degraded", "down"}
      /\ kkOpened \in 0 .. MaxKkConns /\ MaxKkConns \in Nat /\ kkAlive \subseteq 1 .. kkOpened
      /\ kkConn \in 0 .. MaxKkConns /\ kkServer \in [KkConns -> SUBSET KkChannels]
      /\ kkSup \in Supervisors /\ kkSup.conn \in 0 .. MaxKkConns /\ kkSup.ids \subseteq KkChannels
      /\ \A n \in kkAlive : n \in KkConns
  BY KickConstants DEF Feed, KkTyped, KickTypeOK, Supervisors, KkConns
<1>u. ASSUME UNCHANGED <<kkSubs, kkConn, kkStarted, kkClose, kkSup, kkJoin, kkOpened, kkAlive, kkServer>>,
             kkJoined' \subseteq KkChannels, kkBuf' \in 0 .. EventCap, kkHealth' \in {"ok", "degraded", "down"},
             kkFailures' \in 0 .. Threshold, kkOpen' \in BOOLEAN, kkDirect' \in Nat
      PROVE  Feed'
  BY <1>u DEF Feed, KkTyped, KickTypeOK, Published, Subscribed, OnItsWay, KickClosedIsQuiet
<1>r. kkFailures \in 0 .. Threshold /\ kkOpen \in BOOLEAN /\ kkDirect \in Nat
  BY DEF Feed, KkTyped, KickTypeOK
\* A step of the supervisor after which it is not reading.
<1>s. ASSUME NEW pc \in SupPcs \ {"read"}, NEW n \in 0 .. MaxKkConns, NEW ids \in SUBSET KkChannels,
             kkSup' = [pc |-> pc, conn |-> n, ids |-> ids],
             UNCHANGED <<kkJoined, kkSubs, kkStarted, kkClose, kkJoin, kkServer, kkFailures, kkOpen, kkDirect>>,
             \/ UNCHANGED <<kkOpened, kkAlive>>
             \/ DialOpens,
             kkBuf' \in 0 .. EventCap, kkHealth' \in {"ok", "degraded", "down"}, kkConn' \in 0 .. MaxKkConns,
             kkSup.pc \notin {"none", "ended"}, pc # "none", n <= kkOpened',
             pc \in {"recover", "hello"} => kkConn' = n,
             kkClose = "done" => pc = "ended"
      PROVE  Feed'
  <2>1. kkSup' \in Supervisors /\ kkSup'.pc = pc /\ kkSup'.conn = n
    BY <1>s DEF Supervisors
  <2>2. kkOpened' \in 0 .. MaxKkConns /\ kkOpened <= kkOpened' /\ kkAlive' \subseteq 1 .. kkOpened'
    <3>1. CASE UNCHANGED <<kkOpened, kkAlive>>
      BY <3>1, <1>t
    <3>2. CASE DialOpens
      <4>1. kkOpened' = kkOpened + 1 /\ kkOpened < MaxKkConns /\ kkAlive' = kkAlive \cup {kkOpened + 1}
        BY <3>2 DEF DialOpens
      <4> QED
        BY <4>1, <1>t
    <3> QED
      BY <1>s, <3>1, <3>2
  <2>3. KkTyped'
    BY <1>s, <2>1, <2>2 DEF Feed, KkTyped, KickTypeOK
  <2>4. \A j \in KkJoins : kkJoin'[j].pc = "install" => kkJoin'[j].conn <= kkOpened'
    <3>1. ASSUME NEW j \in KkJoins, kkJoin[j].pc = "install"
          PROVE  kkJoin[j].conn <= kkOpened'
      <4>1. kkJoin[j].conn \in 0 .. MaxKkConns /\ kkJoin[j].conn <= kkOpened
        BY <3>1, <1>t, JoinBusy DEF Feed, Published
      <4> QED
        BY <4>1, <2>2, <1>t
    <3> QED
      BY <1>s, <3>1
  <2>5. kkStarted' = (kkSup'.pc # "none")
    BY <1>s, <2>1 DEF Feed, Published
  <2>6. Published'
    BY <1>s, <2>1, <2>4, <2>5 DEF Published, SupPcs
  <2>7. Subscribed' /\ KickClosedIsQuiet'
    BY <1>s, <2>1 DEF Subscribed, KickClosedIsQuiet
  <2> QED
    BY <2>3, <2>6, <2>7 DEF Feed
<1>g. ASSUME NEW pc \in SupPcs, SupGoes(pc)
      PROVE  kkSup' = [pc |-> pc, conn |-> kkSup.conn, ids |-> kkSup.ids]
  BY <1>g, <1>t DEF SupGoes, Supervisors
<1>q. kkClose = "done" => kkSup.pc \in {"none", "ended"}
  BY DEF Feed, KickClosedIsQuiet
<1>c. kkSup.conn <= kkOpened
  BY DEF Feed, Published
<1>1. ASSUME NEW c \in KkChannels, KickLeave(c)
      PROVE  Feed'
  <2>1. PICK ids : ids = {ChatroomIdOf(LeaveRef(c))}
    OBVIOUS
  <2>2. /\ kkJoined' \subseteq kkJoined /\ kkSubs' = kkSubs \ ids
        /\ kkServer' = [n \in KkConns |-> IF n = kkConn THEN kkServer[n] \ (ids \cap kkSubs) ELSE kkServer[n]]
        /\ UNCHANGED <<kkConn, kkStarted, kkClose, kkSup, kkHealth, kkJoin, kkBuf, kkOpened, kkAlive,
                       kkFailures, kkOpen, kkDirect>>
    BY <1>1, <2>1 DEF KickLeave, resolverVars
  <2>3. kkServer' \in [KkConns -> SUBSET KkChannels]
    BY <2>2, <1>t
  <2>4. KkTyped'
    BY <2>2, <2>3 DEF Feed, KkTyped, KickTypeOK
  <2>5. Published' /\ KickClosedIsQuiet'
    BY <2>2 DEF Feed, Published, KickClosedIsQuiet
  <2>6. Subscribed'
    <3>1. ASSUME kkClose = "no", kkSup.pc = "read", kkSup.conn \in kkAlive, NEW d \in kkSubs'
          PROVE  OnItsWay(d)'
      <4>1. OnItsWay(d) /\ d \notin ids
        BY <3>1, <2>2 DEF Feed, Subscribed
      <4>2. d \in kkServer[kkSup.conn] => d \in kkServer'[kkSup.conn]
        BY <3>1, <4>1, <2>2, <1>t
      <4> QED
        BY <4>1, <4>2, <2>2 DEF OnItsWay
    <3> QED
      BY <2>2, <3>1 DEF Subscribed
  <2> QED
    BY <2>4, <2>5, <2>6 DEF Feed
<1>2. ASSUME NEW c \in KkChannels, HandleChatMessage(c)
      PROVE  Feed'
  <2>1. /\ UNCHANGED <<kkJoined, kkSubs, kkConn, kkStarted, kkClose, kkSup, kkHealth, kkJoin, kkOpened, kkAlive,
                       kkServer, kkFailures, kkOpen, kkDirect>>
        /\ kkBuf' \in 0 .. EventCap
    BY <1>2, <1>t, EmitKeeps DEF HandleChatMessage, netVars, resolverVars
  <2> QED
    BY <2>1, <1>u, <1>t, <1>r
<1>3. ASSUME NEW n \in KkConns, ConnDrops(n)
      PROVE  Feed'
  <2>1. /\ UNCHANGED <<kkJoined, kkSubs, kkConn, kkStarted, kkClose, kkSup, kkHealth, kkJoin, kkBuf, kkOpened,
                       kkFailures, kkOpen, kkDirect>>
        /\ kkAlive' = kkAlive \ {n} /\ kkServer' = [kkServer EXCEPT ![n] = {}]
    BY <1>3 DEF ConnDrops, resolverVars
  <2>2. /\ kkServer' \in [KkConns -> SUBSET KkChannels]
        /\ \A m \in KkConns : m # n => kkServer'[m] = kkServer[m]
    BY <2>1, <1>t
  <2>3. KkTyped'
    BY <2>1, <2>2 DEF Feed, KkTyped, KickTypeOK
  <2>4. Published' /\ KickClosedIsQuiet'
    BY <2>1 DEF Feed, Published, KickClosedIsQuiet
  <2>5. Subscribed'
    BY <2>1, <2>2, <1>t DEF Feed, Subscribed, OnItsWay
  <2> QED
    BY <2>3, <2>4, <2>5 DEF Feed
<1>4. ASSUME NEW h \in {"degraded", "down"}, Degrade(h)
      PROVE  Feed'
  <2>1. /\ kkSup.pc = "degrade" /\ SetHealth(h) /\ SupGoes("redial")
        /\ UNCHANGED <<kkJoined, kkSubs, kkConn, kkStarted, kkClose, kkJoin, kkOpened, kkAlive, kkServer,
                       kkFailures, kkOpen, kkDirect>>
    BY <1>4 DEF Degrade, netVars, resolverVars
  <2>2. kkBuf' \in 0 .. EventCap /\ kkHealth' \in {"ok", "degraded", "down"}
    BY <2>1, <1>t, EmitKeeps DEF SetHealth
  <2> QED
    BY <2>1, <2>2, <1>g, <1>s, <1>t, <1>q, <1>c DEF SupPcs
<1>5. CASE BreakerCooldown
  <2>1. /\ UNCHANGED <<kkJoined, kkSubs, kkConn, kkStarted, kkClose, kkSup, kkHealth, kkJoin, kkBuf, kkOpened, kkAlive,
                       kkServer, kkFailures>>
        /\ kkOpen' = FALSE /\ kkDirect' = 0
    BY <1>5 DEF BreakerCooldown, netVars
  <2>2. kkOpen' \in BOOLEAN /\ kkDirect' \in Nat
    BY <2>1
  <2> QED
    BY <2>1, <2>2, <1>u, <1>t, <1>r
<1>6. CASE ReadEstablished
  <2>1. /\ UNCHANGED <<kkJoined, kkSubs, kkConn, kkStarted, kkClose, kkHealth, kkJoin, kkBuf, kkOpened, kkAlive,
                       kkServer, kkFailures, kkOpen, kkDirect>>
        /\ kkSup.pc = "hello" /\ kkSup' = [kkSup EXCEPT !.pc = "read", !.ids = kkSubs]
    BY <1>6 DEF ReadEstablished, netVars, resolverVars
  <2>2. kkSup' \in Supervisors /\ kkSup'.pc = "read" /\ kkSup'.conn = kkSup.conn /\ kkSup'.ids = kkSubs
    BY <2>1, <1>t DEF Supervisors, SupPcs
  <2>3. KkTyped'
    BY <2>1, <2>2 DEF Feed, KkTyped, KickTypeOK
  <2>4. Published' /\ KickClosedIsQuiet'
    BY <2>1, <2>2 DEF Feed, Published, KickClosedIsQuiet
  <2>5. Subscribed'
    BY <2>1, <2>2 DEF Subscribed, OnItsWay
  <2> QED
    BY <2>3, <2>4, <2>5 DEF Feed
<1>7. CASE SubscribeAll
  <2>1. PICK c \in kkSup.ids : Subscribe(kkSup.conn, {c}) /\ kkSup' = [kkSup EXCEPT !.ids = @ \ {c}]
    BY <1>7 DEF SubscribeAll
  <2>2. /\ UNCHANGED <<kkJoined, kkSubs, kkConn, kkStarted, kkClose, kkHealth, kkJoin, kkBuf, kkOpened, kkAlive,
                       kkFailures, kkOpen, kkDirect>>
        /\ kkSup.pc = "read"
    BY <1>7 DEF SubscribeAll, resolverVars
  <2>3. /\ kkSup' \in Supervisors /\ kkSup'.pc = "read" /\ kkSup'.conn = kkSup.conn
        /\ kkSup'.ids = kkSup.ids \ {c}
    BY <2>1, <2>2, <1>t DEF Supervisors
  <2>4. /\ kkServer' \in [KkConns -> SUBSET KkChannels]
        /\ \A m \in KkConns : kkServer[m] \subseteq kkServer'[m]
        /\ kkSup.conn \in kkAlive => c \in kkServer'[kkSup.conn]
    <3>1. c \in KkChannels
      BY <2>1, <1>t
    <3> QED
      BY <3>1, <2>1, <1>t DEF Subscribe
  <2>5. KkTyped'
    BY <2>2, <2>3, <2>4 DEF Feed, KkTyped, KickTypeOK
  <2>6. Published' /\ KickClosedIsQuiet'
    BY <2>2, <2>3 DEF Feed, Published, KickClosedIsQuiet
  <2>7. Subscribed'
    BY <2>2, <2>3, <2>4, <1>t DEF Feed, Subscribed, OnItsWay
  <2> QED
    BY <2>5, <2>6, <2>7 DEF Feed
<1>8. CASE ReadFails
  <2>1. /\ kkSup.pc \in {"hello", "read"}
        /\ UNCHANGED <<kkJoined, kkSubs, kkStarted, kkClose, kkHealth, kkJoin, kkBuf, kkOpened, kkAlive, kkServer,
                       kkFailures, kkOpen, kkDirect>>
        /\ \/ kkClose # "no" /\ SupGoes("ended") /\ kkConn' = kkConn
           \/ kkClose = "no" /\ SupGoes("degrade") /\ kkConn' = 0
    BY <1>8 DEF ReadFails, netVars, resolverVars
  <2> QED
    BY <2>1, <1>g, <1>s, <1>t, <1>q, <1>c DEF SupPcs
<1>9. CASE RedialFails
  <2>1. /\ kkSup.pc = "redial" /\ (SupGoes("ended") \/ (SupGoes("degrade") /\ kkClose = "no"))
        /\ UNCHANGED <<kkJoined, kkSubs, kkConn, kkStarted, kkClose, kkHealth, kkJoin, kkBuf, kkOpened, kkAlive,
                       kkServer, kkFailures, kkOpen, kkDirect>>
    BY <1>9 DEF RedialFails, netVars, resolverVars
  <2> QED
    BY <2>1, <1>g, <1>s, <1>t, <1>q, <1>c DEF SupPcs
<1>10. CASE Redialed
  <2>1. /\ kkSup.pc = "redial" /\ DialOpens /\ kkClose = "no"
        /\ kkConn' = kkOpened + 1 /\ kkSup' = [pc |-> "recover", conn |-> kkOpened + 1, ids |-> {}]
        /\ UNCHANGED <<kkJoined, kkSubs, kkStarted, kkClose, kkHealth, kkJoin, kkBuf, kkServer,
                       kkFailures, kkOpen, kkDirect>>
    BY <1>10 DEF Redialed, resolverVars
  <2>2. PICK n \in 0 .. MaxKkConns : n = kkOpened + 1 /\ kkOpened' = n
    BY <2>1, <1>t DEF DialOpens
  <2>3. n <= kkOpened' /\ "recover" \in SupPcs \ {"read"}
    BY <2>2 DEF SupPcs
  <2> QED
    BY <2>1, <2>2, <2>3, <1>s, <1>t
<1>11. CASE Recovered
  <2>1. /\ kkSup.pc = "recover" /\ SetHealth("ok") /\ SupGoes("hello")
        /\ UNCHANGED <<kkJoined, kkSubs, kkConn, kkStarted, kkClose, kkJoin, kkOpened, kkAlive, kkServer,
                       kkFailures, kkOpen, kkDirect>>
    BY <1>11 DEF Recovered, netVars, resolverVars
  <2>2. kkBuf' \in 0 .. EventCap /\ kkHealth' = "ok" /\ kkConn = kkSup.conn
    BY <2>1, <1>t, EmitKeeps DEF SetHealth, Feed, Published
  <2> QED
    BY <2>1, <2>2, <1>g, <1>s, <1>t, <1>q, <1>c DEF SupPcs
<1>12. CASE EngineForwards
  <2>1. /\ UNCHANGED <<kkJoined, kkSubs, kkConn, kkStarted, kkClose, kkSup, kkHealth, kkJoin, kkOpened, kkAlive,
                       kkServer, kkFailures, kkOpen, kkDirect>>
        /\ kkBuf' \in 0 .. EventCap
    BY <1>12, <1>t DEF EngineForwards, netVars, resolverVars
  <2> QED
    BY <2>1, <1>u, <1>t, <1>r
<1>13. CASE KickClose
  <2>1. /\ kkClose' = "waits" /\ kkAlive' \subseteq kkAlive
        /\ UNCHANGED <<kkJoined, kkSubs, kkConn, kkStarted, kkSup, kkHealth, kkJoin, kkBuf, kkOpened, kkServer,
                       kkFailures, kkOpen, kkDirect>>
    BY <1>13 DEF KickClose, resolverVars
  <2> QED
    BY <2>1 DEF Feed, KkTyped, KickTypeOK, Published, Subscribed, KickClosedIsQuiet
<1>14. CASE KickCloseReturns
  <2>1. /\ kkClose' = "done" /\ kkSup.pc \in {"none", "ended"}
        /\ UNCHANGED <<kkJoined, kkSubs, kkConn, kkStarted, kkSup, kkHealth, kkJoin, kkBuf, kkOpened, kkAlive, kkServer,
                       kkFailures, kkOpen, kkDirect>>
    BY <1>14 DEF KickCloseReturns, netVars, resolverVars
  <2> QED
    BY <2>1 DEF Feed, KkTyped, KickTypeOK, Published, Subscribed, KickClosedIsQuiet
<1>15. CASE UNCHANGED kkVars
  BY <1>15, <1>u, <1>t, <1>r DEF kkVars, netVars, resolverVars
<1> QED
  BY <1>1, <1>2, <1>3, <1>4, <1>5, <1>6, <1>7, <1>8, <1>9, <1>10, <1>11, <1>12, <1>13, <1>14, <1>15

(* Fewer Joins past the breaker, and the refusals left as they are. *)
LEMMA SparedKept ==
  ASSUME KkTyped, Spared, AtDirect' \subseteq AtDirect, UNCHANGED <<kkFailures, kkOpen, kkDirect>>
  PROVE  Spared'
<1>1. IsFiniteSet(AtDirect) /\ IsFiniteSet(KkJoins) /\ Threshold \in Nat /\ kkDirect \in Nat
  <2>1. AtDirect \subseteq KkJoins /\ IsFiniteSet(KkJoins)
    BY KickConstants DEF AtDirect
  <2>2. IsFiniteSet(AtDirect)
    BY <2>1, FS_Subset
  <2> QED
    BY <2>1, <2>2, KickConstants DEF KkTyped
<1>2. /\ Cardinality(AtDirect') \in Nat /\ Cardinality(AtDirect) \in Nat
      /\ Cardinality(KkJoins) \in Nat /\ Cardinality(AtDirect') <= Cardinality(AtDirect)
  <2>1. IsFiniteSet(AtDirect') /\ Cardinality(AtDirect') <= Cardinality(AtDirect)
    BY <1>1, FS_Subset
  <2> QED
    BY <1>1, <2>1, FS_CardinalityType
<1>3. kkOpen' => kkDirect' + Cardinality(AtDirect') <= Threshold + Cardinality(KkJoins) - 1
  BY <1>1, <1>2 DEF Spared
<1>4. ~kkOpen' => kkDirect' = 0 \/ (kkDirect' <= kkFailures' /\ kkFailures' < Threshold)
  BY DEF Spared
<1> QED
  BY <1>3, <1>4 DEF Spared

(* A Join that leaves the direct lookup, or is nowhere near it. *)
LEMMA DirectLeft ==
  ASSUME KkTyped, NEW j \in KkJoins, NEW r \in BusyJoin \cup {JoinIdle}, r.pc # "direct",
         kkJoin' = [kkJoin EXCEPT ![j] = r]
  PROVE  AtDirect' = AtDirect \ {j}
<1>1. /\ kkJoin'[j] = r /\ \A i \in KkJoins : i # j => kkJoin'[i] = kkJoin[i]
  BY JoinSet
<1> QED
  BY <1>1 DEF AtDirect

(* The steps of a Join, in what they do to the breaker. *)
LEMMA SparedJoins ==
  ASSUME KkTyped, Spared, NEW j \in KkJoins,
         \/ \E c \in KkChannels : BeginJoin(j, c)
         \/ \E blocked \in BOOLEAN : DirectFails(j, blocked)
         \/ Resolve(j) \/ FetchFound(j) \/ FetchUnknown(j) \/ FallbackFails(j)
         \/ JoinChecks(j) \/ JoinDials(j) \/ JoinInstalls(j) \/ JoinAdds(j) \/ JoinWrites(j)
  PROVE  Spared'
<1>t. /\ kkFailures \in 0 .. Threshold /\ kkOpen \in BOOLEAN /\ kkDirect \in Nat /\ Threshold \in Nat \ {0}
      /\ kkOpened \in 0 .. MaxKkConns /\ MaxKkConns \in Nat /\ kkConn \in 0 .. MaxKkConns
      /\ JoinIdle \in BusyJoin \cup {JoinIdle} /\ JoinIdle.pc = "idle"
      /\ {"resolve", "direct", "fallback", "check", "dial", "install", "add", "write"} = JoinPcs
  BY KickConstants DEF KkTyped, KickTypeOK, JoinIdle, JoinPcs
<1>f. /\ IsFiniteSet(AtDirect) /\ Cardinality(AtDirect) \in Nat /\ Cardinality(KkJoins) \in Nat
      /\ Cardinality(AtDirect \ {j}) \in Nat /\ Cardinality(AtDirect \ {j}) <= Cardinality(KkJoins) - 1
      /\ j \in AtDirect => Cardinality(AtDirect \ {j}) = Cardinality(AtDirect) - 1
  <2>1. AtDirect \subseteq KkJoins /\ IsFiniteSet(KkJoins) /\ AtDirect \ {j} \subseteq KkJoins \ {j}
    BY KickConstants DEF AtDirect
  <2>2. IsFiniteSet(AtDirect) /\ IsFiniteSet(KkJoins \ {j}) /\ Cardinality(KkJoins \ {j}) = Cardinality(KkJoins) - 1
    BY <2>1, FS_Subset, FS_RemoveElement
  <2>3. IsFiniteSet(AtDirect \ {j}) /\ Cardinality(AtDirect \ {j}) <= Cardinality(KkJoins \ {j})
    BY <2>1, <2>2, FS_Subset
  <2>4. j \in AtDirect => Cardinality(AtDirect \ {j}) = Cardinality(AtDirect) - 1
    BY <2>2, FS_RemoveElement
  <2> QED
    BY <2>1, <2>2, <2>3, <2>4, FS_CardinalityType
<1>i. ASSUME JoinAt(j, JoinIdle), UNCHANGED <<kkFailures, kkOpen, kkDirect>>
      PROVE  Spared'
  BY <1>i, <1>t, DirectLeft, SparedKept DEF JoinAt
<1>g. ASSUME kkJoin[j].pc # "idle", NEW pc \in JoinPcs \ {"direct"}, JoinGoes(j, pc)
      PROVE  AtDirect' = AtDirect \ {j}
  <2>1. PICK r : r = [kkJoin[j] EXCEPT !.pc = pc]
    OBVIOUS
  <2>2. r \in BusyJoin /\ r.pc = pc
    BY <2>1, <1>g, JoinBusy
  <2>3. kkJoin' = [kkJoin EXCEPT ![j] = r]
    BY <2>1, <1>g DEF JoinGoes
  <2> QED
    BY <2>2, <2>3, DirectLeft
<1>1. ASSUME NEW c \in KkChannels, BeginJoin(j, c)
      PROVE  Spared'
  <2>1. PICK r : r = [pc |-> "resolve", ch |-> c, conn |-> 0, blocked |-> FALSE]
    OBVIOUS
  <2>2. r \in BusyJoin /\ r.pc = "resolve"
    BY <2>1, <1>t DEF BusyJoin
  <2>3. kkJoin' = [kkJoin EXCEPT ![j] = r] /\ UNCHANGED <<kkFailures, kkOpen, kkDirect>>
    BY <1>1, <2>1 DEF BeginJoin, JoinAt, resolverVars
  <2> QED
    BY <2>2, <2>3, DirectLeft, SparedKept
<1>2. ASSUME NEW blocked \in BOOLEAN, DirectFails(j, blocked)
      PROVE  Spared'
  <2>1. PICK r : r = [kkJoin[j] EXCEPT !.pc = "fallback", !.blocked = blocked]
    OBVIOUS
  <2>2. kkJoin[j].pc = "direct" /\ j \in AtDirect
    BY <1>2 DEF DirectFails, AtDirect
  <2>3. kkJoin[j] \in BusyJoin
    BY <2>2, JoinBusy
  <2>4. r \in BusyJoin /\ r.pc = "fallback"
    BY <2>1, <2>3, <1>t DEF BusyJoin
  <2>5. kkJoin' = [kkJoin EXCEPT ![j] = r] /\ OnFailure(blocked) /\ kkDirect' = kkDirect + 1
    BY <1>2, <2>1 DEF DirectFails, JoinAt
  <2>6. AtDirect' = AtDirect \ {j}
    BY <2>4, <2>5, DirectLeft
  <2>7. PICK f \in 0 .. Threshold : f = kkFailures' /\ (f = Threshold \/ f = kkFailures + 1)
    BY <2>5, <1>t DEF OnFailure
  <2>8. kkOpen' = (kkOpen \/ f >= Threshold)
    BY <2>5, <2>7 DEF OnFailure
  <2>9. CASE kkOpen
    <3>1. kkDirect + Cardinality(AtDirect) <= Threshold + Cardinality(KkJoins) - 1 /\ kkOpen'
      BY <2>8, <2>9 DEF Spared
    <3>2. kkDirect' + Cardinality(AtDirect') <= Threshold + Cardinality(KkJoins) - 1
      BY <3>1, <2>2, <2>5, <2>6, <1>t, <1>f
    <3> QED
      BY <3>1, <3>2 DEF Spared
  <2>10. CASE ~kkOpen
    <3>1. kkDirect = 0 \/ (kkDirect <= kkFailures /\ kkFailures < Threshold)
      BY <2>10 DEF Spared
    <3>2. CASE f = Threshold
      <4>1. kkOpen' /\ kkDirect' <= Threshold
        <5>1. kkDirect' <= Threshold
          BY <3>1, <2>5, <1>t
        <5>2. f >= Threshold
          BY <3>2, <1>t
        <5> QED
          BY <5>1, <5>2, <2>8
      <4>2. kkDirect' + Cardinality(AtDirect') <= Threshold + Cardinality(KkJoins) - 1
        BY <4>1, <2>5, <2>6, <1>t, <1>f
      <4> QED
        BY <4>1, <4>2 DEF Spared
    <3>3. CASE f # Threshold
      <4>1. f < Threshold /\ f = kkFailures + 1 /\ ~(f >= Threshold)
        BY <3>3, <2>7, <1>t
      <4>2. kkDirect' <= kkFailures' /\ kkFailures' < Threshold
        BY <3>1, <4>1, <2>5, <2>7, <1>t
      <4>3. ~kkOpen'
        BY <4>1, <2>8, <2>10
      <4> QED
        BY <4>2, <4>3 DEF Spared
    <3> QED
      BY <3>2, <3>3
  <2> QED
    BY <2>9, <2>10
<1>3. CASE Resolve(j)
  <2>1. kkJoin[j].pc = "resolve" /\ UNCHANGED <<kkFailures, kkOpen, kkDirect>>
    BY <1>3 DEF Resolve, resolverVars
  <2>2. \/ JoinGoes(j, "check") \/ (~kkOpen /\ JoinGoes(j, "direct"))
        \/ JoinAt(j, [kkJoin[j] EXCEPT !.pc = "fallback", !.blocked = TRUE])
    BY <1>3 DEF Resolve
  <2>3. CASE JoinAt(j, [kkJoin[j] EXCEPT !.pc = "fallback", !.blocked = TRUE])
    <3>1. PICK r : r = [kkJoin[j] EXCEPT !.pc = "fallback", !.blocked = TRUE]
      OBVIOUS
    <3>2. kkJoin[j] \in BusyJoin
      BY <2>1, JoinBusy
    <3>3. r \in BusyJoin /\ r.pc = "fallback"
      BY <3>1, <3>2, <1>t DEF BusyJoin
    <3>4. kkJoin' = [kkJoin EXCEPT ![j] = r]
      BY <2>3, <3>1 DEF JoinAt
    <3> QED
      BY <2>1, <3>3, <3>4, DirectLeft, SparedKept
  <2>4. CASE JoinGoes(j, "check")
    BY <2>1, <2>4, <1>g, <1>t, SparedKept
  <2>5. CASE ~kkOpen
    BY <2>1, <2>5 DEF Spared
  <2> QED
    BY <2>2, <2>3, <2>4, <2>5
<1>4. CASE FetchFound(j)
  BY <1>4 DEF FetchFound, OnSuccess, Spared
<1>5. CASE FetchUnknown(j)
  BY <1>5, <1>i DEF FetchUnknown, JoinErr, resolverVars
<1>6. CASE FallbackFails(j)
  BY <1>6, <1>i DEF FallbackFails, JoinErr, resolverVars
<1>7. CASE JoinChecks(j)
  <2>1. kkJoin[j].pc = "check" /\ UNCHANGED <<kkFailures, kkOpen, kkDirect>>
    BY <1>7 DEF JoinChecks, resolverVars
  <2>2. JoinAt(j, JoinIdle) \/ JoinGoes(j, "add") \/ JoinGoes(j, "dial")
    BY <1>7 DEF JoinChecks, JoinErr
  <2> QED
    BY <2>1, <2>2, <1>g, <1>i, <1>t, SparedKept
<1>8. CASE JoinDials(j)
  <2>1. kkJoin[j].pc = "dial" /\ UNCHANGED <<kkFailures, kkOpen, kkDirect>>
    BY <1>8 DEF JoinDials, resolverVars
  <2>2. CASE DialOpens /\ JoinAt(j, [kkJoin[j] EXCEPT !.pc = "install", !.conn = kkOpened + 1])
    <3>1. PICK n \in 0 .. MaxKkConns : n = kkOpened + 1
      BY <2>2, <1>t DEF DialOpens
    <3>2. PICK r : r = [kkJoin[j] EXCEPT !.pc = "install", !.conn = n]
      OBVIOUS
    <3>3. kkJoin[j] \in BusyJoin
      BY <2>1, JoinBusy
    <3>4. r \in BusyJoin /\ r.pc = "install"
      BY <3>2, <3>3, <1>t DEF BusyJoin
    <3>5. kkJoin' = [kkJoin EXCEPT ![j] = r]
      BY <2>2, <3>1, <3>2 DEF JoinAt
    <3> QED
      BY <2>1, <3>4, <3>5, DirectLeft, SparedKept
  <2> QED
    BY <2>1, <2>2, <1>8, <1>i DEF JoinDials, JoinErr
<1>9. CASE JoinInstalls(j)
  <2>1. kkJoin[j].pc = "install" /\ UNCHANGED <<kkFailures, kkOpen, kkDirect>>
    BY <1>9 DEF JoinInstalls, resolverVars
  <2>2. JoinAt(j, JoinIdle) \/ JoinGoes(j, "add")
    BY <1>9 DEF JoinInstalls, JoinErr
  <2> QED
    BY <2>1, <2>2, <1>g, <1>i, <1>t, SparedKept
<1>10. CASE JoinAdds(j)
  <2>1. kkJoin[j].pc = "add" /\ UNCHANGED <<kkFailures, kkOpen, kkDirect>>
    BY <1>10 DEF JoinAdds, resolverVars
  <2>2. CASE JoinAt(j, [kkJoin[j] EXCEPT !.pc = "write", !.conn = kkConn])
    <3>1. PICK r : r = [kkJoin[j] EXCEPT !.pc = "write", !.conn = kkConn]
      OBVIOUS
    <3>2. kkJoin[j] \in BusyJoin
      BY <2>1, JoinBusy
    <3>3. r \in BusyJoin /\ r.pc = "write"
      BY <3>1, <3>2, <1>t DEF BusyJoin
    <3>4. kkJoin' = [kkJoin EXCEPT ![j] = r]
      BY <2>2, <3>1 DEF JoinAt
    <3> QED
      BY <2>1, <3>3, <3>4, DirectLeft, SparedKept
  <2> QED
    BY <2>1, <2>2, <1>10, <1>i DEF JoinAdds, JoinErr
<1>11. CASE JoinWrites(j)
  BY <1>11, <1>i DEF JoinWrites, resolverVars
<1> QED
  BY <1>1, <1>2, <1>3, <1>4, <1>5, <1>6, <1>7, <1>8, <1>9, <1>10, <1>11

(* Nothing else moves a Join or counts a refusal; a cooldown forgets them. *)
LEMMA SparedElsewhere ==
  ASSUME KkTyped, Spared,
         \/ \E c \in KkChannels : KickLeave(c) \/ HandleChatMessage(c)
         \/ \E n \in KkConns : ConnDrops(n)
         \/ \E h \in {"degraded", "down"} : Degrade(h)
         \/ BreakerCooldown \/ ReadEstablished \/ SubscribeAll \/ ReadFails \/ RedialFails \/ Redialed
         \/ Recovered \/ EngineForwards \/ KickClose \/ KickCloseReturns \/ UNCHANGED kkVars
  PROVE  Spared'
<1>1. CASE BreakerCooldown
  BY <1>1 DEF BreakerCooldown, Spared
<1>2. CASE ~BreakerCooldown
  <2>1. UNCHANGED <<kkJoin, kkFailures, kkOpen, kkDirect>>
    BY <1>2 DEF KickLeave, HandleChatMessage, ConnDrops, Degrade, ReadEstablished, SubscribeAll, ReadFails,
                RedialFails, Redialed, Recovered, EngineForwards, KickClose, KickCloseReturns, kkVars, resolverVars
  <2>2. AtDirect' = AtDirect
    BY <2>1 DEF AtDirect
  <2> QED
    BY <2>1, <2>2, SparedKept
<1> QED
  BY <1>1, <1>2

(* The inductive invariant of the Kick reader, at the start and at each step. *)
KkInv == Feed /\ Spared

LEMMA KkInvStarts ==
  ASSUME KickInit
  PROVE  KkInv
<1>1. /\ kkJoined = {} /\ kkSubs = {} /\ kkConn = 0 /\ kkStarted = FALSE /\ kkClose = "no"
      /\ kkSup = [pc |-> "none", conn |-> 0, ids |-> {}] /\ kkHealth = "ok"
      /\ kkJoin = [j \in KkJoins |-> JoinIdle] /\ kkBuf = 0
      /\ kkOpened = 0 /\ kkAlive = {} /\ kkServer = [n \in KkConns |-> {}]
      /\ kkFailures = 0 /\ kkOpen = FALSE /\ kkDirect = 0
      /\ {EventCap, Threshold, MaxKkConns} \subseteq Nat \ {0}
  BY KickConstants DEF KickInit
<1>2. kkSup \in Supervisors
  BY <1>1 DEF Supervisors, SupPcs
<1>3. KkTyped
  <2>1. kkJoin \in [KkJoins -> BusyJoin \cup {JoinIdle}]
    BY <1>1
  <2>2. kkServer \in [KkConns -> SUBSET KkChannels]
    BY <1>1
  <2>3. KickTypeOK /\ kkOpened \in 0 .. MaxKkConns /\ kkAlive \subseteq 1 .. kkOpened /\ kkDirect \in Nat
    BY <1>1 DEF KickTypeOK
  <2>4. kkStarted \in BOOLEAN /\ kkOpen \in BOOLEAN /\ kkClose \in {"no", "waits", "done"}
    BY <1>1
  <2> QED
    BY <1>2, <2>1, <2>2, <2>3, <2>4 DEF KkTyped
<1>4. Published /\ Subscribed /\ KickClosedIsQuiet
  <2>1. \A j \in KkJoins : kkJoin[j].pc = "idle"
    BY <1>1 DEF JoinIdle
  <2>2. kkSup.pc = "none" /\ kkSup.conn = 0 /\ kkStarted = FALSE /\ kkSup.conn <= kkOpened
    BY <1>1
  <2> QED
    BY <1>1, <2>1, <2>2 DEF Published, Subscribed, KickClosedIsQuiet
<1> QED
  BY <1>1, <1>3, <1>4 DEF KkInv, Feed, Spared

LEMMA KkInvStep ==
  ASSUME KkInv, [KickNext]_kkVars
  PROVE  KkInv'
<1>1. Feed /\ Spared /\ KkTyped
  BY DEF KkInv, Feed
<1>2. Feed'
  BY <1>1, JoinLooks, JoinEnters, FeedSteps DEF KickNext
<1>3. Spared'
  BY <1>1, SparedJoins, SparedElsewhere DEF KickNext
<1> QED
  BY <1>2, <1>3 DEF KkInv

LEMMA KkInvSound ==
  ASSUME KkInv
  PROVE  KickSound
<1>1. KkTyped /\ KickTypeOK /\ KickClosedIsQuiet
  BY DEF KkInv, Feed, KkTyped
<1>2. KickMembershipRestored
  <2>1. ASSUME kkClose = "no", kkSup.pc = "read", kkSup.ids = {}, kkSup.conn \in kkAlive,
               \A j \in KkJoins : kkJoin[j].pc # "write"
        PROVE  kkConn = kkSup.conn /\ kkSubs \subseteq kkServer[kkConn]
    <3>1. kkConn = kkSup.conn /\ \A c \in kkSubs : OnItsWay(c)
      BY <2>1 DEF KkInv, Feed, Published, Subscribed
    <3> QED
      BY <2>1, <3>1 DEF OnItsWay
  <2> QED
    BY <2>1 DEF KickMembershipRestored
<1>3. BreakerSpares
  <2>1. /\ kkDirect \in Nat /\ kkFailures \in 0 .. Threshold /\ Threshold \in Nat \ {0} /\ kkOpen \in BOOLEAN
        /\ IsFiniteSet(KkJoins) /\ AtDirect \subseteq KkJoins
    BY <1>1, KickConstants DEF KkTyped, KickTypeOK, AtDirect
  <2>2. Cardinality(KkJoins) \in Nat /\ Cardinality(AtDirect) \in Nat
    BY <2>1, FS_Subset, FS_CardinalityType
  <2>3. CASE kkOpen
    <3>1. kkDirect + Cardinality(AtDirect) <= Threshold + Cardinality(KkJoins) - 1
      BY <2>3 DEF KkInv, Spared
    <3> QED
      BY <3>1, <2>1, <2>2 DEF BreakerSpares
  <2>4. CASE ~kkOpen
    <3>1. kkDirect = 0 \/ (kkDirect <= kkFailures /\ kkFailures < Threshold)
      BY <2>4 DEF KkInv, Spared
    <3> QED
      BY <3>1, <2>1, <2>2 DEF BreakerSpares
  <2> QED
    BY <2>3, <2>4
<1> QED
  BY <1>1, <1>2, <1>3 DEF KickSound

(* Wherever Joins, drops, redials and Close fall, a live Kick connection whose handshake
   is answered is subscribed to every chatroom of the map, a closed adapter reads
   nothing, and an endpoint that refuses is asked at most Threshold times and once more
   for each other Join that was past the breaker (kick.Adapter, kick.Resolver). *)
THEOREM FeedSurvivesChurn == KickSpec => []KickSound
<1>1. KickSpec => []KkInv
  BY KkInvStarts, KkInvStep, PTL DEF KickSpec
<1> QED
  BY <1>1, KkInvSound, PTL

-----------------------------------------------------------------------------
(* What is fetched beside chat.                                              *)

Versions == {OvAbsent} \cup 0 .. MaxOvVersion
Tasks == [kind : {"none", "join", "leave", "auth", "dispatch"},
          pc : {"idle", "resolve", "get", "fetch", "put", "store", "section", "write"},
          ch : OvChannels \cup {OvAbsent}, id : BOOLEAN, list : Versions, conn : Nat, rest : SUBSET OvChannels]
Rows == [list : Versions, at : Nat]
EmTypes ==
  /\ ovNow \in Nat /\ ovRemote \in [OvChannels -> 0 .. MaxOvVersion]
  /\ ovCache \in [OvChannels \cup {OvAbsent} -> {OvAbsent} \cup Rows]
  /\ ovSets \in [OvChannels -> Versions]
  /\ ovJoined \in SUBSET OvChannels /\ ovChans \in SUBSET OvChannels
  /\ ovSubs \in SUBSET OvChannels /\ ovTodo \in SUBSET OvChannels
EmTasks ==
  /\ ovTask \in [OvTasks -> Tasks]
  /\ \A t \in OvTasks : ovTask[t].pc # "idle" => ovTask[t].ch \in OvChannels
(* The connection is published while run works with it, and only then.        *)
EmRun ==
  /\ ovDials \in 0 .. MaxOvDials
  /\ \/ ovRun \in {"resubscribe", "read"} /\ ovConn = ovDials /\ ovDials # 0
     \/ ovRun \in {"dial", "backoff", "stopped"} /\ ovConn = 0 /\ ~ovOpen
(* A message about a channel says what the map says of it.                    *)
Truthful ==
  \A t \in OvTasks : ovTask[t].pc = "write" /\ ovTask[t].ch \notin ovRaced =>
    (ovTask[t].kind = "leave" <=> ovTask[t].ch \notin ovChans)
(* The message of Subscribe for channel c on this connection is not written.  *)
ToldBy(t, c) == ovTask[t].pc = "write" /\ ovTask[t].ch = c /\ ovTask[t].kind # "leave" /\ ovTask[t].conn = ovDials
Reached(c) == c \in ovSubs \/ (ovRun = "resubscribe" /\ c \in ovTodo) \/ \E t \in OvTasks : ToldBy(t, c)
Followed ==
  ovRun \in {"resubscribe", "read"} /\ ovOpen /\ ~ovCancelled => \A c \in ovChans \ ovRaced : Reached(c)
EmotesInv == EmTypes /\ EmTasks /\ EmRun /\ Truthful /\ Followed

(* A fetch that holds the mark of a channel.                                 *)
Fetches == [pc : {"idle", "fetch", "store", "release"}, kind : Kinds, ch : OvChannels \cup {OvAbsent},
            lazy : BOOLEAN, got : {OvAbsent, 1}]
Slots == [val : {OvAbsent, 1}, inflight : BOOLEAN]
Holds(t, kind, c) == ovFetch[t].pc # "idle" /\ ovFetch[t].lazy /\ ovFetch[t].kind = kind /\ ovFetch[t].ch = c
LzTypes ==
  /\ ovFetch \in [OvTasks -> Fetches] /\ ovSlot \in [Kinds -> [OvChannels -> Slots]]
  /\ \A t \in OvTasks : ovFetch[t].pc # "idle" => ovFetch[t].ch \in OvChannels
Marked(kind, c) ==
  /\ ovSlot[kind][c].inflight <=> \E t \in OvTasks : Holds(t, kind, c)
  /\ \A t, u \in OvTasks : Holds(t, kind, c) /\ Holds(u, kind, c) => t = u
LazyInv == LzTypes /\ \A kind \in Kinds, c \in OvChannels : Marked(kind, c)

LEMMA IdleTask == Idle \in Tasks /\ Idle.pc = "idle"
<1>1. 0 \in Nat /\ FALSE \in BOOLEAN /\ {} \in SUBSET OvChannels
  OBVIOUS
<1>2. OvAbsent \in Versions /\ OvAbsent \in OvChannels \cup {OvAbsent}
  BY DEF Versions
<1> QED
  BY <1>1, <1>2, Zenon DEF Idle, Tasks

(* A goroutine that is not about to write, with a channel if it runs.        *)
Unwriting(e) == e \in Tasks /\ e.pc # "write" /\ (e.pc # "idle" => e.ch \in OvChannels)
LEMMA StartedTask ==
  ASSUME NEW kind \in {"none", "join", "leave", "auth", "dispatch"}, NEW pc \in {"resolve", "get", "section"},
         NEW c \in OvChannels, NEW rest \in SUBSET OvChannels, NEW id \in BOOLEAN,
         NEW e, e = [kind |-> kind, pc |-> pc, ch |-> c, id |-> id, list |-> OvAbsent, conn |-> 0, rest |-> rest]
  PROVE  Unwriting(e)
<1>1. 0 \in Nat /\ OvAbsent \in Versions /\ c \in OvChannels \cup {OvAbsent}
  BY DEF Versions
<1>2. pc # "write" /\ pc \in {"idle", "resolve", "get", "fetch", "put", "store", "section", "write"}
  OBVIOUS
<1>3. e \in Tasks
  BY <1>1, <1>2, Zenon DEF Tasks
<1>4. e.pc = pc /\ e.ch = c
  BY Zenon
<1> QED
  BY <1>2, <1>3, <1>4, Zenon DEF Unwriting

LEMMA IdleUnwriting == Unwriting(Idle)
<1>1. "idle" # "write"
  OBVIOUS
<1> QED
  BY <1>1, IdleTask, Zenon DEF Unwriting

LEMMA EndedTask ==
  ASSUME NEW k, k.rest \in SUBSET OvChannels, NEW e \in Ended(k)
  PROVE  Unwriting(e)
<1>1. CASE k.rest = {}
  BY <1>1, IdleUnwriting DEF Ended
<1>2. CASE k.rest # {}
  <2>1. PICK c \in k.rest : e = [Idle EXCEPT !.kind = "auth", !.pc = "resolve", !.ch = c, !.rest = k.rest \ {c}]
    BY <1>2 DEF Ended
  <2>2. PICK rest \in SUBSET OvChannels : rest = k.rest \ {c}
    OBVIOUS
  <2>3. e = [kind |-> "auth", pc |-> "resolve", ch |-> c, id |-> FALSE, list |-> OvAbsent, conn |-> 0, rest |-> rest]
    BY <2>1, <2>2, Zenon DEF Idle
  <2>4. c \in OvChannels /\ FALSE \in BOOLEAN
    BY <2>1
  <2> QED
    BY <2>2, <2>3, <2>4, StartedTask
<1> QED
  BY <1>1, <1>2

(* A step that leaves the messages about to be written and the connection be. *)
Wire == <<ovChans, ovConn, ovRun, ovTodo, ovDials, ovOpen, ovSubs, ovCancelled, ovRaced>>
LEMMA WireKept ==
  ASSUME EmotesInv, EmTypes', EmTasks', UNCHANGED Wire,
         \A u \in OvTasks : ovTask[u].pc = "write" \/ ovTask'[u].pc = "write" => ovTask'[u] = ovTask[u]
  PROVE  EmotesInv'
<1>1. EmRun'
  BY Zenon DEF EmotesInv, EmRun, Wire
<1>2. Truthful'
  BY Zenon DEF EmotesInv, Truthful, Wire
<1>3. \A c : Reached(c) => Reached(c)'
  BY Zenon DEF Reached, ToldBy, Wire
<1>4. Followed'
  BY <1>3, Zenon DEF EmotesInv, Followed, Wire
<1> QED
  BY <1>1, <1>2, <1>4, Zenon DEF EmotesInv

LEMMA OneTask ==
  ASSUME EmotesInv, EmTypes', UNCHANGED Wire, NEW t \in OvTasks, NEW e, Unwriting(e), ovTask[t].pc # "write",
         ovTask' = [ovTask EXCEPT ![t] = e]
  PROVE  EmotesInv'
<1>1. ovTask \in [OvTasks -> Tasks] /\ \A u \in OvTasks : ovTask[u].pc # "idle" => ovTask[u].ch \in OvChannels
  BY Zenon DEF EmotesInv, EmTasks
<1>2. e \in Tasks /\ e.pc # "write" /\ (e.pc # "idle" => e.ch \in OvChannels)
  BY Zenon DEF Unwriting
<1>3. ovTask' \in [OvTasks -> Tasks] /\ ovTask'[t] = e /\ \A u \in OvTasks : u # t => ovTask'[u] = ovTask[u]
  BY <1>1, <1>2
<1>4. EmTasks'
  BY <1>1, <1>2, <1>3, Zenon DEF EmTasks
<1>5. \A u \in OvTasks : ovTask[u].pc = "write" \/ ovTask'[u].pc = "write" => ovTask'[u] = ovTask[u]
  BY <1>2, <1>3, Zenon
<1> QED
  BY <1>4, <1>5, WireKept

(* A step of the goroutine t, from the task it has.                          *)
LEMMA TaskFields ==
  ASSUME EmotesInv, NEW t \in OvTasks
  PROVE  /\ ovTask[t] \in Tasks /\ ovTask[t].ch \in OvChannels \cup {OvAbsent} /\ ovTask[t].rest \in SUBSET OvChannels
         /\ ovTask[t].list \in Versions /\ ovTask[t].id \in BOOLEAN
         /\ ovTask[t].pc # "idle" => ovTask[t].ch \in OvChannels
<1>1. ovTask[t] \in Tasks /\ (ovTask[t].pc # "idle" => ovTask[t].ch \in OvChannels)
  BY Zenon DEF EmotesInv, EmTasks
<1> QED
  BY <1>1, Zenon DEF Tasks

LEMMA EmotesStart ==
  ASSUME EmotesInv, NEW t \in OvTasks, NEW c \in OvChannels, JoinWarms(t, c) \/ LeaveUnsubscribes(t, c) \/ SignInWarms(t)
  PROVE  EmotesInv'
<1>1. ovTask[t].pc = "idle" /\ ovTask[t].pc # "write"
  BY DEF JoinWarms, LeaveUnsubscribes, SignInWarms, Free
<1>2. UNCHANGED Wire
  BY Zenon DEF JoinWarms, LeaveUnsubscribes, SignInWarms, Wire
<1>3. EmTypes'
  BY DEF EmotesInv, EmTypes, JoinWarms, LeaveUnsubscribes, SignInWarms
<1>4. FALSE \in BOOLEAN /\ {} \in SUBSET OvChannels
  OBVIOUS
<1>5. CASE JoinWarms(t, c)
  <2>1. PICK e : e = [Idle EXCEPT !.kind = "join", !.pc = "resolve", !.ch = c]
    OBVIOUS
  <2>2. e = [kind |-> "join", pc |-> "resolve", ch |-> c, id |-> FALSE, list |-> OvAbsent, conn |-> 0, rest |-> {}]
    BY <2>1, Zenon DEF Idle
  <2>3. Unwriting(e)
    BY <1>4, <2>2, StartedTask
  <2>4. ovTask' = [ovTask EXCEPT ![t] = e]
    BY <1>5, <2>1, Zenon DEF JoinWarms
  <2> QED
    BY <1>1, <1>2, <1>3, <2>3, <2>4, OneTask
<1>6. CASE LeaveUnsubscribes(t, c)
  <2>1. PICK e : e = [Idle EXCEPT !.kind = "leave", !.pc = "section", !.ch = c]
    OBVIOUS
  <2>2. e = [kind |-> "leave", pc |-> "section", ch |-> c, id |-> FALSE, list |-> OvAbsent, conn |-> 0, rest |-> {}]
    BY <2>1, Zenon DEF Idle
  <2>3. Unwriting(e)
    BY <1>4, <2>2, StartedTask
  <2>4. ovTask' = [ovTask EXCEPT ![t] = e]
    BY <1>6, <2>1, Zenon DEF LeaveUnsubscribes
  <2> QED
    BY <1>1, <1>2, <1>3, <2>3, <2>4, OneTask
<1>7. CASE SignInWarms(t)
  <2>1. PICK joined : joined = [rest |-> ovJoined]
    OBVIOUS
  <2>2. joined.rest \in SUBSET OvChannels
    BY <2>1 DEF EmotesInv, EmTypes
  <2>3. PICK e \in Ended(joined) : ovTask' = [ovTask EXCEPT ![t] = e]
    BY <1>7, <2>1, Zenon DEF SignInWarms
  <2>4. Unwriting(e)
    BY <2>2, EndedTask
  <2> QED
    BY <1>1, <1>2, <1>3, <2>3, <2>4, OneTask
<1> QED
  BY <1>5, <1>6, <1>7

(* The task of a goroutine that runs, moved to a point that is not a write.  *)
LEMMA MovedTask ==
  ASSUME EmotesInv, NEW t \in OvTasks, ovTask[t].pc # "idle", NEW pc \in {"get", "fetch", "put", "store", "section"},
         NEW id \in BOOLEAN, NEW list \in Versions
  PROVE  Unwriting([ovTask[t] EXCEPT !.pc = pc, !.id = id, !.list = list])
<1>1. PICK k \in Tasks : k = ovTask[t] /\ k.ch \in OvChannels
  BY TaskFields
<1>2. pc # "write" /\ pc \in {"idle", "resolve", "get", "fetch", "put", "store", "section", "write"}
  OBVIOUS
<1>3. PICK e : e = [k EXCEPT !.pc = pc, !.id = id, !.list = list]
  OBVIOUS
<1>4. e \in Tasks /\ e.pc = pc /\ e.ch = k.ch
  BY <1>1, <1>2, <1>3 DEF Tasks
<1> QED
  BY <1>1, <1>2, <1>3, <1>4, Zenon DEF Unwriting

LEMMA TaskAsIs ==
  ASSUME EmotesInv, NEW t \in OvTasks, NEW pc
  PROVE  /\ [ovTask[t] EXCEPT !.pc = pc] = [ovTask[t] EXCEPT !.pc = pc, !.id = ovTask[t].id, !.list = ovTask[t].list]
         /\ \A id : [ovTask[t] EXCEPT !.pc = pc, !.list = id] = [ovTask[t] EXCEPT !.pc = pc, !.id = ovTask[t].id, !.list = id]
         /\ \A id : [ovTask[t] EXCEPT !.id = id, !.pc = pc] = [ovTask[t] EXCEPT !.pc = pc, !.id = id, !.list = ovTask[t].list]
<1>1. PICK k \in Tasks : k = ovTask[t]
  BY TaskFields
<1>2. [k EXCEPT !.pc = pc] = [k EXCEPT !.pc = pc, !.id = k.id, !.list = k.list]
  BY <1>1 DEF Tasks
<1>3. \A id : [k EXCEPT !.pc = pc, !.list = id] = [k EXCEPT !.pc = pc, !.id = k.id, !.list = id]
  BY <1>1 DEF Tasks
<1>4. \A id : [k EXCEPT !.id = id, !.pc = pc] = [k EXCEPT !.pc = pc, !.id = id, !.list = k.list]
  BY <1>1 DEF Tasks
<1> QED
  BY <1>1, <1>2, <1>3, <1>4, Zenon

LEMMA EmotesResolve ==
  ASSUME EmotesInv, NEW t \in OvTasks, ResolveId(t)
  PROVE  EmotesInv'
<1>1. ovTask[t].pc = "resolve" /\ ovTask[t].pc # "write" /\ ovTask[t].pc # "idle"
  BY DEF ResolveId
<1>2. UNCHANGED Wire
  BY Zenon DEF ResolveId, Wire
<1>3. EmTypes'
  BY DEF EmotesInv, EmTypes, ResolveId
<1>4. ovTask[t].list \in Versions /\ ovTask[t].id \in BOOLEAN /\ TRUE \in BOOLEAN /\ ovTask[t].rest \in SUBSET OvChannels
  BY TaskFields
<1>5. PICK e : ovTask' = [ovTask EXCEPT ![t] = e]
               /\ (e = [ovTask[t] EXCEPT !.id = TRUE, !.pc = "get"] \/ e = [ovTask[t] EXCEPT !.pc = "get"] \/ e \in Ended(ovTask[t]))
  BY Zenon DEF ResolveId
<1>6. CASE e = [ovTask[t] EXCEPT !.id = TRUE, !.pc = "get"]
  <2>1. Unwriting([ovTask[t] EXCEPT !.pc = "get", !.id = TRUE, !.list = ovTask[t].list])
    BY <1>1, <1>4, MovedTask
  <2>2. Unwriting(e)
    BY <1>6, <2>1, TaskAsIs, Zenon
  <2> QED
    BY <1>1, <1>2, <1>3, <1>5, <2>2, OneTask
<1>7. CASE e = [ovTask[t] EXCEPT !.pc = "get"]
  <2>1. Unwriting([ovTask[t] EXCEPT !.pc = "get", !.id = ovTask[t].id, !.list = ovTask[t].list])
    BY <1>1, <1>4, MovedTask
  <2>2. Unwriting(e)
    BY <1>7, <2>1, TaskAsIs, Zenon
  <2> QED
    BY <1>1, <1>2, <1>3, <1>5, <2>2, OneTask
<1>8. CASE e \in Ended(ovTask[t])
  <2>1. PICK k : k = ovTask[t]
    OBVIOUS
  <2>2. Unwriting(e)
    BY <1>4, <1>8, <2>1, EndedTask
  <2> QED
    BY <1>1, <1>2, <1>3, <1>5, <2>2, OneTask
<1> QED
  BY <1>5, <1>6, <1>7, <1>8

LEMMA EmotesGet ==
  ASSUME EmotesInv, NEW t \in OvTasks, GetCached(t) \/ FetchSets(t)
  PROVE  EmotesInv'
<1>1. ovTask[t].pc \in {"get", "fetch"} /\ ovTask[t].pc # "write" /\ ovTask[t].pc # "idle"
  BY DEF GetCached, FetchSets
<1>2. UNCHANGED Wire
  BY Zenon DEF GetCached, FetchSets, Wire
<1>3. EmTypes'
  BY DEF EmotesInv, EmTypes, GetCached, FetchSets
<1>4. ovTask[t].list \in Versions /\ ovTask[t].id \in BOOLEAN /\ ovTask[t].ch \in OvChannels
  BY <1>1, TaskFields
<1>5. ASSUME NEW pc \in {"fetch", "put"}, ovTask' = [ovTask EXCEPT ![t] = [ovTask[t] EXCEPT !.pc = pc]]
      PROVE  EmotesInv'
  <2>1. PICK e : e = [ovTask[t] EXCEPT !.pc = pc]
    OBVIOUS
  <2>2. Unwriting([ovTask[t] EXCEPT !.pc = pc, !.id = ovTask[t].id, !.list = ovTask[t].list])
    BY <1>1, <1>4, MovedTask
  <2>3. Unwriting(e)
    BY <2>1, <2>2, TaskAsIs, Zenon
  <2>4. ovTask' = [ovTask EXCEPT ![t] = e]
    BY <1>5, <2>1, Zenon
  <2> QED
    BY <1>1, <1>2, <1>3, <2>3, <2>4, OneTask
<1>6. ASSUME NEW pc \in {"put", "store"}, NEW list \in Versions,
             ovTask' = [ovTask EXCEPT ![t] = [ovTask[t] EXCEPT !.pc = pc, !.list = list]]
      PROVE  EmotesInv'
  <2>1. PICK e : e = [ovTask[t] EXCEPT !.pc = pc, !.list = list]
    OBVIOUS
  <2>2. Unwriting([ovTask[t] EXCEPT !.pc = pc, !.id = ovTask[t].id, !.list = list])
    BY <1>1, <1>4, MovedTask
  <2>3. Unwriting(e)
    BY <2>1, <2>2, TaskAsIs, Zenon
  <2>4. ovTask' = [ovTask EXCEPT ![t] = e]
    BY <1>6, <2>1, Zenon
  <2> QED
    BY <1>1, <1>2, <1>3, <2>3, <2>4, OneTask
<1>7. CASE GetCached(t)
  <2>1. PICK row : row = ovCache[CacheKey(ovTask[t])]
    OBVIOUS
  <2>2. ovTask' = [ovTask EXCEPT ![t] = IF FreshRow(row) THEN [ovTask[t] EXCEPT !.pc = "store", !.list = row.list]
                                        ELSE [ovTask[t] EXCEPT !.pc = "fetch"]]
    BY <1>7, <2>1, Zenon DEF GetCached
  <2>3. row \in {OvAbsent} \cup Rows
    BY <1>4, <2>1 DEF CacheKey, EmotesInv, EmTypes
  <2>4. CASE FreshRow(row)
    <3>1. row.list \in Versions
      BY <2>3, <2>4 DEF FreshRow, Rows
    <3>2. PICK list \in Versions : list = row.list
      BY <3>1
    <3>3. ovTask' = [ovTask EXCEPT ![t] = [ovTask[t] EXCEPT !.pc = "store", !.list = list]]
      BY <2>2, <2>4, <3>2, Zenon
    <3> QED
      BY <1>6, <3>3
  <2>5. CASE ~FreshRow(row)
    <3>1. ovTask' = [ovTask EXCEPT ![t] = [ovTask[t] EXCEPT !.pc = "fetch"]]
      BY <2>2, <2>5, Zenon
    <3> QED
      BY <1>5, <3>1
  <2> QED
    BY <2>4, <2>5
<1>8. CASE FetchSets(t)
  <2>1. CASE ovTask' = [ovTask EXCEPT ![t] = [ovTask[t] EXCEPT !.pc = "put"]]
    BY <1>5, <2>1
  <2>2. CASE ovTask' = [ovTask EXCEPT ![t] = [ovTask[t] EXCEPT !.pc = "put", !.list = ovRemote[ovTask[t].ch]]]
    <3>1. PICK list : list = ovRemote[ovTask[t].ch]
      OBVIOUS
    <3>2. list \in Versions
      BY <1>4, <3>1 DEF EmotesInv, EmTypes, Versions
    <3>3. ovTask' = [ovTask EXCEPT ![t] = [ovTask[t] EXCEPT !.pc = "put", !.list = list]]
      BY <2>2, <3>1, Zenon
    <3> QED
      BY <1>6, <3>2, <3>3
  <2> QED
    BY <1>8, <2>1, <2>2, Zenon DEF FetchSets
<1> QED
  BY <1>7, <1>8

LEMMA EmotesPut ==
  ASSUME EmotesInv, NEW t \in OvTasks, PutCached(t)
  PROVE  EmotesInv'
<1>1. ovTask[t].pc = "put" /\ ovTask[t].pc # "write" /\ ovTask[t].pc # "idle"
  BY DEF PutCached
<1>2. UNCHANGED Wire
  BY Zenon DEF PutCached, Wire
<1>3. ovTask[t].list \in Versions /\ ovTask[t].id \in BOOLEAN /\ ovTask[t].ch \in OvChannels
  BY <1>1, TaskFields
<1>4. EmTypes'
  <2>1. PICK key : key = CacheKey(ovTask[t])
    OBVIOUS
  <2>2. key \in OvChannels \cup {OvAbsent}
    BY <1>3, <2>1 DEF CacheKey
  <2>3. ovNow \in Nat
    BY DEF EmotesInv, EmTypes
  <2>4. PICK row : row = [list |-> ovTask[t].list, at |-> ovNow]
    OBVIOUS
  <2>5. row \in Rows
    BY <1>3, <2>3, <2>4, Zenon DEF Rows
  <2>6. ovCache' = [ovCache EXCEPT ![key] = row]
    BY <2>1, <2>4, Zenon DEF PutCached
  <2>7. ovCache' \in [OvChannels \cup {OvAbsent} -> {OvAbsent} \cup Rows]
    BY <2>2, <2>5, <2>6 DEF EmotesInv, EmTypes
  <2> QED
    BY <2>7, Zenon DEF EmotesInv, EmTypes, PutCached
<1>5. PICK e : e = [ovTask[t] EXCEPT !.pc = "store"]
  OBVIOUS
<1>6. Unwriting([ovTask[t] EXCEPT !.pc = "store", !.id = ovTask[t].id, !.list = ovTask[t].list])
  BY <1>1, <1>3, MovedTask
<1>7. Unwriting(e)
  BY <1>5, <1>6, TaskAsIs, Zenon
<1>8. ovTask' = [ovTask EXCEPT ![t] = e]
  BY <1>5, Zenon DEF PutCached
<1> QED
  BY <1>1, <1>2, <1>4, <1>7, <1>8, OneTask

LEMMA EmotesStore ==
  ASSUME EmotesInv, NEW t \in OvTasks, StoreSet(t)
  PROVE  EmotesInv'
<1>1. ovTask[t].pc = "store" /\ ovTask[t].pc # "write" /\ ovTask[t].pc # "idle"
  BY DEF StoreSet
<1>2. UNCHANGED Wire
  BY Zenon DEF StoreSet, Wire
<1>3. ovTask[t].list \in Versions /\ ovTask[t].id \in BOOLEAN /\ ovTask[t].ch \in OvChannels /\ OvAbsent \in Versions
      /\ ovTask[t].rest \in SUBSET OvChannels
  BY <1>1, TaskFields DEF Versions
<1>4. EmTypes'
  <2>1. ovSets' = [ovSets EXCEPT ![ovTask[t].ch] = ovTask[t].list]
    BY Zenon DEF StoreSet
  <2>2. ovSets' \in [OvChannels -> Versions]
    BY <1>3, <2>1 DEF EmotesInv, EmTypes
  <2> QED
    BY <2>2, Zenon DEF EmotesInv, EmTypes, StoreSet
<1>5. PICK e : ovTask' = [ovTask EXCEPT ![t] = e]
               /\ (e = [ovTask[t] EXCEPT !.pc = "section", !.list = OvAbsent] \/ e \in Ended(ovTask[t]))
  BY Zenon DEF StoreSet
<1>6. CASE e = [ovTask[t] EXCEPT !.pc = "section", !.list = OvAbsent]
  <2>1. Unwriting([ovTask[t] EXCEPT !.pc = "section", !.id = ovTask[t].id, !.list = OvAbsent])
    BY <1>1, <1>3, MovedTask
  <2>2. Unwriting(e)
    BY <1>6, <2>1, TaskAsIs, Zenon
  <2> QED
    BY <1>1, <1>2, <1>4, <1>5, <2>2, OneTask
<1>7. CASE e \in Ended(ovTask[t])
  <2>1. PICK k : k = ovTask[t]
    OBVIOUS
  <2>2. Unwriting(e)
    BY <1>3, <1>7, <2>1, EndedTask
  <2> QED
    BY <1>1, <1>2, <1>4, <1>5, <2>2, OneTask
<1> QED
  BY <1>5, <1>6, <1>7

(* A step that replaces one task.                                            *)
OnlyTask(t, e) == ovTask'[t] = e /\ \A u \in OvTasks : u # t => ovTask'[u] = ovTask[u]
LEMMA TaskReplaced ==
  ASSUME EmotesInv, NEW t \in OvTasks, NEW e \in Tasks, e.pc # "idle" => e.ch \in OvChannels,
         ovTask' = [ovTask EXCEPT ![t] = e]
  PROVE  EmTasks' /\ OnlyTask(t, e)
<1>1. ovTask \in [OvTasks -> Tasks] /\ \A u \in OvTasks : ovTask[u].pc # "idle" => ovTask[u].ch \in OvChannels
  BY Zenon DEF EmotesInv, EmTasks
<1>2. ovTask' \in [OvTasks -> Tasks] /\ ovTask'[t] = e /\ \A u \in OvTasks : u # t => ovTask'[u] = ovTask[u]
  BY <1>1
<1>3. EmTasks'
  BY <1>1, <1>2, Zenon DEF EmTasks
<1> QED
  BY <1>2, <1>3, Zenon DEF OnlyTask

(* The map and the message about to be written change together.              *)
LEMMA EmotesSection ==
  ASSUME EmotesInv, NEW t \in OvTasks, SubscriptionSection(t)
  PROVE  EmotesInv'
<1>1. PICK k : k = ovTask[t]
  OBVIOUS
<1>2. k.pc = "section" /\ ovTask[t].pc # "idle" /\ ovTask[t].pc # "write"
  BY <1>1 DEF SubscriptionSection
<1>3. k \in Tasks /\ k.ch \in OvChannels /\ k.rest \in SUBSET OvChannels
  BY <1>1, <1>2, TaskFields
<1>4. ovChans' = (IF k.kind = "leave" THEN ovChans \ {k.ch} ELSE ovChans \cup {k.ch})
      /\ ovRaced' = (IF Unwritten(k.ch) THEN ovRaced \cup {k.ch} ELSE ovRaced)
  BY <1>1, Zenon DEF SubscriptionSection
<1>5. UNCHANGED <<ovConn, ovRun, ovTodo, ovDials, ovOpen, ovSubs, ovCancelled>>
  BY Zenon DEF SubscriptionSection
<1>6. PICK e : /\ ovTask' = [ovTask EXCEPT ![t] = e]
               /\ \/ Changed(k) /\ ovConn # 0 /\ e = [k EXCEPT !.pc = "write", !.conn = ovConn]
                  \/ ~(Changed(k) /\ ovConn # 0) /\ e \in Ended(k)
  BY <1>1, Zenon DEF SubscriptionSection
<1>7. EmTypes'
  <2>1. ovChans' \in SUBSET OvChannels
    BY <1>3, <1>4 DEF EmotesInv, EmTypes
  <2> QED
    BY <2>1, Zenon DEF EmotesInv, EmTypes, SubscriptionSection
<1>8. EmRun'
  BY <1>5, Zenon DEF EmotesInv, EmRun
<1>9. ovConn \in Nat
  BY OverlaysAssumption DEF EmotesInv, EmRun
<1>10. /\ e \in Tasks /\ (e.pc # "idle" => e.ch \in OvChannels)
       /\ (e.pc = "write" => e.ch = k.ch /\ e.kind = k.kind)
       /\ (Changed(k) /\ ovConn # 0 => e.pc = "write" /\ e.ch = k.ch /\ e.kind = k.kind /\ e.conn = ovConn)
  <2>1. CASE Changed(k) /\ ovConn # 0 /\ e = [k EXCEPT !.pc = "write", !.conn = ovConn]
    BY <1>3, <1>9, <2>1 DEF Tasks
  <2>2. CASE ~(Changed(k) /\ ovConn # 0) /\ e \in Ended(k)
    <3>1. Unwriting(e)
      BY <1>3, <2>2, EndedTask
    <3> QED
      BY <2>2, <3>1, Zenon DEF Unwriting
  <2> QED
    BY <1>6, <2>1, <2>2
<1>11. EmTasks' /\ OnlyTask(t, e)
  BY <1>6, <1>10, TaskReplaced
<1>12. \A u \in OvTasks : u # t /\ ovTask[u].pc = "write" /\ ovTask[u].ch = k.ch => k.ch \in ovRaced'
  BY <1>4 DEF Unwritten
<1>13. \A c : c \notin ovRaced' => c \notin ovRaced
  BY <1>4
<1>14. \A c : c # k.ch => (c \in ovChans' <=> c \in ovChans)
  BY <1>4
<1>15. k.kind = "leave" <=> k.ch \notin ovChans'
  BY <1>4
<1>16. Truthful'
  <2> SUFFICES ASSUME NEW u \in OvTasks, ovTask'[u].pc = "write", ovTask'[u].ch \notin ovRaced'
               PROVE  ovTask'[u].kind = "leave" <=> ovTask'[u].ch \notin ovChans'
    BY Zenon DEF Truthful
  <2>1. CASE u = t
    BY <1>10, <1>11, <1>15, <2>1, Zenon DEF OnlyTask
  <2>2. CASE u # t
    <3>1. ovTask'[u] = ovTask[u]
      BY <1>11, <2>2, Zenon DEF OnlyTask
    <3>2. ovTask[u].ch # k.ch /\ ovTask[u].ch \notin ovRaced
      BY <1>12, <1>13, <2>2, <3>1, Zenon
    <3>3. ovTask[u].kind = "leave" <=> ovTask[u].ch \notin ovChans
      BY <3>1, <3>2, Zenon DEF EmotesInv, Truthful
    <3> QED
      BY <1>14, <3>1, <3>2, <3>3, Zenon
  <2> QED
    BY <2>1, <2>2
<1>17. Followed'
  <2> SUFFICES ASSUME (ovRun \in {"resubscribe", "read"})', ovOpen', ~ovCancelled', NEW c \in (ovChans \ ovRaced)'
               PROVE  Reached(c)'
    BY Zenon DEF Followed
  <2>1. ovRun \in {"resubscribe", "read"} /\ ovOpen /\ ~ovCancelled /\ c \notin ovRaced
    BY <1>5, <1>13
  <2>2. CASE c \in ovChans
    <3>1. Reached(c)
      BY <2>1, <2>2, Zenon DEF EmotesInv, Followed
    <3>2. \A u \in OvTasks : ToldBy(u, c) => ToldBy(u, c)'
      BY <1>1, <1>2, <1>5, <1>11, Zenon DEF ToldBy, OnlyTask
    <3> QED
      BY <1>5, <3>1, <3>2, Zenon DEF Reached
  <2>3. CASE c \notin ovChans
    <3>1. c = k.ch /\ k.kind # "leave"
      BY <1>4, <2>3
    <3>2. Changed(k)
      BY <2>3, <3>1 DEF Changed
    <3>3. ovConn # 0 /\ ovConn = ovDials
      BY <2>1 DEF EmotesInv, EmRun
    <3>4. e.pc = "write" /\ e.ch = c /\ e.kind # "leave" /\ e.conn = ovDials
      BY <1>10, <3>1, <3>2, <3>3, Zenon
    <3>5. ToldBy(t, c)'
      BY <1>5, <1>11, <3>4, Zenon DEF ToldBy, OnlyTask
    <3> QED
      BY <3>5, Zenon DEF Reached
  <2> QED
    BY <2>2, <2>3
<1> QED
  BY <1>7, <1>8, <1>11, <1>16, <1>17, Zenon DEF EmotesInv

(* The message is written, or lost with its connection.                      *)
LEMMA EmotesWrite ==
  ASSUME EmotesInv, NEW t \in OvTasks, WriteSub(t)
  PROVE  EmotesInv'
<1>1. PICK k : k = ovTask[t]
  OBVIOUS
<1>2. k.pc = "write" /\ ovTask[t].pc # "idle"
  BY <1>1 DEF WriteSub
<1>3. k \in Tasks /\ k.ch \in OvChannels /\ k.rest \in SUBSET OvChannels
  BY <1>1, <1>2, TaskFields
<1>4. ovSubs' = (IF k.conn # ovDials \/ ~ovOpen \/ ovCancelled THEN ovSubs
                 ELSE IF k.kind = "leave" THEN ovSubs \ {k.ch} ELSE ovSubs \cup {k.ch})
  BY <1>1, Zenon DEF WriteSub
<1>5. UNCHANGED <<ovConn, ovRun, ovTodo, ovDials, ovOpen, ovChans, ovRaced, ovCancelled>>
  BY Zenon DEF WriteSub
<1>6. PICK e \in Ended(k) : ovTask' = [ovTask EXCEPT ![t] = e]
  BY <1>1, Zenon DEF WriteSub
<1>7. Unwriting(e)
  BY <1>3, <1>6, EndedTask
<1>8. e \in Tasks /\ e.pc # "write" /\ (e.pc # "idle" => e.ch \in OvChannels)
  BY <1>7, Zenon DEF Unwriting
<1>9. EmTasks' /\ OnlyTask(t, e)
  BY <1>6, <1>8, TaskReplaced
<1>10. EmTypes'
  <2>1. ovSubs' \in SUBSET OvChannels
    BY <1>3, <1>4 DEF EmotesInv, EmTypes
  <2> QED
    BY <2>1, Zenon DEF EmotesInv, EmTypes, WriteSub
<1>11. EmRun'
  BY <1>5, Zenon DEF EmotesInv, EmRun
<1>12. Truthful'
  BY <1>5, <1>8, <1>9, Zenon DEF EmotesInv, Truthful, OnlyTask
<1>13. Followed'
  <2> SUFFICES ASSUME (ovRun \in {"resubscribe", "read"})', ovOpen', ~ovCancelled', NEW c \in (ovChans \ ovRaced)'
               PROVE  Reached(c)'
    BY Zenon DEF Followed
  <2>1. ovRun \in {"resubscribe", "read"} /\ ovOpen /\ ~ovCancelled /\ c \notin ovRaced /\ c \in ovChans
    BY <1>5
  <2>2. Reached(c)
    BY <2>1, Zenon DEF EmotesInv, Followed
  <2>3. c = k.ch => k.kind # "leave"
    BY <1>1, <1>2, <2>1, Zenon DEF EmotesInv, Truthful
  <2>4. c \in ovSubs => c \in ovSubs'
    BY <1>4, <2>3
  <2>5. ToldBy(t, c) => c \in ovSubs'
    BY <1>1, <1>4, <2>1 DEF ToldBy
  <2>6. \A u \in OvTasks : u # t /\ ToldBy(u, c) => ToldBy(u, c)'
    BY <1>5, <1>9, Zenon DEF ToldBy, OnlyTask
  <2> QED
    BY <1>5, <2>2, <2>4, <2>5, <2>6, Zenon DEF Reached
<1> QED
  BY <1>9, <1>10, <1>11, <1>12, <1>13, Zenon DEF EmotesInv

(* A step of the connection's own goroutine.                                 *)
LEMMA RunMoves ==
  ASSUME EmotesInv, EmTypes', EmRun', UNCHANGED <<ovTask, ovChans, ovRaced>>,
         ovRun' \in {"resubscribe", "read"} /\ ovOpen' /\ ~ovCancelled' => \A c \in ovChans \ ovRaced : Reached(c)'
  PROVE  EmotesInv'
<1>1. EmTasks'
  BY Zenon DEF EmotesInv, EmTasks
<1>2. Truthful'
  BY Zenon DEF EmotesInv, Truthful
<1>3. Followed'
  BY Zenon DEF Followed
<1> QED
  BY <1>1, <1>2, <1>3, Zenon DEF EmotesInv

LEMMA EmotesConnect ==
  ASSUME EmotesInv, Connect
  PROVE  EmotesInv'
<1>1. ovRun = "dial" /\ UNCHANGED <<ovTask, ovChans, ovRaced>>
  BY DEF Connect
<1>2. ovConn = 0 /\ ~ovOpen /\ ovDials \in 0 .. MaxOvDials /\ ovChans \in SUBSET OvChannels
  BY <1>1 DEF EmotesInv, EmTypes, EmRun
<1>3. CASE ovRun' = "backoff" /\ UNCHANGED <<ovConn, ovDials, ovOpen, ovSubs, ovTodo, ovInbox>>
  <2>1. EmTypes'
    BY <1>3, Zenon DEF EmotesInv, EmTypes, Connect
  <2>2. EmRun'
    BY <1>2, <1>3 DEF EmRun
  <2>3. ovRun' \notin {"resubscribe", "read"}
    BY <1>3
  <2> QED
    BY <1>1, <2>1, <2>2, <2>3, RunMoves
<1>4. CASE /\ ovDials < MaxOvDials /\ ovDials' = ovDials + 1 /\ ovConn' = ovDials + 1 /\ ovSubs' = {}
           /\ ovTodo' = ovChans /\ ovRun' = "resubscribe"
  <2>1. EmTypes'
    <3>1. ovSubs' \in SUBSET OvChannels /\ ovTodo' \in SUBSET OvChannels
      BY <1>2, <1>4
    <3> QED
      BY <3>1, Zenon DEF EmotesInv, EmTypes, Connect
  <2>2. EmRun'
    BY <1>2, <1>4, OverlaysAssumption DEF EmRun
  <2>3. \A c \in ovChans \ ovRaced : Reached(c)'
    BY <1>4, Zenon DEF Reached
  <2> QED
    BY <1>1, <2>1, <2>2, <2>3, RunMoves
<1> QED
  BY <1>3, <1>4, Zenon DEF Connect, Resubscribes

LEMMA EmotesResubscribe ==
  ASSUME EmotesInv, Resubscribe
  PROVE  EmotesInv'
<1>1. UNCHANGED <<ovTask, ovChans, ovRaced, ovConn, ovDials, ovOpen, ovCancelled>> /\ ovRun = "resubscribe"
  BY Zenon DEF Resubscribe
<1>2. ovTodo \in SUBSET OvChannels /\ ovSubs \in SUBSET OvChannels
  BY DEF EmotesInv, EmTypes
<1>3. ovConn = ovDials /\ ovDials # 0 /\ ovDials \in 0 .. MaxOvDials
  BY <1>1 DEF EmotesInv, EmRun
<1>4. \A u \in OvTasks, c \in OvChannels : ToldBy(u, c) => ToldBy(u, c)'
  BY <1>1, Zenon DEF ToldBy
<1>5. ovChans \in SUBSET OvChannels
  BY DEF EmotesInv, EmTypes
<1>6. CASE ovTodo = {} /\ ovRun' = "read" /\ UNCHANGED <<ovSubs, ovTodo>>
  <2>1. EmTypes'
    BY <1>6, Zenon DEF EmotesInv, EmTypes, Resubscribe
  <2>2. EmRun'
    BY <1>1, <1>3, <1>6, Zenon DEF EmRun
  <2>3. ovOpen' /\ ~ovCancelled' => \A c \in ovChans \ ovRaced : Reached(c)'
    BY <1>1, <1>4, <1>5, <1>6 DEF EmotesInv, Followed, Reached
  <2> QED
    BY <1>1, <2>1, <2>2, <2>3, RunMoves
<1>7. ASSUME NEW d \in ovTodo, ovTodo' = ovTodo \ {d}, UNCHANGED ovRun,
             ovSubs' = IF ovOpen /\ ~ovCancelled THEN ovSubs \cup {d} ELSE ovSubs
      PROVE  EmotesInv'
  <2>1. EmTypes'
    <3>1. ovSubs' \in SUBSET OvChannels /\ ovTodo' \in SUBSET OvChannels
      BY <1>2, <1>7
    <3> QED
      BY <3>1, Zenon DEF EmotesInv, EmTypes, Resubscribe
  <2>2. EmRun'
    BY <1>1, <1>7, Zenon DEF EmotesInv, EmRun
  <2>3. ovOpen' /\ ~ovCancelled' => \A c \in ovChans \ ovRaced : Reached(c)'
    BY <1>1, <1>4, <1>5, <1>7 DEF EmotesInv, Followed, Reached
  <2> QED
    BY <1>1, <2>1, <2>2, <2>3, RunMoves
<1> QED
  BY <1>6, <1>7, Zenon DEF Resubscribe

(* The steps that leave no connection behind, or none that is read.          *)
LEMMA EmotesConnectionGoes ==
  ASSUME EmotesInv, EventsReadFails \/ RunOn \/ ConnectionEnds \/ EventsClose
  PROVE  EmotesInv'
<1>1. UNCHANGED <<ovTask, ovChans, ovRaced, ovDials>>
  BY Zenon DEF EventsReadFails, RunOn, ConnectionEnds, EventsClose
<1>2. CASE EventsReadFails
  <2>1. EmTypes'
    BY <1>2 DEF EmotesInv, EmTypes, EventsReadFails
  <2>2. EmRun'
    BY <1>2 DEF EmotesInv, EmRun, EventsReadFails
  <2>3. ~ovOpen'
    BY <1>2, Zenon DEF EventsReadFails
  <2> QED
    BY <1>1, <2>1, <2>2, <2>3, RunMoves
<1>3. CASE RunOn
  <2>1. EmTypes'
    BY <1>3, Zenon DEF EmotesInv, EmTypes, RunOn
  <2>2. ovRun' \in {"dial", "stopped"} /\ ovRun \in {"backoff", "dial"} /\ UNCHANGED <<ovConn, ovOpen, ovDials>>
    BY <1>3 DEF RunOn
  <2>3. EmRun'
    BY <2>2 DEF EmotesInv, EmRun
  <2>4. ovRun' \notin {"resubscribe", "read"}
    BY <2>2
  <2> QED
    BY <1>1, <2>1, <2>3, <2>4, RunMoves
<1>4. CASE ConnectionEnds
  <2>1. EmTypes'
    BY <1>4 DEF EmotesInv, EmTypes, ConnectionEnds
  <2>2. ovOpen /\ ~ovOpen' /\ UNCHANGED <<ovConn, ovRun, ovDials>>
    BY <1>4, Zenon DEF ConnectionEnds
  <2>3. EmRun'
    BY <2>2, Zenon DEF EmotesInv, EmRun
  <2> QED
    BY <1>1, <2>1, <2>2, <2>3, RunMoves
<1>5. CASE EventsClose
  <2>1. EmTypes'
    BY <1>5, Zenon DEF EmotesInv, EmTypes, EventsClose
  <2>2. ovCancelled' /\ UNCHANGED <<ovConn, ovRun, ovDials, ovOpen>>
    BY <1>5, Zenon DEF EventsClose
  <2>3. EmRun'
    BY <2>2, Zenon DEF EmotesInv, EmRun
  <2> QED
    BY <1>1, <2>1, <2>2, <2>3, RunMoves
<1> QED
  BY <1>2, <1>3, <1>4, <1>5

(* Time passes, a streamer changes a set, a dispatch starts its refreshes.   *)
LEMMA EmotesAround ==
  ASSUME EmotesInv, EmoteClock \/ Dispatched \/ \E c \in OvChannels : SetChanges(c)
  PROVE  EmotesInv'
<1>1. UNCHANGED Wire
  BY Zenon DEF EmoteClock, SetChanges, Dispatched, Wire
<1>2. EmTypes'
  <2>1. CASE EmoteClock
    <3>1. ovNow' \in Nat
      BY <2>1 DEF EmoteClock, EmotesInv, EmTypes
    <3> QED
      BY <2>1, <3>1, Zenon DEF EmotesInv, EmTypes, EmoteClock
  <2>2. CASE Dispatched
    BY <2>2, Zenon DEF EmotesInv, EmTypes, Dispatched
  <2>3. ASSUME NEW c \in OvChannels, SetChanges(c)
        PROVE  EmTypes'
    <3>1. ovRemote' \in [OvChannels -> 0 .. MaxOvVersion]
      BY <2>3, OverlaysAssumption DEF SetChanges, EmotesInv, EmTypes
    <3> QED
      BY <2>3, <3>1, Zenon DEF EmotesInv, EmTypes, SetChanges
  <2> QED
    BY <2>1, <2>2, <2>3
<1>3. CASE UNCHANGED ovTask
  <2>1. EmTasks'
    BY <1>3, Zenon DEF EmotesInv, EmTasks
  <2>2. \A u \in OvTasks : ovTask'[u] = ovTask[u]
    BY <1>3, Zenon
  <2> QED
    BY <1>1, <1>2, <2>1, <2>2, WireKept
<1>4. CASE Dispatched
  <2>1. PICK at \in [ovChans -> Free] : ovTask' = [t \in OvTasks |->
            IF \E c \in ovChans : at[c] = t
            THEN [Idle EXCEPT !.kind = "dispatch", !.pc = "get", !.id = TRUE,
                              !.ch = CHOOSE c \in ovChans : at[c] = t]
            ELSE ovTask[t]]
    BY <1>4, Zenon DEF Dispatched
  <2>2. \A u \in OvTasks : \/ ovTask'[u] = ovTask[u]
                           \/ ovTask[u].pc = "idle" /\ Unwriting(ovTask'[u])
    <3> SUFFICES ASSUME NEW u \in OvTasks, ovTask'[u] # ovTask[u]
                 PROVE  ovTask[u].pc = "idle" /\ Unwriting(ovTask'[u])
      OBVIOUS
    <3>1. \E c \in ovChans : at[c] = u
      BY <2>1
    <3>2. PICK d \in ovChans : d = (CHOOSE c \in ovChans : at[c] = u) /\ at[d] = u
      BY <3>1, Zenon
    <3>3. PICK e : e = [Idle EXCEPT !.kind = "dispatch", !.pc = "get", !.id = TRUE, !.ch = d]
      OBVIOUS
    <3>4. ovTask'[u] = e
      BY <2>1, <3>1, <3>2, <3>3
    <3>5. e = [kind |-> "dispatch", pc |-> "get", ch |-> d, id |-> TRUE, list |-> OvAbsent, conn |-> 0, rest |-> {}]
      BY <3>3, Zenon DEF Idle
    <3>6. TRUE \in BOOLEAN /\ {} \in SUBSET OvChannels /\ d \in OvChannels
      BY DEF EmotesInv, EmTypes
    <3>7. Unwriting(e)
      BY <3>5, <3>6, StartedTask
    <3>8. u \in Free
      BY <3>2
    <3> QED
      BY <3>4, <3>7, <3>8 DEF Free
  <2>3. \A u \in OvTasks : ovTask[u].pc = "write" \/ ovTask'[u].pc = "write" => ovTask'[u] = ovTask[u]
    BY <2>2 DEF Unwriting
  <2>4. \A u \in OvTasks : ovTask'[u] \in Tasks /\ (ovTask'[u].pc # "idle" => ovTask'[u].ch \in OvChannels)
    BY <2>2, TaskFields, Zenon DEF Unwriting
  <2>5. ovTask' \in [OvTasks -> Tasks]
    BY <2>1, <2>4
  <2>6. EmTasks'
    BY <2>4, <2>5, Zenon DEF EmTasks
  <2> QED
    BY <1>1, <1>2, <2>3, <2>6, WireKept
<1>5. UNCHANGED ovTask \/ Dispatched
  BY Zenon DEF EmoteClock, SetChanges
<1> QED
  BY <1>3, <1>4, <1>5

LEMMA EmotesStep ==
  ASSUME EmotesInv, EmotesNext
  PROVE  EmotesInv'
<1>1. ASSUME NEW t \in OvTasks, NEW c \in OvChannels, JoinWarms(t, c) \/ LeaveUnsubscribes(t, c)
      PROVE  EmotesInv'
  BY <1>1, EmotesStart
<1>2. ASSUME NEW t \in OvTasks, SignInWarms(t)
      PROVE  EmotesInv'
  <2>1. PICK c \in OvChannels : TRUE
    BY <1>2 DEF SignInWarms, EmotesInv, EmTypes
  <2> QED
    BY <1>2, EmotesStart
<1> QED
  BY <1>1, <1>2, EmotesResolve, EmotesGet, EmotesPut, EmotesStore, EmotesSection, EmotesWrite, EmotesConnect,
     EmotesResubscribe, EmotesConnectionGoes, EmotesAround, Zenon DEF EmotesNext

LEMMA EmotesKept ==
  ASSUME EmotesInv, UNCHANGED emVars
  PROVE  EmotesInv'
<1>1. UNCHANGED Wire /\ UNCHANGED <<ovNow, ovRemote, ovCache, ovSets, ovJoined, ovTask>>
  BY Zenon DEF emVars, Wire
<1>2. EmTypes'
  BY <1>1, Zenon DEF EmotesInv, EmTypes, Wire
<1>3. EmTasks'
  BY <1>1, Zenon DEF EmotesInv, EmTasks
<1>4. \A u \in OvTasks : ovTask'[u] = ovTask[u]
  BY <1>1, Zenon
<1> QED
  BY <1>1, <1>2, <1>3, <1>4, WireKept

LEMMA EmotesStarts ==
  ASSUME EmotesInit
  PROVE  EmotesInv
<1>1. EmTypes
  BY OverlaysAssumption DEF EmotesInit, EmTypes, Versions
<1>2. EmTasks
  <2>1. ovTask = [t \in OvTasks |-> Idle]
    BY Zenon DEF EmotesInit
  <2> QED
    BY <2>1, IdleTask DEF EmTasks
<1>3. EmRun
  BY OverlaysAssumption DEF EmotesInit, EmRun
<1>4. Truthful
  <2>1. \A t \in OvTasks : ovTask[t].pc # "write"
    BY IdleTask DEF EmotesInit
  <2> QED
    BY <2>1, Zenon DEF Truthful
<1>5. Followed
  BY DEF EmotesInit, Followed
<1> QED
  BY <1>1, <1>2, <1>3, <1>4, <1>5, Zenon DEF EmotesInv

(* What the invariant says of a connection that is read.                     *)
LEMMA EmotesSound ==
  ASSUME EmotesInv
  PROVE  OverlaysTypeOK /\ ChannelsSubscribed
<1>1. ovRun \in {"dial", "resubscribe", "read", "backoff", "stopped"} /\ ovConn \in {0, ovDials}
      /\ ovDials \in 0 .. MaxOvDials /\ (ovRun = "stopped" => ovConn = 0 /\ ~ovOpen)
  BY DEF EmotesInv, EmRun
<1>2. OverlaysTypeOK
  BY <1>1 DEF OverlaysTypeOK, EmotesInv, EmTypes, Versions
<1>3. ASSUME ovRun = "read", ovOpen, ~ovCancelled, NEW c \in ovChans \ ovRaced
      PROVE  Unwritten(c) \/ c \in ovSubs
  <2>1. Reached(c)
    BY <1>3 DEF EmotesInv, Followed
  <2> QED
    BY <1>3, <2>1 DEF Reached, ToldBy, Unwritten
<1> QED
  BY <1>1, <1>2, <1>3, Zenon DEF ChannelsSubscribed

-----------------------------------------------------------------------------
\* The lazy fetches.

LEMMA FetchReplaced ==
  ASSUME LzTypes, NEW t \in OvTasks, NEW f \in Fetches, f.pc # "idle" => f.ch \in OvChannels,
         ovSlot' \in [Kinds -> [OvChannels -> Slots]], ovFetch' = [ovFetch EXCEPT ![t] = f]
  PROVE  LzTypes' /\ ovFetch'[t] = f /\ \A u \in OvTasks : u # t => ovFetch'[u] = ovFetch[u]
<1>1. ovFetch \in [OvTasks -> Fetches] /\ \A u \in OvTasks : ovFetch[u].pc # "idle" => ovFetch[u].ch \in OvChannels
  BY Zenon DEF LzTypes
<1>2. ovFetch' \in [OvTasks -> Fetches] /\ ovFetch'[t] = f /\ \A u \in OvTasks : u # t => ovFetch'[u] = ovFetch[u]
  BY <1>1
<1> QED
  BY <1>1, <1>2, Zenon DEF LzTypes

(* A slot of which one field changes.                                        *)
SlotIs(kind, c, s) ==
  /\ ovSlot' \in [Kinds -> [OvChannels -> Slots]] /\ ovSlot'[kind][c] = s
  /\ \A k \in Kinds, d \in OvChannels : k # kind \/ d # c => ovSlot'[k][d] = ovSlot[k][d]
LEMMA SlotReplaced ==
  ASSUME LzTypes, NEW kind \in Kinds, NEW c \in OvChannels, NEW s \in Slots,
         ovSlot' = [ovSlot EXCEPT ![kind][c] = s]
  PROVE  SlotIs(kind, c, s)
<1>1. ovSlot \in [Kinds -> [OvChannels -> Slots]]
  BY Zenon DEF LzTypes
<1>2. PICK row : row = [ovSlot[kind] EXCEPT ![c] = s]
  OBVIOUS
<1>3. row \in [OvChannels -> Slots] /\ row[c] = s /\ \A d \in OvChannels : d # c => row[d] = ovSlot[kind][d]
  BY <1>1, <1>2
<1>4. ovSlot' = [ovSlot EXCEPT ![kind] = row]
  BY <1>2, Zenon
<1>5. ovSlot' \in [Kinds -> [OvChannels -> Slots]] /\ ovSlot'[kind] = row /\ \A k \in Kinds : k # kind => ovSlot'[k] = ovSlot[k]
  BY <1>1, <1>3, <1>4
<1> QED
  BY <1>3, <1>5, Zenon DEF SlotIs

LEMMA LazyStarts ==
  ASSUME LazyInit
  PROVE  LazyInv
<1>1. OvAbsent \in OvChannels \cup {OvAbsent} /\ FALSE \in BOOLEAN /\ "stream" \in Kinds
  BY DEF Kinds
<1>2. NoFetch \in Fetches /\ NoFetch.pc = "idle"
  BY <1>1 DEF NoFetch, Fetches
<1>3. LzTypes
  BY <1>2 DEF LazyInit, LzTypes, Slots
<1>4. \A t \in OvTasks : ovFetch[t].pc = "idle"
  BY <1>2 DEF LazyInit
<1>5. \A kind \in Kinds, c \in OvChannels : ~ovSlot[kind][c].inflight
  BY DEF LazyInit
<1>6. \A kind \in Kinds, c \in OvChannels : Marked(kind, c)
  BY <1>4, <1>5, Zenon DEF Marked, Holds
<1> QED
  BY <1>3, <1>6, Zenon DEF LazyInv

(* A step that leaves the marks and who holds them be.                       *)
LEMMA MarksKept ==
  ASSUME LazyInv, LzTypes',
         \A kind \in Kinds, c \in OvChannels : ovSlot'[kind][c].inflight = ovSlot[kind][c].inflight,
         \A kind \in Kinds, c \in OvChannels, t \in OvTasks : Holds(t, kind, c)' <=> Holds(t, kind, c)
  PROVE  LazyInv'
<1>1. \A kind \in Kinds, c \in OvChannels : Marked(kind, c)'
  BY Zenon DEF LazyInv, Marked
<1> QED
  BY <1>1, Zenon DEF LazyInv

LEMMA JoinFetchStep ==
  ASSUME LazyInv, NEW t \in OvTasks, NEW kind \in Kinds, NEW c \in OvChannels, JoinFetches(t, kind, c)
  PROVE  LazyInv'
<1>1. ovFetch[t].pc = "idle" /\ UNCHANGED ovSlot
  BY DEF JoinFetches, FetchFree
<1>2. PICK f : f = [pc |-> "fetch", kind |-> kind, ch |-> c, lazy |-> FALSE, got |-> OvAbsent]
  OBVIOUS
<1>3. f \in Fetches /\ f.ch \in OvChannels /\ ~f.lazy
  BY <1>2 DEF Fetches
<1>4. ovFetch' = [ovFetch EXCEPT ![t] = f]
  BY <1>2, Zenon DEF JoinFetches
<1>5. ovSlot' \in [Kinds -> [OvChannels -> Slots]] /\ LzTypes
  BY <1>1, Zenon DEF LazyInv, LzTypes
<1>6. LzTypes' /\ ovFetch'[t] = f /\ \A u \in OvTasks : u # t => ovFetch'[u] = ovFetch[u]
  BY <1>3, <1>4, <1>5, FetchReplaced
<1>7. \A k \in Kinds, d \in OvChannels, u \in OvTasks : Holds(u, k, d)' <=> Holds(u, k, d)
  BY <1>1, <1>3, <1>6, Zenon DEF Holds
<1> QED
  BY <1>1, <1>6, <1>7, MarksKept

LEMMA LazyFetchStep ==
  ASSUME LazyInv, NEW t \in OvTasks, NEW kind \in Kinds, NEW c \in OvChannels, EnsureFresh(t, kind, c)
  PROVE  LazyInv'
<1>1. ovFetch[t].pc = "idle" /\ ~ovSlot[kind][c].inflight
  BY DEF EnsureFresh, FetchFree
<1>2. PICK f : f = [pc |-> "fetch", kind |-> kind, ch |-> c, lazy |-> TRUE, got |-> OvAbsent]
  OBVIOUS
<1>3. f \in Fetches /\ f.ch = c /\ f.kind = kind /\ f.lazy /\ f.pc # "idle"
  BY <1>2 DEF Fetches
<1>4. ovFetch' = [ovFetch EXCEPT ![t] = f]
  BY <1>2, Zenon DEF EnsureFresh
<1>5. LzTypes
  BY Zenon DEF LazyInv
<1>6. PICK s : s = [ovSlot[kind][c] EXCEPT !.inflight = TRUE]
  OBVIOUS
<1>7. s \in Slots /\ s.inflight
  <2>1. PICK o \in Slots : o = ovSlot[kind][c]
    BY <1>5 DEF LzTypes
  <2>2. o.val \in {OvAbsent, 1} /\ s = [val |-> o.val, inflight |-> TRUE]
    BY <1>6, <2>1, Zenon DEF Slots
  <2>3. s \in Slots
    BY <2>2 DEF Slots
  <2>4. s.inflight
    BY <2>2, Zenon
  <2> QED
    BY <2>3, <2>4
<1>8. ovSlot' = [ovSlot EXCEPT ![kind][c] = s]
  BY <1>6, Zenon DEF EnsureFresh
<1>9. SlotIs(kind, c, s)
  BY <1>5, <1>7, <1>8, SlotReplaced
<1>10. ovSlot' \in [Kinds -> [OvChannels -> Slots]] /\ ovSlot'[kind][c] = s
       /\ \A k \in Kinds, d \in OvChannels : k # kind \/ d # c => ovSlot'[k][d] = ovSlot[k][d]
  BY <1>9, Zenon DEF SlotIs
<1>11. LzTypes' /\ ovFetch'[t] = f /\ \A u \in OvTasks : u # t => ovFetch'[u] = ovFetch[u]
  BY <1>3, <1>4, <1>5, <1>10, FetchReplaced
<1>12. Marked(kind, c)'
  <2>1. \A u \in OvTasks : ~Holds(u, kind, c)
    BY <1>1, Zenon DEF LazyInv, Marked
  <2>2. Holds(t, kind, c)' /\ \A u \in OvTasks : u # t => ~Holds(u, kind, c)'
    BY <1>3, <1>11, <2>1, Zenon DEF Holds
  <2> QED
    BY <1>7, <1>10, <2>2, Zenon DEF Marked
<1>13. ASSUME NEW k \in Kinds, NEW d \in OvChannels, k # kind \/ d # c
       PROVE  Marked(k, d)'
  <2>1. \A u \in OvTasks : Holds(u, k, d)' <=> Holds(u, k, d)
    BY <1>1, <1>3, <1>11, <1>13, Zenon DEF Holds
  <2> QED
    BY <1>10, <1>13, <2>1, Zenon DEF LazyInv, Marked
<1> QED
  BY <1>11, <1>12, <1>13, Zenon DEF LazyInv

(* The fetch goes on: who holds a mark stays.                                *)
LEMMA FetchGoesOn ==
  ASSUME LazyInv, NEW t \in OvTasks, ovFetch[t].pc # "idle", NEW f \in Fetches, f.pc # "idle",
         f.ch = ovFetch[t].ch, f.kind = ovFetch[t].kind, f.lazy = ovFetch[t].lazy,
         ovFetch' = [ovFetch EXCEPT ![t] = f], ovSlot' \in [Kinds -> [OvChannels -> Slots]],
         \A kind \in Kinds, c \in OvChannels : ovSlot'[kind][c].inflight = ovSlot[kind][c].inflight
  PROVE  LazyInv'
<1>1. LzTypes /\ f.ch \in OvChannels
  BY Zenon DEF LazyInv, LzTypes
<1>2. LzTypes' /\ ovFetch'[t] = f /\ \A u \in OvTasks : u # t => ovFetch'[u] = ovFetch[u]
  BY <1>1, FetchReplaced
<1>3. \A k \in Kinds, d \in OvChannels, u \in OvTasks : Holds(u, k, d)' <=> Holds(u, k, d)
  <2>1. \A k \in Kinds, d \in OvChannels : Holds(t, k, d)' <=> f.lazy /\ f.kind = k /\ f.ch = d
    BY <1>2, Zenon DEF Holds
  <2>2. \A k \in Kinds, d \in OvChannels : Holds(t, k, d) <=> f.lazy /\ f.kind = k /\ f.ch = d
    BY Zenon DEF Holds
  <2>3. \A k \in Kinds, d \in OvChannels, u \in OvTasks : u # t => (Holds(u, k, d)' <=> Holds(u, k, d))
    BY <1>2, Zenon DEF Holds
  <2>4. ASSUME NEW k \in Kinds, NEW d \in OvChannels, NEW u \in OvTasks
        PROVE  Holds(u, k, d)' <=> Holds(u, k, d)
    <3>1. CASE u = t
      <4>1. Holds(t, k, d)' <=> Holds(t, k, d)
        BY <2>1, <2>2, Zenon
      <4> QED
        BY <3>1, <4>1, Zenon
    <3>2. CASE u # t
      BY <2>3, <3>2, Zenon
    <3> QED
      BY <3>1, <3>2, Zenon
  <2> QED
    BY <2>4, Zenon
<1> QED
  BY <1>2, <1>3, MarksKept

LEMMA AnswerStep ==
  ASSUME LazyInv, NEW t \in OvTasks, ProviderAnswers(t)
  PROVE  LazyInv'
<1>1. PICK k : k = ovFetch[t]
  OBVIOUS
<1>2. k \in Fetches /\ ovFetch[t].pc = "fetch" /\ ovFetch[t].pc # "idle" /\ UNCHANGED ovSlot
  BY <1>1 DEF ProviderAnswers, LazyInv, LzTypes
<1>3. PICK f : /\ ovFetch' = [ovFetch EXCEPT ![t] = f]
               /\ \/ f = [k EXCEPT !.pc = "store", !.got = 1]
                  \/ f = [k EXCEPT !.pc = IF k.kind = "stream" THEN "release" ELSE "store"]
  BY <1>1, Zenon DEF ProviderAnswers
<1>4. f \in Fetches /\ f.pc # "idle" /\ f.ch = k.ch /\ f.kind = k.kind /\ f.lazy = k.lazy
  BY <1>2, <1>3 DEF Fetches
<1>5. ovSlot' \in [Kinds -> [OvChannels -> Slots]]
  BY <1>2, Zenon DEF LazyInv, LzTypes
<1> QED
  BY <1>1, <1>2, <1>3, <1>4, <1>5, FetchGoesOn

LEMMA StoreFetchedStep ==
  ASSUME LazyInv, NEW t \in OvTasks, StoreFetched(t)
  PROVE  LazyInv'
<1>1. PICK k : k = ovFetch[t]
  OBVIOUS
<1>2. k.pc = "store" /\ ovFetch[t].pc # "idle"
  BY <1>1 DEF StoreFetched
<1>3. LzTypes /\ k \in Fetches /\ k.ch \in OvChannels /\ k.kind \in Kinds /\ k.got \in {OvAbsent, 1}
  BY <1>1, <1>2 DEF LazyInv, LzTypes, Fetches
<1>4. PICK f : f = [k EXCEPT !.pc = "release"]
  OBVIOUS
<1>5. f \in Fetches /\ f.pc # "idle" /\ f.ch = k.ch /\ f.kind = k.kind /\ f.lazy = k.lazy
  BY <1>3, <1>4 DEF Fetches
<1>6. ovFetch' = [ovFetch EXCEPT ![t] = f]
  BY <1>1, <1>4, Zenon DEF StoreFetched
<1>7. PICK s : s = [ovSlot[k.kind][k.ch] EXCEPT !.val = k.got]
  OBVIOUS
<1>8. s \in Slots /\ s.inflight = ovSlot[k.kind][k.ch].inflight
  BY <1>3, <1>7 DEF LzTypes, Slots
<1>9. ovSlot' = [ovSlot EXCEPT ![k.kind][k.ch] = s]
  BY <1>1, <1>7, Zenon DEF StoreFetched
<1>10. SlotIs(k.kind, k.ch, s)
  BY <1>3, <1>8, <1>9, SlotReplaced
<1>11. ovSlot' \in [Kinds -> [OvChannels -> Slots]]
       /\ \A kind \in Kinds, c \in OvChannels : ovSlot'[kind][c].inflight = ovSlot[kind][c].inflight
  BY <1>8, <1>10, Zenon DEF SlotIs
<1> QED
  BY <1>1, <1>2, <1>5, <1>6, <1>11, FetchGoesOn

LEMMA FetchEndStep ==
  ASSUME LazyInv, NEW t \in OvTasks, FetchEnds(t)
  PROVE  LazyInv'
<1>1. PICK k : k = ovFetch[t]
  OBVIOUS
<1>2. k.pc = "release" /\ ovFetch[t].pc # "idle"
  BY <1>1 DEF FetchEnds
<1>3. LzTypes /\ k \in Fetches /\ k.ch \in OvChannels /\ k.kind \in Kinds
  BY <1>1, <1>2 DEF LazyInv, LzTypes, Fetches
<1>4. "stream" \in Kinds /\ OvAbsent \in OvChannels \cup {OvAbsent} /\ FALSE \in BOOLEAN
  BY DEF Kinds
<1>5. NoFetch \in Fetches /\ NoFetch.pc = "idle"
  BY <1>4 DEF NoFetch, Fetches
<1>6. ovFetch' = [ovFetch EXCEPT ![t] = NoFetch]
  BY Zenon DEF FetchEnds
<1>7. CASE ~k.lazy
  <2>1. UNCHANGED ovSlot
    BY <1>1, <1>7, Zenon DEF FetchEnds, Releases
  <2>2. ovSlot' \in [Kinds -> [OvChannels -> Slots]]
    BY <1>3, <2>1, Zenon DEF LzTypes
  <2>3. LzTypes' /\ ovFetch'[t] = NoFetch /\ \A u \in OvTasks : u # t => ovFetch'[u] = ovFetch[u]
    BY <1>3, <1>5, <1>6, <2>2, FetchReplaced
  <2>4. \A kind \in Kinds, d \in OvChannels, u \in OvTasks : Holds(u, kind, d)' <=> Holds(u, kind, d)
    BY <1>1, <1>5, <1>7, <2>3, Zenon DEF Holds
  <2> QED
    BY <2>1, <2>3, <2>4, MarksKept
<1>8. CASE k.lazy
  <2>1. PICK s : s = [ovSlot[k.kind][k.ch] EXCEPT !.inflight = FALSE]
    OBVIOUS
  <2>2. s \in Slots /\ ~s.inflight
    <3>1. PICK o \in Slots : o = ovSlot[k.kind][k.ch]
      BY <1>3 DEF LzTypes
    <3>2. o.val \in {OvAbsent, 1} /\ s = [val |-> o.val, inflight |-> FALSE]
      BY <2>1, <3>1, Zenon DEF Slots
    <3>3. s \in Slots
      BY <3>2 DEF Slots
    <3>4. ~s.inflight
      BY <3>2, Zenon
    <3> QED
      BY <3>3, <3>4
  <2>3. ovSlot' = [ovSlot EXCEPT ![k.kind][k.ch] = s]
    BY <1>1, <1>8, <2>1, Zenon DEF FetchEnds, Releases
  <2>4. SlotIs(k.kind, k.ch, s)
    BY <1>3, <2>2, <2>3, SlotReplaced
  <2>5. ovSlot' \in [Kinds -> [OvChannels -> Slots]] /\ ovSlot'[k.kind][k.ch] = s
        /\ \A kind \in Kinds, d \in OvChannels : kind # k.kind \/ d # k.ch => ovSlot'[kind][d] = ovSlot[kind][d]
    BY <2>4, Zenon DEF SlotIs
  <2>6. LzTypes' /\ ovFetch'[t] = NoFetch /\ \A u \in OvTasks : u # t => ovFetch'[u] = ovFetch[u]
    BY <1>3, <1>5, <1>6, <2>5, FetchReplaced
  <2>7. Holds(t, k.kind, k.ch)
    BY <1>1, <1>2, <1>8, Zenon DEF Holds
  <2>8. \A u \in OvTasks : ~Holds(u, k.kind, k.ch)'
    <3>1. \A u \in OvTasks : Holds(u, k.kind, k.ch) => u = t
      BY <1>3, <2>7, Zenon DEF LazyInv, Marked
    <3> QED
      BY <1>5, <2>6, <3>1, Zenon DEF Holds
  <2>9. Marked(k.kind, k.ch)'
    BY <2>2, <2>5, <2>8, Zenon DEF Marked
  <2>10. ASSUME NEW kind \in Kinds, NEW d \in OvChannels, kind # k.kind \/ d # k.ch
         PROVE  Marked(kind, d)'
    <3>1. \A u \in OvTasks : Holds(u, kind, d)' <=> Holds(u, kind, d)
      BY <1>1, <1>5, <2>6, <2>10, Zenon DEF Holds
    <3> QED
      BY <2>5, <2>10, <3>1, Zenon DEF LazyInv, Marked
  <2> QED
    BY <2>6, <2>9, <2>10, Zenon DEF LazyInv
<1> QED
  BY <1>7, <1>8

LEMMA LazyKept ==
  ASSUME LazyInv, UNCHANGED lzVars
  PROVE  LazyInv'
<1>1. UNCHANGED <<ovFetch, ovSlot>>
  BY Zenon DEF lzVars
<1>2. LzTypes'
  BY <1>1, Zenon DEF LazyInv, LzTypes
<1>3. \A kind \in Kinds, c \in OvChannels, t \in OvTasks : Holds(t, kind, c)' <=> Holds(t, kind, c)
  BY <1>1, Zenon DEF Holds
<1>4. \A kind \in Kinds, c \in OvChannels : ovSlot'[kind][c].inflight = ovSlot[kind][c].inflight
  BY <1>1, Zenon
<1> QED
  BY <1>2, <1>3, <1>4, MarksKept

(* One mark, one fetch.                                                      *)
LEMMA LazySound ==
  ASSUME LazyInv
  PROVE  LazyFetchesOnce
<1> SUFFICES ASSUME NEW kind \in Kinds, NEW c \in OvChannels
             PROVE  Cardinality({t \in OvTasks : /\ ovFetch[t].pc # "idle" /\ ovFetch[t].lazy
                                                 /\ ovFetch[t].kind = kind /\ ovFetch[t].ch = c})
                      = IF ovSlot[kind][c].inflight THEN 1 ELSE 0
  BY Zenon DEF LazyFetchesOnce
<1>1. PICK holders : holders = {t \in OvTasks : /\ ovFetch[t].pc # "idle" /\ ovFetch[t].lazy
                                                 /\ ovFetch[t].kind = kind /\ ovFetch[t].ch = c}
  OBVIOUS
<1>2. \A t : t \in holders <=> t \in OvTasks /\ Holds(t, kind, c)
  BY <1>1 DEF Holds
<1>3. CASE ovSlot[kind][c].inflight
  <2>1. PICK t \in OvTasks : Holds(t, kind, c)
    BY <1>3, Zenon DEF LazyInv, Marked
  <2>2. \A u \in OvTasks : Holds(u, kind, c) => u = t
    BY <2>1, Zenon DEF LazyInv, Marked
  <2>3. holders = {t}
    BY <1>2, <2>1, <2>2, Zenon
  <2>4. Cardinality(holders) = 1
    BY <2>3, FS_Singleton
  <2> QED
    BY <1>1, <1>3, <2>4, Zenon
<1>4. CASE ~ovSlot[kind][c].inflight
  <2>1. holders = {}
    BY <1>2, <1>4, Zenon DEF LazyInv, Marked
  <2>2. Cardinality(holders) = 0
    BY <2>1, FS_EmptySet
  <2> QED
    BY <1>1, <1>4, <2>2, Zenon
<1> QED
  BY <1>3, <1>4

LEMMA LazyStep ==
  ASSUME LazyInv, LazyNext
  PROVE  LazyInv'
BY JoinFetchStep, LazyFetchStep, AnswerStep, StoreFetchedStep, FetchEndStep, Zenon DEF LazyNext

(* Whatever joins, leaves, sign-ins, dispatches, reconnects, polls and       *)
(* messages overlap: a channel of SevenTVEvents' map is subscribed at the    *)
(* server on a connection that is read, or the message about it is still to  *)
(* be written (two crossing messages excused), a closed subscriber keeps no  *)
(* connection, and a lazy fetch of streams or badges runs once per channel   *)
(* and releases its mark.                                                    *)
THEOREM OverlaysHold == OverlaysSpec => []OverlaysSound
<1>1. OverlaysInit => EmotesInv /\ LazyInv
  BY EmotesStarts, LazyStarts, Zenon DEF OverlaysInit
<1>2. EmotesInv /\ LazyInv /\ [EmotesNext \/ LazyNext \/ WordsNext]_ovVars => (EmotesInv /\ LazyInv)'
  <2> SUFFICES ASSUME EmotesInv, LazyInv, [EmotesNext \/ LazyNext \/ WordsNext]_ovVars
               PROVE  EmotesInv' /\ LazyInv'
    OBVIOUS
  <2>1. CASE EmotesNext
    <3>1. UNCHANGED lzVars
      BY <2>1, Zenon DEF EmotesNext
    <3> QED
      BY <2>1, <3>1, EmotesStep, LazyKept
  <2>2. CASE LazyNext
    <3>1. UNCHANGED emVars
      BY <2>2, Zenon DEF LazyNext
    <3> QED
      BY <2>2, <3>1, LazyStep, EmotesKept
  <2>3. CASE WordsNext \/ UNCHANGED ovVars
    <3>1. UNCHANGED emVars /\ UNCHANGED lzVars
      BY <2>3, Zenon DEF WordsNext, ovVars
    <3> QED
      BY <3>1, EmotesKept, LazyKept
  <2> QED
    BY <2>1, <2>2, <2>3
<1>3. EmotesInv /\ LazyInv => OverlaysSound
  BY EmotesSound, LazySound, Zenon DEF OverlaysSound
<1> QED
  BY <1>1, <1>2, <1>3, PTL DEF OverlaysSpec
=============================================================================
