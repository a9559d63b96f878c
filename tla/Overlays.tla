------------------------------ MODULE Overlays ------------------------------
(***************************************************************************)
(* What the daemon fetches about a channel beside its chat: third-party    *)
(* emote sets (internal/emotes) with their cache and the live updates of   *)
(* 7TV's EventAPI, badge artwork (internal/badges) and the stream's status *)
(* (internal/streams).  All three keep a snapshot per channel that         *)
(* goroutines replace; nothing orders those goroutines.                    *)
(*                                                                         *)
(* Three groups of actions, of disjoint variables: EmotesNext (joins,      *)
(* leaves, sign-ins, refreshes and the EventAPI connection), LazyNext (the *)
(* fetches a poll or a chat message starts) and WordsNext (the pure stage  *)
(* that splits text into emotes).                                          *)
(*                                                                         *)
(* One of the three emote providers is modelled: the others have a cache   *)
(* row of their own and the same steps.  Of an emote list the model keeps  *)
(* the version of the channel's own set that is in it, or OvAbsent when it *)
(* is not (the channel has no id yet, or the request failed).              *)
(***************************************************************************)
EXTENDS Integers, Sequences, SequencesExt, FiniteSets

CONSTANTS
  OvChannels,       \* channels, each with a platform id once it is resolved
  OvTasks,          \* goroutines that may run at once
  OvTTL,            \* emotes.DefaultTTL
  OvAbsent,         \* no emote set, no cache row, no status
  MaxOvNow, MaxOvVersion, MaxOvDials, MaxOvStarts,   \* bounds
  OvChars,          \* characters of a message, " " among them
  OvGroups,         \* what the providers may return, in precedence order
  MaxOvText         \* longest text segment

ASSUME OverlaysAssumption ==
  /\ OvTTL \in Nat /\ MaxOvNow \in Nat /\ MaxOvVersion \in Nat
  /\ MaxOvDials \in Nat /\ MaxOvStarts \in Nat /\ MaxOvText \in Nat
  /\ OvAbsent \notin Nat

VARIABLES
  ovNow,        \* the clock
  ovRemote,     \* version of each channel's 7TV set
  ovCache,      \* emote_sets rows: per channel id, and one for refs without id
  ovSets,       \* Resolver.sets: the published snapshots
  ovJoined,     \* channels the engine has joined
  ovTask,       \* goroutines of Join, Leave, the sign-in hook and dispatches
  ovChans,      \* SevenTVEvents.channels
  ovConn,       \* SevenTVEvents.conn: number of a connection, 0 for nil
  ovRun,        \* where SevenTVEvents.run is
  ovTodo,       \* channels connect has still to subscribe
  ovDials,      \* connections made
  ovOpen,       \* the last of them is open
  ovSubs,       \* channels it is subscribed to at the server
  ovInbox,      \* channels whose change the server has told it of
  ovCancelled,  \* Close has cancelled the context
  ovStarts,     \* tasks started
  ovRaced,      \* history: channels with two unwritten subscription changes
  ovTold,       \* history: version the last handled dispatch was about
  ovSlot,       \* stream and badge snapshots, with their in-flight marks
  ovFetch,      \* goroutines that fetch them
  ovText, ovGroup, ovOut   \* a message, the emote lists, the stage's result

emVars == <<ovNow, ovRemote, ovCache, ovSets, ovJoined, ovTask, ovChans, ovConn,
            ovRun, ovTodo, ovDials, ovOpen, ovSubs, ovInbox, ovCancelled,
            ovStarts, ovRaced, ovTold>>
lzVars == <<ovSlot, ovFetch>>
wdVars == <<ovText, ovGroup, ovOut>>
ovVars == <<emVars, lzVars, wdVars>>

Idle == [kind |-> "none", pc |-> "idle", ch |-> OvAbsent, id |-> FALSE,
         list |-> OvAbsent, conn |-> 0, rest |-> {}]

-----------------------------------------------------------------------------
\* Requests and the sign-in hook start goroutines.

Free == {t \in OvTasks : ovTask[t].pc = "idle"}
MayStart == Free # {} /\ ovStarts < MaxOvStarts /\ ovStarts' = ovStarts + 1

\* channelControl.Join: the engine joins, a goroutine warms the emotes.
JoinWarms(t, c) ==
  /\ MayStart /\ t \in Free /\ c \notin ovJoined
  /\ ovJoined' = ovJoined \cup {c}
  /\ ovTask' = [ovTask EXCEPT ![t] = [Idle EXCEPT !.kind = "join", !.pc = "resolve", !.ch = c]]
  /\ UNCHANGED <<ovNow, ovRemote, ovCache, ovSets, ovChans, ovConn, ovRun, ovTodo, ovDials,
                 ovOpen, ovSubs, ovInbox, ovCancelled, ovRaced, ovTold>>

\* channelControl.Leave: the engine leaves, then the handler unsubscribes.
LeaveUnsubscribes(t, c) ==
  /\ MayStart /\ t \in Free /\ c \in ovJoined
  /\ ovJoined' = ovJoined \ {c}
  /\ ovTask' = [ovTask EXCEPT ![t] = [Idle EXCEPT !.kind = "leave", !.pc = "section", !.ch = c]]
  /\ UNCHANGED <<ovNow, ovRemote, ovCache, ovSets, ovChans, ovConn, ovRun, ovTodo, ovDials,
                 ovOpen, ovSubs, ovInbox, ovCancelled, ovRaced, ovTold>>

\* The goroutine goes on to the next channel of its list, or ends.
Ended(k) ==
  IF k.rest = {} THEN {Idle}
  ELSE {[Idle EXCEPT !.kind = "auth", !.pc = "resolve", !.ch = c, !.rest = k.rest \ {c}] :
          c \in k.rest}

\* authTwitch: one goroutine goes through the channels the engine has.
SignInWarms(t) ==
  /\ MayStart /\ t \in Free /\ ovJoined # {}
  /\ \E k \in Ended([rest |-> ovJoined]) : ovTask' = [ovTask EXCEPT ![t] = k]
  /\ UNCHANGED <<ovNow, ovRemote, ovCache, ovSets, ovJoined, ovChans, ovConn, ovRun, ovTodo,
                 ovDials, ovOpen, ovSubs, ovInbox, ovCancelled, ovRaced, ovTold>>

\* The id resolves or not: Join refreshes without it, the hook goes on.
ResolveId(t) ==
  /\ ovTask[t].pc = "resolve"
  /\ \/ ovTask' = [ovTask EXCEPT ![t] = [@ EXCEPT !.id = TRUE, !.pc = "get"]]
     \/ ovTask[t].kind = "join" /\ ovTask' = [ovTask EXCEPT ![t] = [@ EXCEPT !.pc = "get"]]
     \/ /\ ovTask[t].kind = "auth"
        /\ \E k \in Ended(ovTask[t]) : ovTask' = [ovTask EXCEPT ![t] = k]
  /\ UNCHANGED <<ovNow, ovRemote, ovCache, ovSets, ovJoined, ovChans, ovConn, ovRun, ovTodo,
                 ovDials, ovOpen, ovSubs, ovInbox, ovCancelled, ovStarts, ovRaced, ovTold>>

-----------------------------------------------------------------------------
\* Resolver.Refresh through cachingProvider.Fetch.

CacheKey(k) == IF k.id THEN k.ch ELSE OvAbsent
FreshRow(row) == row # OvAbsent /\ ovNow - row.at < OvTTL

\* A fresh row is served without the network.
GetCached(t) ==
  /\ ovTask[t].pc = "get"
  /\ LET row == ovCache[CacheKey(ovTask[t])]
     IN ovTask' = [ovTask EXCEPT ![t] =
          IF FreshRow(row) THEN [@ EXCEPT !.pc = "store", !.list = row.list]
          ELSE [@ EXCEPT !.pc = "fetch"]]
  /\ UNCHANGED <<ovNow, ovRemote, ovCache, ovSets, ovJoined, ovChans, ovConn, ovRun, ovTodo,
                 ovDials, ovOpen, ovSubs, ovInbox, ovCancelled, ovStarts, ovRaced, ovTold>>

\* sevenTV.Fetch: a request that fails leaves its part out of the list, and
\* the list is returned without an error.
FetchSets(t) ==
  /\ ovTask[t].pc = "fetch"
  /\ \/ ovTask' = [ovTask EXCEPT ![t] = [@ EXCEPT !.pc = "put"]]
     \/ /\ ovTask[t].id
        /\ ovTask' = [ovTask EXCEPT ![t] = [@ EXCEPT !.pc = "put", !.list = ovRemote[ovTask[t].ch]]]
  /\ UNCHANGED <<ovNow, ovRemote, ovCache, ovSets, ovJoined, ovChans, ovConn, ovRun, ovTodo,
                 ovDials, ovOpen, ovSubs, ovInbox, ovCancelled, ovStarts, ovRaced, ovTold>>

PutCached(t) ==
  /\ ovTask[t].pc = "put"
  /\ ovCache' = [ovCache EXCEPT ![CacheKey(ovTask[t])] = [list |-> ovTask[t].list, at |-> ovNow]]
  /\ ovTask' = [ovTask EXCEPT ![t] = [@ EXCEPT !.pc = "store"]]
  /\ UNCHANGED <<ovNow, ovRemote, ovSets, ovJoined, ovChans, ovConn, ovRun, ovTodo, ovDials,
                 ovOpen, ovSubs, ovInbox, ovCancelled, ovStarts, ovRaced, ovTold>>

\* The snapshot is published; a warmed channel with an id is subscribed next.
StoreSet(t) ==
  /\ ovTask[t].pc = "store"
  /\ ovSets' = [ovSets EXCEPT ![ovTask[t].ch] = ovTask[t].list]
  /\ IF ovTask[t].id /\ ovTask[t].kind \in {"join", "auth"}
     THEN ovTask' = [ovTask EXCEPT ![t] = [@ EXCEPT !.pc = "section", !.list = OvAbsent]]
     ELSE \E k \in Ended(ovTask[t]) : ovTask' = [ovTask EXCEPT ![t] = k]
  /\ UNCHANGED <<ovNow, ovRemote, ovCache, ovJoined, ovChans, ovConn, ovRun, ovTodo, ovDials,
                 ovOpen, ovSubs, ovInbox, ovCancelled, ovStarts, ovRaced, ovTold>>

-----------------------------------------------------------------------------
\* SevenTVEvents.Subscribe and Unsubscribe: the map changes under the lock,
\* the message is written after it, on the connection seen under it.

\* The channel's map entry changed, so the server must be told.
Changed(k) == (k.kind = "leave") = (k.ch \in ovChans)
Unwritten(c) == \E t \in OvTasks : ovTask[t].pc = "write" /\ ovTask[t].ch = c

SubscriptionSection(t) ==
  LET k == ovTask[t] IN
  /\ k.pc = "section"
  /\ ovChans' = IF k.kind = "leave" THEN ovChans \ {k.ch} ELSE ovChans \cup {k.ch}
  /\ ovRaced' = IF Unwritten(k.ch) THEN ovRaced \cup {k.ch} ELSE ovRaced
  /\ IF Changed(k) /\ ovConn # 0
     THEN ovTask' = [ovTask EXCEPT ![t] = [@ EXCEPT !.pc = "write", !.conn = ovConn]]
     ELSE \E e \in Ended(k) : ovTask' = [ovTask EXCEPT ![t] = e]
  /\ UNCHANGED <<ovNow, ovRemote, ovCache, ovSets, ovJoined, ovConn, ovRun, ovTodo, ovDials,
                 ovOpen, ovSubs, ovInbox, ovCancelled, ovStarts, ovTold>>

\* writeSub: lost, without a word, on a connection that is gone.
WriteSub(t) ==
  LET k == ovTask[t]
      lost == k.conn # ovDials \/ ~ovOpen \/ ovCancelled
  IN
  /\ k.pc = "write"
  /\ ovSubs' = IF lost THEN ovSubs
               ELSE IF k.kind = "leave" THEN ovSubs \ {k.ch} ELSE ovSubs \cup {k.ch}
  /\ \E e \in Ended(k) : ovTask' = [ovTask EXCEPT ![t] = e]
  /\ UNCHANGED <<ovNow, ovRemote, ovCache, ovSets, ovJoined, ovChans, ovConn, ovRun, ovTodo,
                 ovDials, ovOpen, ovInbox, ovCancelled, ovStarts, ovRaced, ovTold>>

-----------------------------------------------------------------------------
\* SevenTVEvents.run and connect.

\* A connection that trusts the server to remember.
ResubscribesNone(chans) == {}
\* What a new connection subscribes: every channel of the map.
Resubscribes(chans) == chans

\* The dial fails, or the connection is published together with the list of
\* channels it must subscribe.
Connect ==
  /\ ovRun = "dial" /\ ~ovCancelled
  /\ \/ /\ ovRun' = "backoff"
        /\ UNCHANGED <<ovConn, ovDials, ovOpen, ovSubs, ovTodo, ovInbox>>
     \/ /\ ovDials < MaxOvDials
        /\ ovDials' = ovDials + 1 /\ ovConn' = ovDials + 1 /\ ovOpen' = TRUE
        /\ ovSubs' = {} /\ ovInbox' = {}
        /\ ovTodo' = Resubscribes(ovChans)
        /\ ovRun' = "resubscribe"
  /\ UNCHANGED <<ovNow, ovRemote, ovCache, ovSets, ovJoined, ovTask, ovChans, ovCancelled,
                 ovStarts, ovRaced, ovTold>>

Resubscribe ==
  /\ ovRun = "resubscribe"
  /\ IF ovTodo = {} THEN ovRun' = "read" /\ UNCHANGED <<ovSubs, ovTodo>>
     ELSE \E c \in ovTodo :
            /\ ovTodo' = ovTodo \ {c}
            /\ ovSubs' = IF ovOpen /\ ~ovCancelled THEN ovSubs \cup {c} ELSE ovSubs
            /\ UNCHANGED ovRun
  /\ UNCHANGED <<ovNow, ovRemote, ovCache, ovSets, ovJoined, ovTask, ovChans, ovConn, ovDials,
                 ovOpen, ovInbox, ovCancelled, ovStarts, ovRaced, ovTold>>

\* The read fails: the connection is unpublished and closed.
EventsReadFails ==
  /\ ovRun = "read" /\ (~ovOpen \/ ovCancelled)
  /\ ovConn' = 0 /\ ovOpen' = FALSE /\ ovSubs' = {} /\ ovInbox' = {}
  /\ ovRun' = IF ovCancelled THEN "stopped" ELSE "backoff"
  /\ UNCHANGED <<ovNow, ovRemote, ovCache, ovSets, ovJoined, ovTask, ovChans, ovTodo, ovDials,
                 ovCancelled, ovStarts, ovRaced, ovTold>>

\* The backoff timer, or the cancelled context.
RunOn ==
  /\ ovRun \in {"backoff", "dial"}
  /\ IF ovCancelled THEN ovRun' = "stopped" ELSE ovRun = "backoff" /\ ovRun' = "dial"
  /\ UNCHANGED <<ovNow, ovRemote, ovCache, ovSets, ovJoined, ovTask, ovChans, ovConn, ovTodo,
                 ovDials, ovOpen, ovSubs, ovInbox, ovCancelled, ovStarts, ovRaced, ovTold>>

\* handle, op 0: a goroutine per channel of the map refreshes it.
Dispatched ==
  /\ ovRun = "read" /\ ovOpen /\ ~ovCancelled /\ ovInbox # {}
  /\ ovInbox' = {}
  /\ \E at \in [ovChans -> Free] :
       /\ IsInjective(at)
       /\ ovTask' = [t \in OvTasks |->
            IF \E c \in ovChans : at[c] = t
            THEN [Idle EXCEPT !.kind = "dispatch", !.pc = "get", !.id = TRUE,
                              !.ch = CHOOSE c \in ovChans : at[c] = t]
            ELSE ovTask[t]]
  /\ ovTold' = [c \in OvChannels |-> IF c \in ovInbox THEN ovRemote[c] ELSE ovTold[c]]
  /\ UNCHANGED <<ovNow, ovRemote, ovCache, ovSets, ovJoined, ovChans, ovConn, ovRun, ovTodo,
                 ovDials, ovOpen, ovSubs, ovCancelled, ovStarts, ovRaced>>

\* The connection breaks, or the server asks for a reconnect (op 4).
ConnectionEnds ==
  /\ ovOpen /\ ovOpen' = FALSE /\ ovSubs' = {} /\ ovInbox' = {}
  /\ UNCHANGED <<ovNow, ovRemote, ovCache, ovSets, ovJoined, ovTask, ovChans, ovConn, ovRun,
                 ovTodo, ovDials, ovCancelled, ovStarts, ovRaced, ovTold>>

\* A streamer changes the set; the server tells its subscribers.
SetChanges(c) ==
  /\ ovRemote[c] < MaxOvVersion
  /\ ovRemote' = [ovRemote EXCEPT ![c] = @ + 1]
  /\ ovInbox' = IF ovOpen /\ c \in ovSubs THEN ovInbox \cup {c} ELSE ovInbox
  /\ UNCHANGED <<ovNow, ovCache, ovSets, ovJoined, ovTask, ovChans, ovConn, ovRun, ovTodo,
                 ovDials, ovOpen, ovSubs, ovCancelled, ovStarts, ovRaced, ovTold>>

EventsClose ==
  /\ ~ovCancelled /\ ovCancelled' = TRUE
  /\ UNCHANGED <<ovNow, ovRemote, ovCache, ovSets, ovJoined, ovTask, ovChans, ovConn, ovRun,
                 ovTodo, ovDials, ovOpen, ovSubs, ovInbox, ovStarts, ovRaced, ovTold>>

EmoteClock ==
  /\ ovNow < MaxOvNow /\ ovNow' = ovNow + 1
  /\ UNCHANGED <<ovRemote, ovCache, ovSets, ovJoined, ovTask, ovChans, ovConn, ovRun, ovTodo,
                 ovDials, ovOpen, ovSubs, ovInbox, ovCancelled, ovStarts, ovRaced, ovTold>>

EmotesInit ==
  /\ ovNow = 0 /\ ovRemote = [c \in OvChannels |-> 0]
  /\ ovCache = [c \in OvChannels \cup {OvAbsent} |-> OvAbsent]
  /\ ovSets = [c \in OvChannels |-> OvAbsent]
  /\ ovJoined = {} /\ ovTask = [t \in OvTasks |-> Idle] /\ ovChans = {}
  /\ ovConn = 0 /\ ovRun = "dial" /\ ovTodo = {} /\ ovDials = 0 /\ ovOpen = FALSE
  /\ ovSubs = {} /\ ovInbox = {} /\ ovCancelled = FALSE /\ ovStarts = 0
  /\ ovRaced = {} /\ ovTold = [c \in OvChannels |-> 0]

EmotesNext ==
  /\ \/ \E t \in OvTasks, c \in OvChannels : JoinWarms(t, c) \/ LeaveUnsubscribes(t, c)
     \/ \E t \in OvTasks :
          \/ SignInWarms(t) \/ ResolveId(t) \/ GetCached(t) \/ FetchSets(t)
          \/ PutCached(t) \/ StoreSet(t) \/ SubscriptionSection(t) \/ WriteSub(t)
     \/ Connect \/ Resubscribe \/ EventsReadFails \/ RunOn \/ Dispatched \/ ConnectionEnds
     \/ \E c \in OvChannels : SetChanges(c)
     \/ EventsClose \/ EmoteClock
  /\ UNCHANGED <<lzVars, wdVars>>

-----------------------------------------------------------------------------
\* Stream status and badge artwork, fetched when they are asked for.

Kinds == {"stream", "badge"}
NoFetch == [pc |-> "idle", kind |-> "stream", ch |-> OvAbsent, lazy |-> FALSE, got |-> OvAbsent]
FetchFree == {t \in OvTasks : ovFetch[t].pc = "idle"}

\* channelControl.Join refreshes both, whatever is in flight.
JoinFetches(t, kind, c) ==
  /\ t \in FetchFree
  /\ ovFetch' = [ovFetch EXCEPT ![t] = [pc |-> "fetch", kind |-> kind, ch |-> c,
                                        lazy |-> FALSE, got |-> OvAbsent]]
  /\ UNCHANGED ovSlot

\* EnsureFresh on a poll of /v1/streams, badges.Stage.Annotate on a message:
\* one fetch per channel, when what is held is missing or, for a status, may
\* have outlived its TTL.
EnsureFresh(t, kind, c) ==
  /\ t \in FetchFree /\ ~ovSlot[kind][c].inflight
  /\ kind = "badge" => ovSlot[kind][c].val = OvAbsent
  /\ ovSlot' = [ovSlot EXCEPT ![kind][c].inflight = TRUE]
  /\ ovFetch' = [ovFetch EXCEPT ![t] = [pc |-> "fetch", kind |-> kind, ch |-> c,
                                        lazy |-> TRUE, got |-> OvAbsent]]

\* The provider answers or fails.  A failure leaves a status as it was and
\* publishes an empty badge set.
ProviderAnswers(t) ==
  /\ ovFetch[t].pc = "fetch"
  /\ \/ ovFetch' = [ovFetch EXCEPT ![t] = [@ EXCEPT !.pc = "store", !.got = 1]]
     \/ ovFetch' = [ovFetch EXCEPT ![t] = [@ EXCEPT !.pc =
                      IF ovFetch[t].kind = "stream" THEN "release" ELSE "store"]]
  /\ UNCHANGED ovSlot

StoreFetched(t) ==
  /\ ovFetch[t].pc = "store"
  /\ ovSlot' = [ovSlot EXCEPT ![ovFetch[t].kind][ovFetch[t].ch].val = ovFetch[t].got]
  /\ ovFetch' = [ovFetch EXCEPT ![t] = [@ EXCEPT !.pc = "release"]]

\* Every fetch clears the mark, a join's too.
ReleasesAny(f) == TRUE
\* Only the fetch that set the mark clears it.
Releases(f) == f.lazy

FetchEnds(t) ==
  /\ ovFetch[t].pc = "release"
  /\ ovSlot' = IF Releases(ovFetch[t])
               THEN [ovSlot EXCEPT ![ovFetch[t].kind][ovFetch[t].ch].inflight = FALSE] ELSE ovSlot
  /\ ovFetch' = [ovFetch EXCEPT ![t] = NoFetch]

LazyInit ==
  /\ ovSlot = [k \in Kinds |-> [c \in OvChannels |-> [val |-> OvAbsent, inflight |-> FALSE]]]
  /\ ovFetch = [t \in OvTasks |-> NoFetch]

LazyNext ==
  /\ \E t \in OvTasks :
       \/ \E kind \in Kinds, c \in OvChannels : JoinFetches(t, kind, c) \/ EnsureFresh(t, kind, c)
       \/ ProviderAnswers(t) \/ StoreFetched(t) \/ FetchEnds(t)
  /\ UNCHANGED <<emVars, wdVars>>

-----------------------------------------------------------------------------
\* merge and the emote stage.

\* merge: the first group that has a name wins; empty names are left out.
Known(groups) == {e \in UNION {ToSet(groups[g]) : g \in DOMAIN groups} : e.name # <<>>}
MergeSets(groups) ==
  [n \in {e.name : e \in Known(groups)} |->
     LET g == CHOOSE g \in DOMAIN groups :
                /\ \E e \in ToSet(groups[g]) : e.name = n
                /\ \A h \in 1..(g - 1) : \A e \in ToSet(groups[h]) : e.name # n
     IN CHOOSE e \in ToSet(groups[g]) : e.name = n]

Piece(kind, text) == [kind |-> kind, text |-> text, from |-> OvAbsent]
FlushText(st) == IF st.buf = <<>> THEN st.segs ELSE Append(st.segs, Piece("text", st.buf))

\* The plain text before an emote is not flushed first.
EndWordKeepsBuffer(st, set) ==
  IF st.word \in DOMAIN set
  THEN [segs |-> Append(st.segs, [kind |-> "emote", text |-> st.word, from |-> set[st.word].from]),
        buf |-> st.buf, word |-> <<>>]
  ELSE [st EXCEPT !.buf = @ \o st.word, !.word = <<>>]
\* applyEmotes, after a whole word: an emote of its own, or more plain text.
EndWord(st, set) ==
  IF st.word \in DOMAIN set
  THEN [segs |-> Append(FlushText(st), [kind |-> "emote", text |-> st.word, from |-> set[st.word].from]),
        buf |-> <<>>, word |-> <<>>]
  ELSE [st EXCEPT !.buf = @ \o st.word, !.word = <<>>]

ApplyEmotes(text, set) ==
  LET step(st, ch) == IF ch = " " THEN [EndWord(st, set) EXCEPT !.buf = Append(@, " ")]
                      ELSE [st EXCEPT !.word = Append(@, ch)]
      walked == FoldLeft(step, [segs |-> <<>>, buf |-> <<>>, word |-> <<>>], text)
  IN FlushText(EndWord(walked, set))

\* Stage.Annotate: text segments that hold an emote are split, the rest stay.
AnnotateEmotes(segs, set) ==
  FlattenSeq([i \in DOMAIN segs |->
     LET split == IF segs[i].kind = "text" THEN ApplyEmotes(segs[i].text, set) ELSE <<>>
     IN IF \E s \in ToSet(split) : s.kind = "emote" THEN split ELSE <<segs[i]>>])

WordsInit ==
  /\ ovText \in {<<>>} \cup {<<Piece("link", <<"a">>), Piece("text", t)>> : t \in SeqOf(OvChars, MaxOvText)}
  /\ ovGroup \in OvGroups /\ ovOut = <<>>

WordsNext ==
  /\ ovText # <<>> /\ ovOut = <<>>
  /\ ovOut' = AnnotateEmotes(ovText, MergeSets(ovGroup))
  /\ UNCHANGED <<emVars, lzVars, ovText, ovGroup>>

OverlaysInit == EmotesInit /\ LazyInit /\ WordsInit
OverlaysSpec == OverlaysInit /\ [][EmotesNext \/ LazyNext \/ WordsNext]_ovVars

-----------------------------------------------------------------------------

OverlaysTypeOK ==
  /\ ovRun \in {"dial", "resubscribe", "read", "backoff", "stopped"}
  /\ ovConn \in {0, ovDials} /\ ovDials \in 0..MaxOvDials
  /\ ovChans \subseteq OvChannels /\ ovSubs \subseteq OvChannels /\ ovTodo \subseteq OvChannels
  /\ \A c \in OvChannels : ovSets[c] \in {OvAbsent} \cup 0..MaxOvVersion

\* While the EventAPI connection is read, every channel of the map is
\* subscribed at the server, through joins, leaves, sign-ins and reconnects
\* that overlap, once the messages about it are written: the map and the
\* connection are read under one lock (Subscribe, connect), so a channel
\* added during a dial is in one of the two lists.  Excused are channels
\* with two changes unwritten at once, whose messages may cross.  And a
\* closed subscriber keeps no connection.
ChannelsSubscribed ==
  /\ (ovRun = "read" /\ ovOpen /\ ~ovCancelled) =>
       \A c \in ovChans \ ovRaced : Unwritten(c) \/ c \in ovSubs
  /\ ovRun = "stopped" => ovConn = 0 /\ ~ovOpen

\* A lazy fetch is in flight exactly when its mark is set, and there is one
\* per channel: a failed fetch does not leave the mark behind, and a join's
\* own fetch neither takes nor clears it (streams.EnsureFresh, badges.Stage).
LazyFetchesOnce ==
  \A kind \in Kinds, c \in OvChannels :
    Cardinality({t \in OvTasks : /\ ovFetch[t].pc # "idle" /\ ovFetch[t].lazy
                                 /\ ovFetch[t].kind = kind /\ ovFetch[t].ch = c})
      = IF ovSlot[kind][c].inflight THEN 1 ELSE 0

\* The emote stage loses and reorders nothing: the pieces still concatenate
\* to the message, an emote piece is a whole word with the entry of the first
\* provider that has it, no whole word that is an emote stays in plain text,
\* and no empty piece or pair of adjoining plain pieces is made.
EmoteWords ==
  LET set == MergeSets(ovGroup)
      all == FlattenSeq([i \in DOMAIN ovOut |-> ovOut[i].text])
      start(i) == Len(FlattenSeq([j \in 1..(i - 1) |-> ovOut[j].text]))
      spaceAt(p) == p < 1 \/ p > Len(all) \/ all[p] = " "
      \* p..q is a whole word of the text segment, which starts at position 2
      word(p, q) ==
        /\ spaceAt(p - 1) \/ p = 2
        /\ spaceAt(q + 1)
        /\ \A r \in p..q : all[r] # " "
  IN ovOut # <<>> =>
     /\ all = FlattenSeq([i \in DOMAIN ovText |-> ovText[i].text])
     /\ ovOut[1] = ovText[1]
     /\ \A i \in 2..Len(ovOut) :
          /\ ovOut[i].kind = "emote" =>
               /\ word(start(i) + 1, start(i) + Len(ovOut[i].text))
               /\ \E g \in DOMAIN ovGroup :
                    /\ \E e \in ToSet(ovGroup[g]) : e.name = ovOut[i].text /\ e.from = ovOut[i].from
                    /\ \A h \in 1..(g - 1) : \A e \in ToSet(ovGroup[h]) : e.name # ovOut[i].text
          /\ ovOut[i].kind = "text" =>
               \A p, q \in (start(i) + 1)..(start(i) + Len(ovOut[i].text)) :
                 p <= q /\ word(p, q) => SubSeq(all, p, q) \notin DOMAIN set
          /\ i > 2 /\ ovText[2].text # <<>> => ovOut[i].text # <<>> /\ {ovOut[i].kind, ovOut[i - 1].kind} # {"text"}

\* "push-based emote-set invalidation so streamer emote changes take effect
\* immediately instead of waiting for the 24h REST poll cycle" (wire.go):
\* once the refreshes a dispatch started are done, the channel's snapshot is
\* at least as new as the change the dispatch was about.
LiveEmotes ==
  (\A t \in OvTasks : ovTask[t].pc = "idle") =>
    \A c \in ovChans : ovSets[c] # OvAbsent => ovSets[c] >= ovTold[c]

\* What is fetched beside chat keeps up with the channels: every channel of the
\* map is subscribed to live updates on a connection that is read, and a lazy
\* fetch is made once and its mark released.
OverlaysSound == OverlaysTypeOK /\ ChannelsSubscribed /\ LazyFetchesOnce
=============================================================================
