------------------------------ MODULE Activity -------------------------------
(* What the daemon derives from the chat of one channel: the first-message    *)
(* mark of engine.ingest, the rate stage (velocity), the statistics window    *)
(* (stats), the detector of moments and the in-memory scrollback.             *)
(*                                                                            *)
(* All of them keep their state by channel, so the model has one channel.     *)
(* Rates are counts in a window; shares and baselines, floating-point numbers *)
(* in the code, are integers in units of 1/Scale.                             *)
EXTENDS Integers, Sequences, SequencesExt, FiniteSets, FiniteSetsExt

CONSTANTS
  Authors, Privileged,      \* chatters, and those with a badge of a priority lane
  SeenCap,                  \* seenCapPerChannel
  StatsWindow, RateWindow, MomentWindow,   \* the three windowSeconds
  RateThreshold,               \* velocity.DefaultThreshold
  ScrollCap,                \* maxPerChannel
  ExcerptSize, MinSpike, SpikeFactor, CloseQuiet, Cooldown, MinDuration, IdleTimeout,
  AlphaInverse,             \* 1 / baselineAlpha
  Scale,                    \* a multiple of every count that divides
  MaxFeed, MaxTime, MaxDeleted   \* bounds of the instance

ASSUME ActivityConstants ==
  /\ Privileged \subseteq Authors
  /\ {SeenCap, StatsWindow, RateWindow, MomentWindow, ScrollCap, ExcerptSize, MinSpike,
      SpikeFactor, CloseQuiet, AlphaInverse, Scale} \subseteq Nat \ {0}
  /\ {RateThreshold, Cooldown, MinDuration, IdleTimeout, MaxFeed, MaxTime, MaxDeleted} \subseteq Nat
  /\ \A n \in 1 .. MaxFeed : Scale % n = 0
  /\ MomentWindow <= IdleTimeout

VARIABLES
  avNow,       \* the clock, in seconds
  avSeen,      \* Engine.seen of the channel
  avRate,      \* velocity.channelRate
  avStats,     \* stats.channelStats
  avSpike,     \* moments.channelState
  avScroll,    \* Ring.byChannel of the channel
  avTicked,    \* the second of the last tick of the detector
  avFeed,      \* history: the messages so far, [at, by, share, kept]
  avDeleted,   \* history: the messages deleted so far
  avMoments    \* history: the moments that were persisted

avVars == <<avNow, avSeen, avRate, avStats, avSpike, avScroll, avTicked, avFeed, avDeleted, avMoments>>

EmptyRing(window, bucket) == [i \in 0 .. window - 1 |-> bucket]
\* No state is kept for the channel: nothing was said, or it was dropped when idle.
NoSpike == [buckets |-> EmptyRing(MomentWindow, [sec |-> 0, count |-> 0]), lastSeen |-> 0, known |-> FALSE,
            baseline |-> 0, recent |-> <<>>, inSpike |-> FALSE, moment |-> [id |-> 0], quiet |-> 0,
            cooldownUntil |-> 0]

ActivityInit ==
  /\ avNow = 1 /\ avTicked = 0
  /\ avSeen = {}
  /\ avRate = [buckets |-> EmptyRing(RateWindow, [sec |-> 0, count |-> 0]), first |-> 0, keep |-> 0]
  /\ avStats = EmptyRing(StatsWindow, [sec |-> 0, count |-> 0, authors |-> {}, used |-> FALSE])
  /\ avSpike = NoSpike
  /\ avScroll = <<>> /\ avFeed = <<>> /\ avDeleted = {} /\ avMoments = <<>>

-----------------------------------------------------------------------------
(* Rings of one bucket for each second, at the second modulo the window. *)

\* The bucket of second now, emptied when it still holds an older second.
Fresh(b, now, empty) == IF b.sec = now THEN b ELSE empty
InWindow(b, now, window) == now - b.sec < window /\ b.sec <= now
\* The sum of f[i] over S, as so many pairs for each i.
SumOf(f, S) == Cardinality(UNION {{i} \X (1 .. f[i]) : i \in S})
Counts(ring) == [i \in DOMAIN ring |-> ring[i].count]
Total(ring, now, window) == SumOf(Counts(ring), {i \in DOMAIN ring : InWindow(ring[i], now, window)})

\* channelRate.record, and the rate as a fraction: Total over the elapsed span.
RateRecord(ring, now) ==
  [ring EXCEPT ![now % RateWindow] =
    [sec |-> now, count |-> Fresh(@, now, [sec |-> now, count |-> 0]).count + 1]]
Span(first, now) == Min({now - first + 1, RateWindow})

\* A bug for comparison: a bucket is not emptied when the ring comes round.
StatsRecordStale(ring, now, author) ==
  [ring EXCEPT ![now % StatsWindow] = [sec |-> now, count |-> @.count + 1, authors |-> @.authors \cup {author}, used |-> TRUE]]
\* channelStats.record
StatsRecord(ring, now, author) ==
  [ring EXCEPT ![now % StatsWindow] =
    LET b == Fresh(@, now, [sec |-> now, count |-> 0, authors |-> {}, used |-> TRUE]) IN
      [sec |-> now, count |-> b.count + 1, authors |-> b.authors \cup {author}, used |-> TRUE]]
\* channelStats.active: some bucket is in the window.
Counted(ring, now) == {i \in DOMAIN ring : ring[i].used /\ InWindow(ring[i], now, StatsWindow)}
\* channelStats.snapshot: the messages and the chatters of the window.
StatsSnapshot(ring, now) ==
  [total |-> SumOf(Counts(ring), Counted(ring, now)),
   chatters |-> UNION {ring[i].authors : i \in Counted(ring, now)}]
\* emit: the statistics of an active channel are submitted every second.
StatsEmit(ring, now) == IF Counted(ring, now) = {} THEN {} ELSE {StatsSnapshot(ring, now)}

\* channelState.record and remember, from Detector.Consume.
SpikeRecord(cs, now, m) ==
  [cs EXCEPT !.buckets[now % MomentWindow] =
               [sec |-> now, count |-> Fresh(@, now, [sec |-> now, count |-> 0]).count + 1],
             !.lastSeen = now, !.known = TRUE,
             !.recent = LET all == Append(@, m) IN IF Len(all) > ExcerptSize THEN Tail(all) ELSE all]

-----------------------------------------------------------------------------
(* A message. *)

\* Engine.markFirstTime.
FirstTime(author) == author \notin avSeen /\ Cardinality(avSeen) < SeenCap

\* velocity.isPriority
IsPriority(author) == FirstTime(author) \/ author \in Privileged

\* A bug for comparison: the fraction is not carried over.
AdmitForgets(keep, share) == [kept |-> keep + share >= Scale, keep |-> IF keep + share >= Scale THEN 0 ELSE keep + share]
\* The accumulator of proportional keeping.
Admit(keep, share) ==
  [kept |-> keep + share >= Scale, keep |-> IF keep + share >= Scale THEN keep + share - Scale ELSE keep + share]

\* Stage.Annotate of velocity: the ring, and whether the message is shown.
Annotate(author) ==
  LET first == IF avRate.first = 0 THEN avNow ELSE avRate.first
      ring == RateRecord(avRate.buckets, avNow)
      total == Total(ring, avNow, RateWindow)
      calm == RateThreshold = 0 \/ total <= RateThreshold * Span(first, avNow)
      share == (RateThreshold * Span(first, avNow) * Scale) \div total
      admit == Admit(avRate.keep, share) IN
    IF calm THEN [rate |-> [buckets |-> ring, first |-> first, keep |-> 0], kept |-> TRUE, share |-> -1]
    ELSE IF IsPriority(author)
      THEN [rate |-> [buckets |-> ring, first |-> first, keep |-> avRate.keep], kept |-> TRUE, share |-> 0]
    ELSE [rate |-> [buckets |-> ring, first |-> first, keep |-> admit.keep], kept |-> admit.kept, share |-> share]

\* Ring.add: the oldest messages go when there are too many.
ScrollAdd(buf, m) ==
  LET all == Append(buf, m) IN IF Len(all) > ScrollCap THEN SubSeq(all, Len(all) - ScrollCap + 1, Len(all)) ELSE all

\* A message is ingested, annotated and consumed by the sinks, in this order.
Receive(author) ==
  LET id == Len(avFeed) + 1
      shown == Annotate(author) IN
    /\ Len(avFeed) < MaxFeed
    /\ avSeen' = IF FirstTime(author) THEN avSeen \cup {author} ELSE avSeen
    /\ avRate' = shown.rate
    /\ avStats' = StatsRecord(avStats, avNow, author)
    /\ avSpike' = SpikeRecord(avSpike, avNow, id)
    /\ avScroll' = ScrollAdd(avScroll, [id |-> id, deleted |-> FALSE])
    /\ avFeed' = Append(avFeed, [at |-> avNow, by |-> author, share |-> shown.share, kept |-> shown.kept])
    /\ UNCHANGED <<avNow, avTicked, avDeleted, avMoments>>

\* Ring.markDeleted: the deletion of a message whose identifier was resolved.
MarkDeleted(id) ==
  /\ avDeleted' = avDeleted \cup {id}
  /\ avScroll' = [i \in DOMAIN avScroll |->
       IF avScroll[i].id = id THEN [id |-> id, deleted |-> TRUE] ELSE avScroll[i]]
  /\ UNCHANGED <<avNow, avSeen, avRate, avStats, avSpike, avTicked, avFeed, avMoments>>

\* The elements of s at the positions J from the last one on, at most limit of
\* them: the k-th has k - 1 of them behind it.
NewestAt(s, J, limit) ==
  [k \in 1 .. Min({limit, Cardinality(J)}) |-> s[CHOOSE i \in J : Cardinality({j \in J : j > i}) = k - 1]]

\* A bug for comparison: the message of the cursor is on the next page too.
ScrollHistoryAgain(before, limit) ==
  NewestAt(avScroll, {i \in DOMAIN avScroll : before = 0 \/ avScroll[i].id <= before}, limit)
\* Ring.History: the tail before a cursor (0 for none), newest first.
ScrollHistory(before, limit) ==
  NewestAt(avScroll, {i \in DOMAIN avScroll : before = 0 \/ avScroll[i].id < before}, limit)

-----------------------------------------------------------------------------
(* The detector of moments. *)

\* A bug for comparison: messages of the onset are not left out.
RefreshExcerptTwice(excerpt, recent) ==
  LET head == SubSeq(excerpt, 1, Min({ExcerptSize \div 2, Len(excerpt)}))
      room == Min({ExcerptSize - Len(head), Len(recent)}) IN
    head \o SubSeq(recent, Len(recent) - room + 1, Len(recent))
\* refreshExcerpt: the first half is kept, the newest other messages fill the rest.
RefreshExcerpt(excerpt, recent) ==
  LET head == SubSeq(excerpt, 1, Min({ExcerptSize \div 2, Len(excerpt)}))
      other == {i \in DOMAIN recent : ~Contains(head, recent[i])} IN
    head \o Reverse(NewestAt(recent, other, ExcerptSize - Len(head)))

\* advanceSpike: the peak, the excerpt, and the close after enough quiet seconds.
StillHigh(rate, baseline) == 10 * rate >= 6 * MinSpike /\ 2 * Scale * rate >= 3 * baseline
AdvanceSpike(cs, now, rate) ==
  LET peak == Max({cs.moment.peak, rate})
      moment == [cs.moment EXCEPT !.peak = peak,
                   !.excerpt = IF 10 * rate >= 9 * peak THEN RefreshExcerpt(@, cs.recent) ELSE @]
      quiet == IF StillHigh(rate, cs.baseline) THEN 0 ELSE cs.quiet + 1 IN
    IF quiet < CloseQuiet THEN [cs EXCEPT !.moment = moment, !.quiet = quiet]
    ELSE [cs EXCEPT !.moment = moment, !.quiet = quiet, !.inSpike = FALSE, !.cooldownUntil = now + Cooldown]

\* Outside a spike the baseline learns, and a moment may open.
Learned(baseline, rate) == ((AlphaInverse - 1) * baseline + Scale * rate) \div AlphaInverse
\* A bug for comparison: the cooldown is not looked at.
OpensHot(cs, now, rate, baseline) == rate >= MinSpike /\ Scale * rate >= SpikeFactor * baseline
Opens(cs, now, rate, baseline) ==
  now >= cs.cooldownUntil /\ rate >= MinSpike /\ Scale * rate >= SpikeFactor * baseline
Observe(cs, now, rate) ==
  LET baseline == Learned(cs.baseline, rate) IN
    IF Opens(cs, now, rate, baseline)
    THEN [cs EXCEPT !.baseline = baseline, !.inSpike = TRUE, !.quiet = 0,
                    !.moment = [id |-> Len(avMoments) + 1, started |-> now, ended |-> 0, peak |-> rate, excerpt |-> cs.recent]]
    ELSE [cs EXCEPT !.baseline = baseline]

\* tick: the channel is dropped when it was silent for long, or advanced by a
\* second; a moment that closes and lasted long enough is persisted.
DetectorTick ==
  LET rate == Total(avSpike.buckets, avNow, MomentWindow)
      next == IF avSpike.inSpike THEN AdvanceSpike(avSpike, avNow, rate) ELSE Observe(avSpike, avNow, rate)
      closed == avSpike.inSpike /\ ~next.inSpike IN
    /\ avSpike.known /\ avTicked # avNow
    /\ avTicked' = avNow
    /\ IF avNow - avSpike.lastSeen > IdleTimeout
         THEN avSpike' = NoSpike /\ UNCHANGED avMoments
         ELSE /\ avSpike' = next
              /\ avMoments' = IF closed /\ avNow - avSpike.moment.started >= MinDuration
                                THEN Append(avMoments, [next.moment EXCEPT !.ended = avNow]) ELSE avMoments
    /\ UNCHANGED <<avNow, avSeen, avRate, avStats, avScroll, avFeed, avDeleted>>

\* Ticks may be late or missing: the clock does not wait for them.
ClockAdvances ==
  /\ avNow < MaxTime /\ avNow' = avNow + 1
  /\ UNCHANGED <<avSeen, avRate, avStats, avSpike, avScroll, avTicked, avFeed, avDeleted, avMoments>>

\* The detector shares nothing with the other views but their input, which it
\* takes without looking at the author, so the two are explored one at a time.
ViewsNext ==
  \/ \E a \in Authors : Receive(a)
  \/ \E id \in 1 .. Len(avFeed) : Cardinality(avDeleted) < MaxDeleted /\ MarkDeleted(id)
  \/ ClockAdvances
MomentsNext == \E a \in Privileged : Receive(a) \/ DetectorTick \/ ClockAdvances
ActivitySpec == ActivityInit /\ [][ViewsNext \/ MomentsNext]_avVars

-----------------------------------------------------------------------------
\* The messages of the last window seconds.
Lately(window) == {i \in DOMAIN avFeed : avNow - avFeed[i].at < window}

\* The rings of one bucket per second compute what their documentation says,
\* whatever the pauses between messages: the number of messages, and for the
\* statistics the chatters, of the last windowSeconds, neither a message that
\* left the window nor one counted twice when a bucket is used again.
WindowsExact ==
  /\ StatsEmit(avStats, avNow) =
       IF Lately(StatsWindow) = {} THEN {}
       ELSE {[total |-> Cardinality(Lately(StatsWindow)), chatters |-> {avFeed[i].by : i \in Lately(StatsWindow)}]}
  /\ Total(avRate.buckets, avNow, RateWindow) = Cardinality(Lately(RateWindow))
  /\ avSpike.known => Total(avSpike.buckets, avNow, MomentWindow) = Cardinality(Lately(MomentWindow))

\* The messages since the rate was last under the threshold.
Surge == {i \in DOMAIN avFeed : \A j \in i .. Len(avFeed) : avFeed[j].share >= 0}
\* "The kept share is exact over time": during a surge the ordinary messages
\* that stay unmarked are as many as their shares threshold/rate add up to,
\* rounded down, and no message of a priority lane is marked.
ShareExact ==
  LET due == SumOf([i \in DOMAIN avFeed |-> avFeed[i].share], Surge)
      kept == Cardinality({i \in Surge : avFeed[i].share > 0 /\ avFeed[i].kept}) IN
    /\ kept * Scale <= due /\ due < (kept + 1) * Scale
    /\ \A i \in DOMAIN avFeed : avFeed[i].by \in Privileged => avFeed[i].kept

Ascending(s) == \A i \in 1 .. Len(s) - 1 : s[i] < s[i + 1]
\* The chat resumed at time t after a silence for which its state was dropped.
Resumed(t) == \E i \in 1 .. Len(avFeed) - 1 : avFeed[i + 1].at = t /\ t - avFeed[i].at > IdleTimeout
\* The cooldown between two moments; it is forgotten with the rest of the state.
Apart(m1, m2) == m2.started >= m1.ended + Cooldown \/ \E t \in m1.ended .. m2.started : Resumed(t)
\* A moment and its excerpt make sense: the excerpt, blended from the onset and
\* the peak, is in order, without a message twice and within its size; two
\* moments of a channel are a cooldown apart, unless it was silent for so long
\* in between that it was dropped; and none is below the floor.
MomentsSound ==
  /\ avSpike.inSpike => Ascending(avSpike.moment.excerpt) /\ Len(avSpike.moment.excerpt) <= ExcerptSize
  /\ \A i \in DOMAIN avMoments : avMoments[i].peak >= MinSpike
  /\ \A i \in 1 .. Len(avMoments) - 1 : Apart(avMoments[i], avMoments[i + 1])
  /\ avSpike.inSpike /\ avMoments # <<>> => Apart(Last(avMoments), avSpike.moment)

\* Paging back through the scrollback, each page starting before the last
\* message of the page before it, shows the newest messages once each, and
\* exactly those that were deleted as deleted.
ScrollbackPages ==
  LET page1 == ScrollHistory(0, 2)
      page2 == IF page1 = <<>> THEN <<>> ELSE ScrollHistory(Last(page1).id, ScrollCap)
      shown == page1 \o page2
      kept == Min({ScrollCap, Len(avFeed)}) IN
    shown = [k \in 1 .. kept |-> [id |-> Len(avFeed) - k + 1, deleted |-> (Len(avFeed) - k + 1) \in avDeleted]]

\* "minSpikeDuration discards rate blips shorter than this": a moment that is
\* kept was above the closing threshold for that long.
BlipsDiscarded ==
  \A i \in DOMAIN avMoments :
    avMoments[i].ended - avMoments[i].started - CloseQuiet >= MinDuration

\* What the views show of a feed is what the feed was: counts over exactly the
\* window, the configured share of a surge, moments that do not overlap and
\* whose excerpts are in order, and scrollback pages without gap or repeat.
ActivityExact == WindowsExact /\ ShareExact /\ MomentsSound /\ ScrollbackPages
=============================================================================
