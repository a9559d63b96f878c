# virta in TLA+

virta is a daemon (`virtad`, Go) that reads the chat of Twitch, Kick and YouTube channels,
merges it into one feed, and serves that feed to a web page, a terminal client, an overlay,
webhooks and plugins. It also sends messages and moderation commands back. This directory
holds TLA+ models of its core, the TLC configurations that check them on small instances,
and proofs that TLAPS checks for every instance.

`PROJECT.json` is the machine-readable index: components, runs, mutants, the map from
definitions to source lines, findings, hazards and theorems.

```
tlc -workers 2 -config MCPipeline.cfg MCPipeline      # any MC*.cfg with its module
tlapm PipelineProofs.tla                              # any *Proofs.tla
```

## 1. The system

Events flow in one direction:

```
 Twitch IRC / EventSub ┐
 Kick Pusher           ├─ adapters ─ engine ─ pipeline runner ─┬─ stream hub ── web client
 YouTube poller        ┘  (events)  (stamps)  (stages, rings)  ├─ logbook ── store
                                                               ├─ scrollback, stats, moments …
                                                               └─ webhooks, plugins
 POST /v1/send ─ dispatch sender ─ send governor (adaptive token buckets) ─ adapter.Send
 profiles ─ Join/Leave on the engine, logging policy, filters
```

| Component | State it keeps | Operations | Talks to | What is hard | What makes it correct |
|---|---|---|---|---|---|
| pipeline runner (`internal/pipeline`) | ingest channel, a ring and a worker for each sink, counters | Submit, Attach, dispatch, push, Consume, Close | adapters (callers), stages, sinks | select chooses freely between a send and quit; drop-oldest races the reader; shutdown order | nothing accepted vanishes uncounted; order; a stuck sink harms nobody else; Close returns |
| send governor (`internal/ratelimit`), sender (`internal/dispatch`) | bucket, FIFO and sending flag for each channel; adaptive burst | SendMany, Submit, drainKey, Drain, Penalize, SetLimit, recovery | HTTP handlers, adapters | goroutines of several requests drain one queue; clock read before the lock; two locks | order, pacing, penalties held, progress |
| stream hub (`internal/api/hub.go`, `stream.go`) and web client (`frontends/web/src/daemon/client.ts`) | sequence, replay ring, a buffer for each client; the client's cursor | register, subscribe, replay, broadcast, write pump; connect, retry, stop | runner (as a sink), browser | reconnects, restart of the daemon, slow clients | no event applied twice or out of order, none skipped that was not applied |
| twitch IRC (`adapter.go`, `shard.go`) | wanted channels, shards with their channel sets and connections | Join, Leave, supervise, reconnect, replay, Close | Twitch, engine | lines are written after the unlock; reconnect races join and leave | membership survives reconnects; Close is quiet |
| twitch EventSub (`eventsub_*.go`) | sessions, subscriptions, budget | join, leave, welcome, reconnect, revoke, close | Helix, IRC path | hand-over between two transports | each wanted channel is read on at least one transport |
| kick adapter (`platform/kick`) | Pusher connection, map of chatrooms, resolver with a circuit breaker | Join, Leave, supervise, resubscribe, Close | Pusher, Kick's API, engine | a Join between the supervisor's snapshot and its subscriptions; many joins while an endpoint refuses | a live connection carries every chatroom of the map; a refusing endpoint is spared |
| youtube adapter (`platform/youtube`) | a worker for each channel | Join, Leave, wait, continuation, poll, Close | YouTube, engine | two Joins race past the first look at the map; Close while a worker is emitting | one worker for a channel, whose health is true |
| engine (`internal/engine`) | logging flag, platform id → message id ring, joined channels | Join, Leave, ingest, SetLogging | adapters, runner | ring wraps; redelivery | a recent message can be found for deletion |
| logbook, sweeper (`internal/logbook`), store | buffer, two flushers, set of logged channels, rows | Consume, SetEnabled, flush, Close, sweep | engine, profiles, database | flushes overlap; policy switches between two reads | only consented messages are stored, once; retention |
| profiles (`internal/profiles`) | stored documents, the default, the active document | Create, Import, Activate, Add/RemoveChannel, SetFilters, Delete, save | engine, store, filter stage | snapshot, release, overwrite; switches overlap edits | joined channels and filter = those of the active profile; no profile takes over another's channels |
| authentication (`auth/twitch`, `auth/kick`) | token vault, account row, pending flows | device flow, redirect flow, AccessToken, Disconnect, Close | platforms, adapters, secrets | refresh tokens are single-use; a crash between use and store | no spent token presented; a code redeemed once |
| API tokens, hosted mode (`api/auth.go`, `internal/hosted`) | token rows, accounts, sessions, login limiter, profiles of each user | Mint, Revoke, scoped(), Login, Logout, sweep; join, leave, create, import, activate, set method or filters, delete | settings, store, engine, profile manager | a request whose session expires on the way; many users share one engine and one active document | only the entitled are served; a profile is changed by its own user's requests only |
| webhooks (`internal/webhook`) | endpoints, a queue and a worker each | Register, Dispatch, deliver, Update, Delete | settings, HTTP | replacement while delivering; retries and a pause after failures | deliveries of an endpoint in order; API, settings and workers agree |
| OBS websocket (`internal/obsws`) | configuration, connection, pending requests | loop, SetConfig, request, Stop | OBS | replies race timeouts and a change of connection | a pending entry has a caller who waits; Stop leaves nothing |
| held messages, commands (`internal/held`, `internal/command`, `dispatch`) | queue of held messages | Approve, Deny, notifications; Parse, Do, Moderate | Twitch, Kick | several moderators and Twitch itself decide; durations may wrap | the queue is what Twitch holds; a command keeps its meaning |
| plugin host (`internal/plugin`) | registry, records, directories | Install, Enable, Disable, Configure, Uninstall, Start | API, files | locks are released between the steps; failure or crash half way | files of an installed plugin stay; a restart restores what was |
| statistics, velocity, moments, scrollback | rings of seconds, chatter sets, open spikes, history | Consume, tick, MarkDeleted, History | runner (as sinks) | buckets are used again; a surge admits a share | the numbers are those of the last seconds; a page continues where the last ended |
| segments, filter, emotes, badges, stream status | compiled rules; a snapshot for each channel and a connection for updates | normalize, Annotate; refresh, subscribe, dispatch, fetch | adapters, pipeline stages, providers | masks that overlap; a subscription made during a dial | no text lost; each channel of the map subscribed; one fetch at a time |
| markets, X bridge | caches, a subprocess | poll, supervise | HTTP | little | - |
| search, language models, secrets, UI | caches and configuration | requests, rendering | HTTP, files | little concurrency of their own | mostly functional; unit tests reach it |

The hazards (what a test would hardly reach, each at its line) are in `PROJECT.json`.

## 2. Modules

| Module | Models | Proofs |
|---|---|---|
| `LossyFeed` | abstract: what the runner promises its sinks | - |
| `MessageArchive` | abstract: what the logbook promises of the history | - |
| `Pipeline` | `internal/pipeline/runner.go` | `PipelineProofs` |
| `SendGovernor` | `ratelimit/governor.go`, `ratelimit/adaptive.go`, SendMany of `dispatch`, the handler of POST /v1/send | `SendGovernorProofs` |
| `StreamHub` | `api/hub.go`, `api/stream.go`, `client.ts` | `ApiProofs` |
| `TwitchIRC` | Join, Leave, ircJoin, ircLeave, Close of `adapter.go`; `shard.go` | `TwitchProofs` |
| `EventSub` | `eventsub_supervisor.go`, `eventsub_session.go`, `eventsub_helix.go`; Authenticate, Deauthenticate, onESState, Join, Leave of `adapter.go` | `EventSubProofs` |
| `MessageLog` | stamping and idMap of the engine, `logbook.go`, `sweeper.go`, Append/MarkDeleted/Sweep of the store, loggingControl, restart | `MessageLogProofs` |
| `Webhooks` | `internal/webhook`, webhookControl of `internal/app` | `ServicesProofs` |
| `Profiles` | `internal/profiles`, the profile repository, the engine's joined set | `ServicesProofs` |
| `ObsWebSocket` | `internal/obsws` | `ServicesProofs` |
| `Moderation` | `internal/held`, `internal/command`, Do and Moderate of `dispatch`, the moderation calls of the Twitch and Kick adapters | `TwitchProofs` |
| `Access` | API tokens and scoped() of `internal/api`, `internal/hosted` | `ApiProofs` |
| `HostedChannels` | hosted users' requests: `channelControl`, `api/profiles.go`, `profiles/manager.go`, the profile table (extends `Access`) | `ApiProofs` |
| `Auth` | `internal/auth/twitch`, `internal/auth/kick` | `ServicesProofs` |
| `Plugins` | `internal/plugin/host`, its installer and store, pluginControl | `ServicesProofs` |
| `Activity` | the first-message mark of the engine, velocity, stats, moments, scrollback | `PipelineProofs` |
| `KickAdapter` | Join, Leave, supervisor and Close of `platform/kick`, its resolver and breaker | `ReadersProofs` |
| `YouTubeAdapter` | `platform/youtube` | `ReadersProofs` |
| `Segments` | `segment.Text` and the normalizers of the three platforms | - |
| `Filter` | `internal/filter` | - |
| `Overlays` | `internal/emotes`, `internal/badges`, `internal/streams` | `ReadersProofs` |
| `MCServices` | composes `Webhooks` to `Activity` | - |
| `MCChat` | composes `KickAdapter` to `Overlays` | - |

**Components that share no state** are composed in `MCServices` and `MCChat`. The variable
`focus` is chosen at the start; a behaviour runs one component and leaves the others in a
fixed initial state. A product of independent components would only repeat each one's states
next to all states of the others. Components that do interact are in one module, with the other side as the code at
hand sees it: `Profiles` holds the engine's set and the store's rows, `MessageLog` the
engine's id ring and the rows, `Webhooks` the settings, `Auth` the vault and the account row.

Each `MC…` module gives small sets and functions to a model. A cfg only assigns constants.
Definitions whose comment begins with "A bug for comparison" are variants of the definition below them, a
plausible mistake in the code; every checked property is shown to fail for one of them.

**Atomicity.** One step is one critical section, one channel operation, one select, or one
line on a socket. State that the code reads under a lock and uses after the unlock is kept
in a variable of its own (`now` and `step` of `SendGovernor`, `to` and `replay` of
`TwitchIRC`, `wbatch` and `lbatch` of `MessageLog`), so the interleavings that go wrong in
such gaps are behaviours of the model.

### Pipeline
An event is its ticket: its place in the order the ingest channel accepted events. Callers
are forwarders (Attach; Close waits for them) and producers (Submit). `DispatchRecv`,
`StageDrop`, `FanOut`, `PushSend`, `PushFull`, `PushDropOldest`, `PushRacedEmpty` are the
dispatcher's loop, `WorkerRecv`, `ConsumeReturn`, `WorkerQuit`, `WorkerExit` a sink's
worker, `Close…` the body under `closeOnce`. The stages' work on a message is abstracted to
"survives" or "is dropped". The two stage counters are one sum.

### SendGovernor
A process for each request and for each key of a Drain. Time is a tick. Tokens are kept in
units of 1/Window so that refilling is exact; the code uses floating point. Requests may be
cancelled while their send is queued (the "doomed" step: the captured context is over).

### StreamHub
The hub, the handler and write pump of each connection, and the page. The network between
is a FIFO that may be cut; the daemon may be restarted, and then counts from 1. An event is
its sequence number and the channel it belongs to (or everybody).

### TwitchIRC
One caller for each channel: calls for one channel follow each other, calls for different
channels are concurrent. `wire[s]` is what Twitch has joined on the newest connection of
shard `s`; a line written to an older connection is lost, as in the code, which ignores
the error. Without the one-caller assumption the lines of a Join and a Leave for the same
channel, each written after the unlock, can be exchanged, and two Joins can put one slug
on two shards.
`attempt` saturates at `DownAfter`, where the reported health no longer depends on it.

### EventSub
The supervisor's `run` (`rpc`), a pool of the goroutines it starts (`wpc`: onWelcome,
subscribeChannel, onRevoke, the deletions of leave), one caller for each channel (`pc`) and
the account's caller (`apc`). Twitch is its newest connection (`link`, `sess`) and the
subscriptions enabled on it (`tsub`), which die with the connection and survive a
directed move. A channel's `esChannelState` is a pair of the channel and a generation,
because a goroutine may still write to the object of a registration that is over. The
callbacks run outside the supervisor's lock, in two steps: the test whether the channel is
still joined, and the call on IRC. IRC itself is the set `irc`; `TwitchIRC` models what
is behind ircJoin and ircLeave. A request may fail, or succeed and lose its answer; a 409
gives no id; a 403 for AutoMod is always possible. Abstracted: the two AutoMod topics are
one, the account signs in and out once, health and the automod flag are left out. A
goroutine is started only if one of `Workers` is free. An id that nobody remembers is
reused, which keeps the state space small and changes nothing that can be observed.

### MessageLog
The worker of the pipeline that calls Consume, the flush loop, the sweeper, one switcher
(SetLogging sets the engine, the sink and the sweeper in three steps) and shutdown.
A message is a serial number. A redelivery is a message with a platform id seen before.
`consent`, `recorded`, `gone` and `puts` are history variables.

### The services (`MCServices`)
- `Webhooks`: `webhookControl.mu` serialises operations on endpoints, so one is in progress
  at most (`whAdmin`); dispatch and the workers run beside it. A delivery is its number in
  the order of dispatch. A crash loses queues and restores endpoints from the settings.
- `Profiles`: a step is what a request does between two releases of `Manager.mu`, or one call
  of the store, the engine or the filter. `prMixed`, `prFailed` and `prGranted` are history:
  edits that overlapped a switch, joins that failed, channels a request put in a profile. The
  repository generates an identifier for each new profile (`gen.New`), so that an identifier
  is never used again: its domain in `prGranted` is the identifiers given out.
- `ObsWebSocket`: loop, reader and statistics goroutine of every connection, callers paired
  with replies by number, SetConfig in two steps (store, close), Stop.
- `Moderation`: the held queue with its cap between approve/deny requests and Twitch's own
  notifications, which may be repeated; and commands as a function from typed input to the
  call made, with Go's duration arithmetic (`Bits`-bit, signed, wrapping).
- `Access`: `AccessNext` is tokens, sessions, the login limiter and the middleware, whose
  checks are separate steps.
- `HostedChannels`: what the requests of hosted users do to the profile table, whose queries are
  scoped to a user, and to what nothing scopes: the engine and `profiles.Manager` with its one
  active document. A step is one query, one call of the engine, or what the manager does between
  two releases of a lock; a document is its channels. So an Activate reads the row, leaves and
  joins channel by channel and then swaps the document, while others join, save or delete; a
  restart ends every request and joins what `profileRepo.List` returns for the empty user id. A
  row keeps its number when it is deleted. Three ghosts say whose doing a profile is: `hoAsked` (what
  a user's requests make of the default profile), `hoOwn` (the channels the user ever had) and
  `hoMixed` (users whose own requests overlapped, or who saved the active document).
  `AccessSpec` composes both modules.
- `Auth`: both sign-in flows, refresh under `lockRef`, the three steps of persist, and a
  crash between any two. A token set is the number of its single-use refresh token.
- `Plugins`: every operation takes `Registry.mu` several times and the store's lock in
  between; Start reads the records while requests are already served. `plRaced` holds the
  plugins on which two operations overlapped, for which less is promised.
- `Activity`: four views of one feed of one channel. Shares and baselines are exact
  fractions (`Scale`), floating point in the code. The cooldown between two moments is kept
  with the rest of a channel's state, which is dropped once the channel was silent for
  `idleTimeout`: `MomentsSound` claims it except across such a silence.

### Reading and dressing chat (`MCChat`)
- `KickAdapter`: the supervisor's snapshot of the map and its subscriptions are separate
  steps, Join looks up the chatroom outside the lock; health reports are on a bounded queue.
- `YouTubeAdapter`: the cycle of a worker (wait, continuation, poll, deliver), cancelled by
  Leave or Close at any point.
- `Segments`: texts over an alphabet of atoms (space, another white space, `@`, a letter, the two
  halves of the start of a link, the amount of a cheer, the pieces of a Kick emote token), so
  every place where a carver may cut, overlap or stop occurs. Words are what each function takes
  for words: `Fields` (any white space) for the total of the cheers, runs between spaces for
  their split. Pure functions; the one step normalizes one message.
- `Filter`: rules applied one by one to a text; the ruleset so far is a variable.
- `Overlays`: the emote cache and the 7TV connection (`EmotesNext`), the lazy fetches of
  badges and stream status (`LazyNext`), the emote stage on text (`WordsNext`). What a
  provider returns is a version number.

### LossyFeed, the abstract feed
What the comment of the runner promises a sink: events are taken one at a time, each is
discarded or published, and a consumer gets every published event in order and once, except
for the oldest of its own queue, lost and counted while a newer one waits. `Pipeline`
implements it (`ImplementsFeed`). Under the refinement mapping the event in the dispatcher's
hand is `event`, a sink's ring is its queue, `drops` is `lost`, the event a worker took last
is `seen`. Callers, closers and the returns of Consume are stuttering steps; a push into a
full ring is a `Lose` followed by an `Offer`.

### MessageArchive, the abstract history
What the package comment of the logbook promises of the messages table: only what was said while
logging was on is accepted, once and in order; what is accepted waits, and is stored or lost in
runs, so the history has no hole inside a batch; a row survives crashes and leaves only past the
retention window; nothing comes back. `MessageLog` implements it (`ImplementsArchive`): the buffer
and the two batches are what waits, an Append is `Store` or `Lose`, a discard and a crash `Lose`, a
sweep `Expire`. Taking a batch, the ring of ids, the switch and the shutdown are stuttering steps.

## 3. Runs

| Run | Bounds | What it shows |
|---|---|---|
| `pipeline` | 1 forwarder, 2 closers, 2 sinks, ingest 1, rings 2, 3 events | accounting at the ingest queue and in every ring, order of consumption, only the oldest is dropped, sinks closed after all workers, two concurrent Closes return, a sink that hangs does not stall the other, and the whole implements `LossyFeed` |
| `send_governor` | 2 requests of 2 posts to one key, 1 drain loop, burst 2, window 2, 3 ticks | order, agreement of the two layers, pacing, penalties |
| `send_governor_stuck` | 2 requests, no drain loop | violation of `QueueMovesOn`: no ticker drives the queue |
| `stream_hub` | 1 client, 2 channels, ring 2, buffer 1, 3 events, 1 restart, 1 connection failure, 1 change of filter | ring contents, delivery accounting, order at the page |
| `twitch_irc` | 2 channels, 1 per connection, 2 shards, 2 drops, 1 failed dial, 3 calls | replay, membership restored, Close quiet and finite |
| `event_sub` | 1 channel, 2 goroutines, any 2 of: Join, Leave, lost connection, moved connection, failed request, revocation; sign-in and sign-out on top; budget 2 | settled sessions read every joined channel, channelUp agrees with Twitch, a sign-out leaves nothing subscribed, no goroutine waits for ever |
| `message_log` | 3 messages of 2 channels, flush at 2, id ring of 2, 1 switch, 1 deletion, 1 failed Append, 1 restart | consent, exactly one place, drain at Close, resolvable ids, and the whole implements `MessageArchive` |
| `message_log_retention` | 1 message, 1 restart | violation of `RetentionEnforced` |
| `services` | webhooks: 2 identifiers, queue 2, 2 retries, 4 deliveries; profiles: 2 callers, 2 profiles, 2 channels, 3 rulesets, 3 requests; OBS: 2 callers, 2 connections; held: 2 messages, cap 1, 2 moderators, durations of 8 bits; access: 2 requests, 2 tokens, 1 user, 1 session, 4 ticks, 1 restart; hosted: 4 requests of 2 users, 2 names, 1 channel; auth: 2 callers, 2 browsers, 2 token sets; plugins: 2 callers, 1 remote and 1 built-in, 2 requests, 1 restart; activity: 2 chatters, 5 messages, 8 seconds | one invariant for each component, below |
| `tokens_survive` | the same | violation of `TokensSurvive` |
| `chat` | Kick: 2 channels, 2 callers, 2 connections, 3 joins, breaker at 1; YouTube: 2 channels, 2 callers, 2 workers, 3 joins, 2 failures; every text of up to 4 atoms (Kick 6); emotes: 1 channel, 2 goroutines, 3 starts; every list of up to 3 of 7 rules on every text of up to 4 characters | one invariant for each component, below |
| `kick_leave` | the same | violation of `KickLeaveStops` |

The invariants of `services` and `chat` are conjunctions of named parts, each defined and
commented beside its component, with the type invariant as the first part:

| Invariant | Parts |
|---|---|
| `WebhookQueues` | `DeliveredInOrder`, `EndpointsAgree` |
| `ProfilesKept` | `SwitchesCompose`, `ProfilesApart`, `DefaultKept` |
| `ObsEndsCleanly` | `ObsStoppedIsQuiet`, `PendingIsWaiting` |
| `ModerationFaithful` | `HeldRowsAreHeld`, `CommandsKeepMeaning` |
| `AccessKept` | `AdmittedIsEntitled`, `FailuresBounded` (together `RequestsEntitled`), `OwnRequestsOnly`, `OwnChannelsOnly` |
| `AuthSound` | `NotStranded`, `CodeRedeemedOnce`, `AuthClosedIsQuiet` |
| `PluginsKept` | `InstallDirsKept`, `RestartRestores` |
| `ActivityExact` | `WindowsExact`, `ShareExact`, `MomentsSound`, `ScrollbackPages` |
| `KickSound` | `KickMembershipRestored`, `KickClosedIsQuiet`, `BreakerSpares` |
| `YouTubeSound` | `OneWorker`, `HealthIsHonest`, `YtClosedIsQuiet` |
| `OverlaysSound` | `ChannelsSubscribed`, `LazyFetchesOnce` |
| `TextKept` | `Lossless`, `MaskExact`, `EmoteWords` |

`PROJECT.json` names one variant for each invariant. The parts that it leaves standing fail for
others, put in the place of the definition below them in the same run: `DumpedRows`,
`RateOKOffByOne` and `SessionLives` (`Access`), `AdmitForgets`, `ScrollHistoryAgain`,
`RefreshExcerptTwice` and `OpensHot` (`Activity`), `RedeemAgain` and `ExpireLeaves` (`Auth`),
`SplitMaskedLoses` (`Filter`), `OnFailureBlocked` and `KickClosesAtOnce` (`KickAdapter`),
`ParseSendsUnknown`, `KickMinutesFloor` and `HeldConsumeApproved` (`Moderation`), `StopWaitsNot`
(`ObsWebSocket`), `RemoveEntryAndFiles` (`Plugins`), `SaveReadsDoc` (`Profiles`),
`UsableOverlapping` and `SplitCheersAlways` (`Segments`), `DeleteLeavesWorker` and
`PersistWebhookForgets` (`Webhooks`), `RecoversSilently` (`YouTubeAdapter`).

In the same way the type invariants of `SendGovernor`, `StreamHub`, `TwitchIRC`, `MessageLog` and
`EventSub` are the first part of `LimitFollows`, `DeliveryAccounted`, `Replayed`, `OnePlace` and
`ReadAtRest`.

**Why these bounds.** Each buffer is at its limit with one event to spare: three events
against rings of two wrap and drop; a burst of two with four sends exhausts the bucket and
queues. Two sinks separate "this sink" from "another". One drop in the middle of a replay
and one more after it is what a reconnect can meet at all, because a replay starts from
scratch. Two shards with one channel each make routing choose. In `event_sub` one channel is enough for every race: channels
meet only in the budget and in the loop of onWelcome; two goroutines are a subscription and
whatever overtakes it, two events are every pair of disturbances (a Leave and a Join again, a
connection lost while its successor is being subscribed), and a budget of two is full with
one channel, so a second subscription of the same channel meets the cap. `ReadAtRest` and
`UpIsLive` have also been checked with three goroutines and three events, restricted to the
behaviours they speak of (`CONSTRAINT Undisturbed`). Goroutines are symmetric; no liveness
property is checked in that run. The pipeline and the IRC
invariants do not depend on the bounds at all: they are proved. `message_log` uses symmetry
on platform ids, which appear only in equalities; no liveness property is checked in it.

In `services` and `chat` two goroutines of a kind are every race of two, and each bounded
thing is at its limit: a webhook queue of two with four deliveries drops and wraps; the held
queue evicts with its second message; a session expires after one tick and the limiter's window
closes within the run; durations of 8 bits wrap for the larger of the numbers typed; two
token sets are one more than the account starts with, and two requests contend for it; a plugin has three versions, one of which lacks a
scope and fails half way. Seconds 0 to 7 against windows of two and three use every bucket
again. Four requests of hosted users are a join, another user's profile, its activation and a save
or a delete around it. `services` has also been run with three plugin requests, with three
hosted requests at a time, with any number of them on two rows, with four requests for profiles
and with three token sets. A text of four characters is long enough for two matches that overlap, touch
or are apart, with something before, between or behind. Callers, browsers, Kick joins and
Kick channels are symmetric; no liveness property is checked in either run.

**Deadlock** is checked in `twitch_irc`, `message_log` and `event_sub`, whose models say
explicitly when everything has ended or waits for the outside world (`Idle` of `EventSub`).
In `event_sub` every loop uses up a bound, so the absence of deadlock also means that every
behaviour can only end at rest. The other models may stop: after Close, when the
event or time bound is used up, when every request has been answered, or when the one message
of `Segments` is normalized.

**Fairness.** Weak fairness of goroutines (the Go scheduler is fair to runnable
goroutines), of a send's return (the HTTP clients have timeouts), of time, of tickers. In
`pipeline` the first sink's Consume has none: it may hang for ever. Requests, joins,
leaves, drops and calls of Close have none. In `TwitchIRC` a dial may fail `MaxFails`
times only, so "a dial tried again and again succeeds" is an assumption on the network.
In a behaviour where the network never recovers no membership is restored, and none is
promised.

## 4. Where the code differs from what it says

Four runs are violations; `PROJECT.json` quotes the lines.

1. **Nobody drains the send queue** (`governor.go:153`). The comments speak of a production
   ticker; there is none. A queued send waits for the next send to the same channel.
2. **Retention after a restart** (`sweeper.go:76`): the set of channels to sweep is in
   memory only.
3. **Minted tokens do not survive a restart** (`tokenstore.go:23`). The rows are marshalled
   from a struct whose fields are not exported, so each is stored as `{}`; what a restart
   loads has neither hash nor scopes.
4. **Leaving a Kick channel** (`kick/adapter.go:244`). Leave looks the channel up by its
   chatroom id, which no caller knows; it returns early and the chatroom stays subscribed,
   also after reconnects.

More statements that the models refute. They are definitions beside their components, each
with the comment or document it is taken from, but no run is spent on them.

| Definition | What happens |
|---|---|
| `LossesCounted` (`Pipeline`, `runner.go:126`, `:283`) | at shutdown Submit may win the send on the ingest channel after the dispatcher has left, and a worker may leave while the dispatcher still fills its ring: uncounted losses |
| `NothingDroppedSilently`, `NothingBeforeWait` (`SendGovernor`) | a send queued behind a finished request fails unseen; the rest of a batch goes out after a 429 |
| `SkipsOnlyApplied` (`StreamHub`, `client.ts:86`) | the page skips events it never applied: after a restart of the daemon, and when a live event overtakes the replay |
| `StopIsFinal`, `NoPushToClosed` (`StreamHub`) | stop during discovery; a replay to a client that the hub has closed |
| `LeaveParts` (`TwitchIRC`, `shard.go:250`) | JOIN of a reconnect's snapshot follows the PART of a Leave |
| `CapRespected` (`TwitchIRC`) | capacity test and join are two critical sections; the overshoot is at most the number of concurrent joins |
| `SurvivesSignOut` (`EventSub`, `adapter.go:221`) | a subscribeChannel that was already answered marks its channel up and parts it from IRC after the sign-out decided what to move back: joined, and read by nobody |
| `FallsBack` (`EventSub`) | see below |
| `DeletionSticks`, `OffWritesNothing` (`MessageLog`) | a deletion finds no row while its message is buffered; a batch in flight is written after the switch |
| `RegisterReplaces` (`Webhooks`, `webhook.go:130`) | an endpoint updated to inactive and then updated again or deleted has its quit channel closed twice (checked with `ActiveValues = {TRUE, FALSE}`) |
| `EditsSurvive` (`Profiles`) | two saves of one document are written in the reverse order |
| `ConfigTakesEffect` (`ObsWebSocket`) | SetConfig during a dial finds no connection to close, and the loop connects with the old configuration |
| `SharedChannelsStay` (`HostedChannels`, `wire.go:1488`) | the shared engine keeps no channel for a user: another user's Activate leaves what its profile lacks (`manager.go:113`; the API route has no guard), a failed Join drops the channel, a restart joins none, and a created or imported profile is never joined |
| `StartReadsEveryProfile` (`HostedChannels`, `wire.go:1560`) | "all users, no user_id filter": `List` filters on the empty user id (`core.go:240`), so a start joins no channel of a hosted user |
| `HostedJoinSaved` (`HostedChannels`, `wire.go:647`) | names are unique over all users, so the "Default" profile of a second user conflicts with the first's, and the join is not saved |
| `SavesKeepJoins` (`HostedChannels`) | a hosted user's change of filters or method saves the document as it was activated, without what was joined since |
| `AuthorizedStays` (`Auth`) | a later request to the loopback server without a code marks an authorized session failed |
| `ReenabledStays` (`Plugins`) | enabling a built-in saves nothing, so one that was disabled before stays disabled after a restart |
| `BlipsDiscarded` (`Activity`) | a moment's length includes its quiet tail, so blips pass the minimum |
| `KickSendsBeforeClose` (`KickAdapter`) | a Join whose dial fails may reach emit after Close has closed the events channel, where both cases of the select are ready and the send panics |
| `CheersAllOrNone` (`Segments`, `normalize.go:196`) | the total counts words between any white space (`normalize.go:204`), the split looks between spaces only (`normalize.go:237`): behind a tab a cheermote counts and stays text |
| `LiveEmotes` (`Overlays`) | the refresh that a live update starts reads through the cache it should invalidate (`cache.go:46`), so it may bring back the old set |
| `RulesInOrder` (`Filter`) | the flattened text is kept from the first rule that needed it, so a rule after a mask does not see the mask |

`FallsBack` fails in several ways:

- a connection lost during the AutoMod request: markAllDown finds nothing up, and then the
  channel is marked up and parted from IRC (the next session repairs it, `ReadAtRest`);
- after such a loss, a directed move that overtakes the subscriptions of the new session:
  subscribeChannel gives up because "the new welcome resubscribes"
  (`eventsub_supervisor.go:310`), but a carried welcome subscribes nothing;
- a delayed onWelcome goroutine of an older session that records its id last, after which
  nobody can subscribe on the live session;
- a revocation around a directed move, for the same reason as the second.

Hence `ReadAtRest` and `UpIsLive` are stated for settled sessions (the recorded session is the
live one) of behaviours without failed requests, revocations and Leaves in which
connections are lost or moved, not both. With a Leave the code promises less: a Leave
followed at once by a Join gets a 409 for a subscription that the late DELETE then removes, and
the loop of Authenticate may register a channel that a Leave has just dropped. And they need a
budget that holds the topics of every channel: at the cap (checked with two channels, a
budget of two and one loss) a subscribeChannel of the lost session, whose last critical section
does not look at the session again (`eventsub_supervisor.go:342`), marks its channel up and
parts it from IRC after, or just before, the new session found no slot for it; only a rise of
`up` is reported, so the channel stays unread, where line 317 says "overflow channels stay
on IRC". Of these
behaviours `event_sub` explores all that one channel has, for deadlock and `SignedOutIsSilent`.

## 5. Proofs

All for every value of the constants, from the named assumptions of the modules:
`SizesAssumption` and `CallersAssumption` (sizes are positive, forwarders and producers are
different goroutines), `ShardsAssumption` (shards are numbered from 1 and the cap is
positive), `StreamAssumption`, `MessageLogAssumption`, `GovernorAssumption` (sizes; requests and the
goroutines of a Drain are different processes), `YouTubeConstants` and `KickConstants`
(sizes; the goroutines that may join are finitely many), `AuthConstants` (the code `"poll"` and
the lock holder `"free"` are nobody's), `ProfilesConstants` (the daemon's default profile and
the empty rules exist, and the empty rules compile), `ObsConstants`, `AccessConstants` (a
token is not also a session, `"blank"` is nobody's secret, the limiter
admits at least one attempt and the requests in progress are finitely many),
`HostedConstants` (`Local`, the empty user id, is no hosted user, and "Default" is a name),
`WebhooksConstants`, `EventSubAssumption` (sizes; channels and goroutines are finitely many),
`PluginsConstants` (remote plugins and built-ins have different identifiers, "none" is neither a
directory nor a configuration, and the goroutine of Start serves no request),
`ModerationConstants` (sizes; the longest timeout of Kick is a number of minutes, as the 10080
of the code is; a duration has bits) and `ActivityConstants` (sizes; the window of the detector
is not longer than the silence after which a channel is dropped, in the code ten seconds and
five minutes; `Scale`, which only the model has, is a multiple of every count), and
`OverlaysAssumption` (sizes; `OvAbsent` is no version). A strengthening named below was
checked by TLC as an invariant before it was proved.

`PipelineProofs`
- `TypeCorrect`: split into five groups of variables; each action disturbs one or two.
- `IngestLossless`: `IngestAccounting` is inductive together with the type invariant.
- `SinkLossCounted`: the same for each sink. The case that needs care is the push in two
  selects: the number of events offered to a sink depends on whether the dispatcher has
  reached it (`Pushed`).
- `OrderInvariant`, `SinksConsumeInOrder`: `ConsumeInOrder` speaks of one step and is not
  inductive. `TicketOrder` strengthens it: tickets increase along the whole path, last
  consumed < ring < in the dispatcher's hand < ingest queue < next ticket.
- `NewestIsKept`: `DropsOldest` from the same `TicketOrder`. Only the second select of push
  counts a drop, and what it takes is the head of an increasing ring that ends before the
  event in the dispatcher's hand.
- `CloseIsOrdered`: `CloseOrder` ties each phase of the closing goroutine to the goroutines
  that have ended; ended goroutines stay ended (`DoneStays`).
- `RunnerImplementsFeed`: the refinement. `FeedStep` takes the actions one by one: the
  dispatcher's receive is `Take`, a stage's drop `Discard`, the fan-out `Publish`, the send
  into a ring `Offer`, the drop `Lose`, a worker's receive `Deliver`; every other step
  stutters. `Take` asks for a later event, which is where `TicketOrder` is needed; the rest
  follows from `TypeOK`.
- `ActivityHolds`: the views of a channel, each with an invariant over the whole feed.
  `RingAt`: a bucket counts what was said in its second, and every second of the window has its
  own bucket; hence `RingTotal`, for all three rings. `Balanced`: what the shares of the surge
  add up to is the number of ordinary messages kept times `Scale`, and the fraction still held
  back, so `SharesRecorded` has to look at one message only. `ScrollAt`: the scrollback is the
  newest messages, each as it was deleted or not, so a page is a tail of it (`NewestTop`).
  `ExcerptAt` with `Placed`: of the newest messages at hand either enough are later than the
  kept half of an excerpt, or all that are not in that half are, so a blend stays in order.
  `Cooled`: after the last moment the detector waits for the cooldown, or the channel resumed
  after a silence, or it was dropped and is silent still. The attempt to prove an unconditional cooldown
  failed at the drop, and TLC showed the counterexample once a cooldown could outlast
  `IdleTimeout`. Sums are cardinalities of sets of pairs (`SumOf`), so what they need of
  induction is `ByInduction`, over the naturals and for a set instead of a predicate.

`TwitchProofs`
- `ReconnectLosesNothing`: `Replayed` holds only while a shard reads. `ReplayInv` follows a
  reconnect through its phases: a published connection is the newest (`Published`); every
  channel of the set is on the wire, in the rest of the snapshot, or in the hands of a call
  that has read this connection (`Covered`); a call about to PART has left the set
  (`Parting`); a shard not yet opened is empty (`Blank`); a call at a shard is at an open
  one (`Holding`).
- `CloseIsQuiet`: `CloseInv` says that no shard is opened once Close has begun
  (`Numbered`, `Blank`) and that every shard Close has passed has ended (`Waiting`).
- `ModerationHolds`: `HeldInv` for the queue: a row is there once, and is held by Twitch or has
  the decision that clears it on its way (`RowsCleared`), behind the arrival if that is on its
  way too (`ArrivalsCleared`); only what Twitch has decided is announced (`DecisionsTrue`);
  and a held message is a row, on its way, or was dropped by the cap (`HeldSomewhere`).
  `CommandsKeepMeaning` follows a typed command through `Build`, `Clamp` and the adapters'
  conversions (`BuiltAction`), with durations that wrap at `Bits` bits.

`ApiProofs`
- `NothingElseLost`: `DeliveryAccounted`, with the types and `PushBusy`: only a push in
  progress is between the two selects of pushBytes.
- `RingIsNewest`: `Lap` says which event each slot holds, those before the next slot from the
  current lap and the others from the lap before.
- `PageAppliesInOrder`: an action property. `UpToLast`: whatever the page applied from the
  present daemon is at most its cursor, and nothing is from a daemon still to come, so an
  event above the cursor is later than all of them.
- `SetInduction` is induction over the naturals for a set instead of a predicate, from the
  library's theorem on well-founded relations; with it `OrderedExact` proves that the
  recursive function behind `Ordered` lists each element of a set once, in order. Where a
  statement can be put as "the set of n for which … is Nat", induction is within reach.
- `OnlyEntitledServed`: `AcKnown` (a row of the table that has its secret is the only one
  of a token that was minted with its scopes and not revoked; after a restart rows are
  blank), `AcAsked` (what a request has found out stays true while it runs, because what was
  dead when it began stays in `AcDead`), `AcLimited` (inside the window the failures recorded
  and the logins that compare a password are bounded together, since one that passes rateOK found
  fewer than the limit). `HoInv` is about the profiles: the one
  default profile of a user is what the user asked for (`HoSettled`) because nobody else changes
  its row between its read and its write (`HoGood`), which needs that the user's own requests do
  not overlap (`HoAlone`); and what may be saved as a row, the active document and every copy of it
  in a request's hands, names only channels of the user whose row it is (`HoDocOk`). `HoMoves`
  reduces every step of a request to what it does for one user.

`SendGovernorProofs`: one invariant, `GovInv`, for four theorems.
- `SentInOrder`: `Exclusive` (one process at most sends for a key, the one that set the flag
  `sending`) and `Numbered` (answered, batch in flight, queue are consecutive tickets).
- `LimitsAgree`: `Agree`, the burst of `adaptive.go` and the limit of the bucket differ only
  while a process carries the burst from one lock to the other.
- `RateKept`: `Earned`, what was taken and what is left are together at most one burst and
  what the rate has earned; the clock readings a process took before the lock are not later than the clock (`Past`). The
  arithmetic is in `Mono`, `Spans`, `Times`, `RefillFacts`: Burst and Window are arbitrary,
  so products of variables need lemmas of their own.
- `PenaltyIsHeld`: an action property, from `Held`: until the end of a penalty a bucket cannot
  earn its way back to a token.

`MessageLogProofs`
- `BufferedOnce`, `NothingUnconsented`: `LogInv` adds to `OnePlace` what is in the two batches
  (`Batches`, a flusher holds messages only between swap and Append), that serial numbers are
  new (`Fresh`) and that consent was given for whatever was buffered (`Consented`). `Placed` spells out the
  five places, disjoint and without repetition.
- `CloseDrains`: `Draining`: once the sink is closed the pipeline's worker rests, and only then
  the loop takes its last batch.
- `LogbookImplementsArchive`: the refinement. `InOrder`: messages come to the sink in the order in
  which they were said, each later than all that were recorded. `BatchOrder`: what was taken from
  the buffer is older than what is in it, and of the two batches one is older than the other;
  hence every batch, the buffer and all three together are runs (`Runs`). The two flushes may
  write in either order, which is why the archive stores runs and not the oldest first.
- `NewestResolve`: `IdInv`. The ring of platform ids holds the newest ones in the order of
  their slots, and the map has an entry exactly for these.

`ReadersProofs`
- `OneWorkerPerChannel`: `Listed` ties a worker that nobody has cancelled to the entry of the map that
  Leave looks up, `Reports` a worker's phase to the health it last reported, `YtQuiet` the
  phases of Close to what may still run.
- `FeedSurvivesChurn`: `Published` (the connection that Join can see is the one the supervisor
  reads) and `Subscribed` (a chatroom of the map is
  subscribed on it, or in the rest of the snapshot, or in the hands of a Join that has read
  this connection). `Spared`: with the breaker open, only the Joins that passed it before can add to
  the refusals; with the breaker closed, the refusals are counted and below the threshold.
- `OverlaysHold`: `EmRun` ties the published connection to where the EventAPI loop is.
  `Followed`: on an open connection each channel of the map is subscribed, or still on the list the
  connection was published with, or in the hands of a `Subscribe` that has read this very
  connection. That a late message of a `Leave` does not take a subscription away needs `Truthful`:
  what a goroutine is about to write about a channel is what the map says, unless two messages
  about it are unwritten at once (`ovRaced`). `Marked`: a mark of badges or streams is set exactly
  while one lazy fetch holds it.

`ServicesProofs`
- `SignInsKeepTokens`: as long as no answer of the platform was lost, every token set in use is
  one the platform accepts (`Live`): in the vault, presented by a refresh, waiting to be
  written, or in the hands of a sign-in. `Unspent` keeps the refreshes apart from the
  sign-ins that are not stored yet, and `AuLocked` from each other (`lockRef`). `CodeInv`: the
  code is redeemed by whoever finds it unredeemed. `AuQuiet` follows Close: handlers run
  only while the loopback server is up, and the goroutine that abandons a session ends
  after it.
- `ProfilesSurvive`: `PrApplied` says where engine and filter are in the middle of a request:
  during a switch the joined channels are those of the new document without what is still to
  add and with what is still to remove (`PrProgress`), while nothing was mixed an edit is
  alone. `PrGranted` extends `ProfilesApart` to the documents on their way to a row;
  `PrDefaulted` needs that what Delete has checked is not the default. With identifiers that
  could be used again the invariant is not inductive: an edit of a deleted profile, still on its way
  to the table, would land in the new one. The repository generates them, so the model does.
- `WebhooksInOrder`, `EndpointsServed`: `WhApart` (a dispatch and the replacement of a worker
  exclude each other, so an endpoint still to be served has its worker), `WhOrdered` (posted,
  in delivery, queued: increasing, and older than the delivery in progress as long as the
  endpoint is still to be served). The second theorem, which states `WebhookQueues`, assumes
  `ActiveValues \subseteq {TRUE}`: no route calls `Update`, and an update to inactive leaves a
  dead worker behind, whose quit channel the next operation closes again (section 4). It adds
  `WhAgreed`: a worker is told to stop only by the operation that then replaces or removes
  it, and what is listed and what is kept differ only for the endpoint in progress.
- `ObsLeavesNothing`: `ObClosed` (a reader ends, and a context is cancelled, only with the
  connection closed), `ObStopped` (what `wg.Wait` waited for stays ended), `ObNumbered` (no
  connection gives a number twice, so a reply has one caller at most).
- `PluginsSurvive`: `PlAlone` says who may work on a plugin that nothing raced on: one caller, none
  while Start still has its record ahead of it, and, the one overlap that is left, Start's
  second pass over a plugin that is still `installed` because its install is between two saves.
  What keeps that overlap harmless is `PlFresh` (a remote entry that is `installed` belongs to an
  install before its first save) with `PlProgress`, which says for each step of an operation how
  entry, record and directory stand to each other: what is about to be saved matches the entry
  (`Matches`), an install that has saved its record has a matching record, so whoever
  saves last, a restart restores the same. `PlUntouched`: until Start has come to a record, the entry
  is the built-in's or absent, and the list it read is what is still recorded. `PlSettled` is
  what remains once nobody works on the plugin.

`EventSubProofs`
- `SignOutSilences`: `Hung`: a closed connection has no subscriptions, outside of a dial and a
  session the connection is closed, and the goroutine of run has ended once close has
  returned. A subscription request still under way can only reach a connection that is live.
- `FeedSettles`, `UpMeansLive`: `EsTyped` (types, the object and topic each goroutine holds, and
  that a registration that is over was left) holds whatever fails. While all is calm, goroutines
  keep to registered objects and a joined channel is on IRC until it is registered (`Works`,
  `Listens`). Then two cases. If connections are only moved, no subscription is ever
  lost, so what a goroutine has booked or reported is subscribed (`MovedOnly`). If they are only lost, a
  session's id is new to every goroutine and to the supervisor (`OwnIds`), the goroutines of a
  session work on different channels (`OneEach`), each slot of its budget belongs to a topic that
  one of them has reserved (`BudgetBooked`), and so every registered channel is
  subscribed on the live session or has a goroutine of that session ahead of it, unless an older
  welcome was recorded last (`SubscribesAll`), which a settled session excludes.
  Both theorems assume `Capacity`: the budget has a slot for both topics of every channel
  (in the code, three topics and 900 slots: 300 channels). Without it they are false: see the end
  of section 4.

Only model-checked: all liveness (`CloseReturns`, `SlowSinkIsolated`, `MembershipRestored`,
the deadlock checks), which needs fairness and ENABLED, and `TextKept` of `MCChat`: what the
parsers of `Segments` (declared `RECURSIVE`), the filter and the emote stage (folds over a text)
compute is induction over data, out of the reach of the prover, and is checked for every text up
to the bounds. The other invariants of the passing runs are all
stated by a theorem.

## 6. Not modelled

Each with its reason in `PROJECT.json`:

- wire formats (IRC tags, JSON, OAuth encodings) and rendering: functions of one string,
  without state, that table tests cover;
- SQL, migrations and the repositories of pins, events and themes: the store appears as its
  users see it, rows that are written one at a time;
- secrets: encryption and the keychain of the operating system, one file replaced by rename;
- search, language models and translation: a request and its answer, decided remotely;
- markets and the X bridge: pollers of public data that feed one panel;
- what a plugin does once it runs: its HTTP bridge, its interface, its calls to the host;
- the terminal, the overlay, the desktop shell and the web page except its stream client;
- the remote services beyond "answers, fails, is cut, repeats itself";

In the modelled components health strings, log lines, the length of backoff delays and the
read-only listings are left out.

## 7. Plan

The components are modelled and the invariants of their runs proved, but for the texts. What
is left: the text stages as recursive functions, over which facts could be stated one step
at a time.
