------------------------------ MODULE Webhooks ------------------------------
(* The outgoing webhooks: webhook.Manager with one worker goroutine for each  *)
(* endpoint, the settings that keep the endpoints across restarts             *)
(* (app/webhooks.go), the pipeline sink that feeds the queues and the HTTP    *)
(* handlers that create and delete endpoints.                                 *)
(*                                                                            *)
(* webhookControl.mu serialises the operations on endpoints, so there is at   *)
(* most one in progress (whAdmin); Manager.mu is held for writing by that     *)
(* operation and for reading by Dispatch, which has one caller, the worker of *)
(* the webhook sink.  A delivery is its number in the order of dispatch.      *)
EXTENDS Integers, Sequences, FiniteSets

CONSTANTS
  Endpoints,      \* identifiers of endpoints, Blank among them
  Blank,          \* the identifier "" that a setting which is no endpoint unmarshals to
  Watched,        \* [Endpoints -> sets of event types]: Endpoint.Events
  ActiveValues,   \* the values of "active" that UpdateWebhook is called with
  QueueDepth, Retries, PauseAfter,   \* maxQueueDepth, maxRetries, and the 5 of runWorker
  MaxDispatched, MaxUpdates, MaxCrashes   \* bounds of the instance

ASSUME WebhooksConstants ==
  /\ Blank \in Endpoints /\ ActiveValues \subseteq BOOLEAN
  /\ {QueueDepth, Retries, PauseAfter} \subseteq Nat \ {0}
  /\ {MaxDispatched, MaxUpdates, MaxCrashes} \subseteq Nat

VARIABLES
  whConfigs,    \* webhookControl.configs: "none", "active" or "inactive"
  whSettings,   \* the same as the settings repository keeps it
  whWorker,     \* Manager.endpoints: the worker of an endpoint, or NoWebhookWorker
  whAdmin,      \* the operation in progress
  whSink,       \* the Dispatch in progress
  whPosted,     \* the last delivery that an endpoint was sent
  whPanicked,   \* some operation closed a closed channel
  whCount       \* deliveries, updates and crashes so far

whVars == <<whConfigs, whSettings, whWorker, whAdmin, whSink, whPosted, whPanicked, whCount>>

WhStates == {"none", "active", "inactive"}
NoWebhookWorker == [pc |-> "none"]
WhIdle == [op |-> "idle"]
NewWebhookWorker == [pc |-> "select", queue |-> <<>>, cur |-> 0, attempt |-> 0, fails |-> 0,
              paused |-> FALSE, quit |-> FALSE]

-----------------------------------------------------------------------------
(* What is delivered. *)

\* The events that reach the sink.
WhEvents == [kind : {"chat"}, highlight : BOOLEAN]
            \cup [kind : {"sub", "resub", "giftsub", "raid", "follow", "announcement", "notice"}]
            \cup [kind : {"health"}, degraded : BOOLEAN] \cup [kind : {"profile", "clear"}]

\* pipelineEventType: the type of the delivery, "" for events without one.
PipelineEventType(ev) ==
  CASE ev.kind = "chat" -> IF ev.highlight THEN "message.highlighted" ELSE "message.chat"
    [] ev.kind \in {"sub", "resub", "giftsub"} -> "event.subscription"
    [] ev.kind = "raid" -> "event.raid"
    [] ev.kind = "follow" -> "event.follow"
    [] ev.kind = "announcement" -> "event.announcement"
    [] ev.kind = "notice" -> "event.other"
    [] ev.kind = "health" -> IF ev.degraded THEN "adapter.degraded" ELSE ""
    [] ev.kind = "profile" -> "profile.changed"
    [] OTHER -> ""

\* Destinations as validateWebhookURL sees them: where the host name resolves to.
Urls == [scheme : {"https", "ftp"}, host : {"localhost", "name"},
         addrs : {{}, {"public"}, {"public", "private"}, {"loopback"}}]
ValidateWebhookURL(u) ==
  u.scheme \in {"http", "https"} /\ u.host # "localhost" /\ u.addrs # {}
    /\ u.addrs \cap {"loopback", "private", "linklocal", "unspecified", "multicast"} = {}

-----------------------------------------------------------------------------
(* Operations on endpoints. *)

\* Start: newWebhookControl registers what the settings keep, whatever their scope.
ReloadWebhooks(settings) ==
  /\ whConfigs' = settings
  /\ whWorker' = [e \in Endpoints |-> IF settings[e] = "active" THEN NewWebhookWorker ELSE NoWebhookWorker]

WebhooksInit ==
  /\ whSettings \in {[e \in Endpoints |-> IF e = Blank THEN s ELSE "none"] : s \in {"none", "inactive"}}
  /\ whConfigs = whSettings
  /\ whWorker = [e \in Endpoints |-> NoWebhookWorker]
  /\ whAdmin = WhIdle /\ whSink = WhIdle /\ whPanicked = FALSE
  /\ whPosted = [e \in Endpoints |-> 0]
  /\ whCount = [dispatched |-> 0, updates |-> 0, crashes |-> 0]

\* close(w.quit): the worker is told to stop.  A dead worker's channel is closed.
CanCloseQuit(e) == whWorker[e] = NoWebhookWorker \/ ~whWorker[e].quit
CloseQuit(e) ==
  whWorker' = IF whWorker[e] = NoWebhookWorker THEN whWorker ELSE [whWorker EXCEPT ![e].quit = TRUE]

\* The first half of Register: configs is written, the lock taken and the old
\* worker told to stop.  Closing a closed channel panics; the HTTP server
\* recovers and the deferred unlocks run.
BeginRegister(e, state, op) ==
  /\ whAdmin = WhIdle /\ whSink = WhIdle
  /\ whConfigs' = [whConfigs EXCEPT ![e] = state]
  /\ IF CanCloseQuit(e)
       THEN /\ whAdmin' = [op |-> op, ep |-> e, state |-> state]
            /\ CloseQuit(e) /\ UNCHANGED whPanicked
       ELSE whPanicked' = TRUE /\ UNCHANGED <<whAdmin, whWorker>>
  /\ UNCHANGED <<whSettings, whSink, whPosted>>

\* handleCreateWebhook and webhookControl.Create.
HandleCreateWebhook(e, u) ==
  /\ whConfigs[e] = "none" /\ ValidateWebhookURL(u)
  /\ BeginRegister(e, "active", "register")
  /\ UNCHANGED whCount

\* webhookControl.Update, which no route of the server calls yet.
UpdateWebhook(e, active) ==
  /\ whConfigs[e] # "none" /\ whCount.updates < MaxUpdates
  /\ BeginRegister(e, IF active THEN "active" ELSE "inactive", "register")
  /\ whCount' = [whCount EXCEPT !.updates = @ + 1]

\* A bug for comparison: Deregister drops the worker without stopping it.
DeleteLeavesWorker(e) ==
  /\ whConfigs[e] # "none" /\ whAdmin = WhIdle /\ whSink = WhIdle
  /\ whConfigs' = [whConfigs EXCEPT ![e] = "none"]
  /\ whSettings' = [whSettings EXCEPT ![e] = "none"]
  /\ UNCHANGED <<whWorker, whAdmin, whSink, whPosted, whPanicked, whCount>>

\* handleDeleteWebhook and the first half of Deregister.
HandleDeleteWebhook(e) ==
  /\ whConfigs[e] # "none"
  /\ BeginRegister(e, "none", "deregister")
  /\ UNCHANGED whCount

\* wg.Wait returns: the worker is replaced or removed, the lock released and
\* the configuration persisted.  Register keeps a dead worker of an inactive
\* endpoint in the map.
WorkerStopped(e) == whWorker[e].pc \in {"none", "done"}
FinishRegister ==
  /\ whAdmin.op = "register" /\ WorkerStopped(whAdmin.ep)
  /\ LET e == whAdmin.ep IN
       /\ whWorker' = IF whAdmin.state = "active" THEN [whWorker EXCEPT ![e] = NewWebhookWorker] ELSE whWorker
       /\ whAdmin' = [op |-> "persist", ep |-> e, state |-> whAdmin.state]
  /\ UNCHANGED <<whConfigs, whSettings, whSink, whPosted, whPanicked, whCount>>
FinishDeregister ==
  /\ whAdmin.op = "deregister" /\ WorkerStopped(whAdmin.ep)
  /\ whWorker' = [whWorker EXCEPT ![whAdmin.ep] = NoWebhookWorker]
  /\ whAdmin' = [op |-> "persist", ep |-> whAdmin.ep, state |-> "none"]
  /\ UNCHANGED <<whConfigs, whSettings, whSink, whPosted, whPanicked, whCount>>
\* A bug for comparison: the change is not persisted.
PersistWebhookForgets == whAdmin.op = "persist" /\ whAdmin' = WhIdle
  /\ UNCHANGED <<whConfigs, whSettings, whWorker, whSink, whPosted, whPanicked, whCount>>

PersistWebhook ==
  /\ whAdmin.op = "persist"
  /\ whSettings' = [whSettings EXCEPT ![whAdmin.ep] = whAdmin.state]
  /\ whAdmin' = WhIdle
  /\ UNCHANGED <<whConfigs, whWorker, whSink, whPosted, whPanicked, whCount>>

\* handleResumeWebhook, webhookControl.Resume and Manager.Resume.
HandleResumeWebhook(e) ==
  /\ whConfigs[e] # "none" /\ whAdmin.op \in {"idle", "persist"}
  /\ whWorker[e] # NoWebhookWorker
  /\ whWorker' = [whWorker EXCEPT ![e].paused = FALSE]
  /\ UNCHANGED <<whConfigs, whSettings, whAdmin, whSink, whPosted, whPanicked, whCount>>

\* The daemon dies at any point and starts again.
WebhooksCrash ==
  /\ whCount.crashes < MaxCrashes
  /\ whCount' = [whCount EXCEPT !.crashes = @ + 1]
  /\ ReloadWebhooks(whSettings)
  /\ whAdmin' = WhIdle /\ whSink' = WhIdle
  /\ UNCHANGED <<whSettings, whPosted, whPanicked>>

-----------------------------------------------------------------------------
(* Deliveries. *)

\* Sink.Consume and the first half of Dispatch: the read lock is taken.
WebhookMatches(e, type) == type \in Watched[e]
WebhooksConsume(ev) ==
  /\ whSink = WhIdle /\ whAdmin.op \in {"idle", "persist"}
  /\ whCount.dispatched < MaxDispatched
  /\ LET type == PipelineEventType(ev) IN
       /\ type # ""
       /\ whSink' = [op |-> "dispatch", full |-> {},
                     todo |-> {e \in Endpoints : whWorker[e] # NoWebhookWorker /\ WebhookMatches(e, type)}]
  /\ whCount' = [whCount EXCEPT !.dispatched = @ + 1]
  /\ UNCHANGED <<whConfigs, whSettings, whWorker, whAdmin, whPosted, whPanicked>>

\* One endpoint of the loop: the delivery is queued, or the queue is full.
WebhookEnqueue(e) ==
  /\ whSink.op = "dispatch" /\ whSink.full = {} /\ e \in whSink.todo
  /\ IF Len(whWorker[e].queue) < QueueDepth
       THEN /\ whWorker' = [whWorker EXCEPT ![e].queue = Append(@, whCount.dispatched)]
            /\ whSink' = [whSink EXCEPT !.todo = @ \ {e}]
       ELSE whSink' = [whSink EXCEPT !.full = {e}] /\ UNCHANGED whWorker
  /\ UNCHANGED <<whConfigs, whSettings, whAdmin, whPosted, whPanicked, whCount>>

\* A bug for comparison: the newest takes the place of the oldest.
WebhookDropInPlace(e) ==
  /\ whSink.op = "dispatch" /\ e \in whSink.full /\ whWorker[e].queue # <<>>
  /\ whWorker' = [whWorker EXCEPT ![e].queue = <<whCount.dispatched>> \o Tail(@)]
  /\ whSink' = [whSink EXCEPT !.todo = @ \ {e}, !.full = {}]
  /\ UNCHANGED <<whConfigs, whSettings, whAdmin, whPosted, whPanicked, whCount>>

\* The queue was full: the receive that drops the oldest waits for an element.
WebhookDropOldest(e) ==
  /\ whSink.op = "dispatch" /\ e \in whSink.full /\ whWorker[e].queue # <<>>
  /\ whWorker' = [whWorker EXCEPT ![e].queue = Append(Tail(@), whCount.dispatched)]
  /\ whSink' = [whSink EXCEPT !.todo = @ \ {e}, !.full = {}]
  /\ UNCHANGED <<whConfigs, whSettings, whAdmin, whPosted, whPanicked, whCount>>

DispatchReturns ==
  /\ whSink.op = "dispatch" /\ whSink.todo = {}
  /\ whSink' = WhIdle
  /\ UNCHANGED <<whConfigs, whSettings, whWorker, whAdmin, whPosted, whPanicked, whCount>>

\* runWorker: the select, with its two cases.
WorkerSelects(e) == whWorker[e].pc = "select"
WorkerQuits(e) ==
  /\ WorkerSelects(e) /\ whWorker[e].quit
  /\ whWorker' = [whWorker EXCEPT ![e].pc = "done"]
  /\ UNCHANGED <<whConfigs, whSettings, whAdmin, whSink, whPosted, whPanicked, whCount>>
WorkerTakes(e) ==
  /\ WorkerSelects(e) /\ whWorker[e].queue # <<>>
  /\ LET w == whWorker[e] IN whWorker' = [whWorker EXCEPT
       ![e] = IF w.paused THEN [w EXCEPT !.queue = Tail(w.queue)]
              ELSE [w EXCEPT !.queue = Tail(w.queue), !.cur = Head(w.queue), !.pc = "deliver", !.attempt = 1]]
  /\ UNCHANGED <<whConfigs, whSettings, whAdmin, whSink, whPosted, whPanicked, whCount>>

\* deliver and post: one attempt, accepted or not.
Attempted(w, ok) ==
  IF ok THEN [w EXCEPT !.pc = "select", !.fails = 0]
  ELSE IF w.attempt < Retries THEN [w EXCEPT !.attempt = @ + 1]
  ELSE [w EXCEPT !.pc = "select", !.fails = IF @ < PauseAfter THEN @ + 1 ELSE @,
                 !.paused = @ \/ w.fails + 1 >= PauseAfter]
WebhookPost(e, ok) ==
  /\ whWorker[e].pc = "deliver"
  /\ whWorker' = [whWorker EXCEPT ![e] = Attempted(@, ok)]
  /\ whPosted' = [whPosted EXCEPT ![e] = whWorker[e].cur]
  /\ UNCHANGED <<whConfigs, whSettings, whAdmin, whSink, whPanicked, whCount>>

WebhooksNext ==
  \/ \E e \in Endpoints \ {Blank} :
       \/ \E u \in Urls : HandleCreateWebhook(e, u)
       \/ \E a \in ActiveValues : UpdateWebhook(e, a)
       \/ HandleDeleteWebhook(e) \/ HandleResumeWebhook(e)
       \/ WebhookEnqueue(e) \/ WebhookDropOldest(e)
       \/ WorkerQuits(e) \/ WorkerTakes(e) \/ \E ok \in BOOLEAN : WebhookPost(e, ok)
  \/ FinishRegister \/ FinishDeregister \/ PersistWebhook \/ DispatchReturns \/ WebhooksCrash
  \/ \E ev \in WhEvents : WebhooksConsume(ev)

WebhooksSpec == WebhooksInit /\ [][WebhooksNext]_whVars

-----------------------------------------------------------------------------
WorkerType ==
  [pc : {"select", "deliver", "done"}, queue : Seq(1 .. MaxDispatched), cur : 0 .. MaxDispatched,
   attempt : 0 .. Retries, fails : 0 .. PauseAfter, paused : BOOLEAN, quit : BOOLEAN]
WebhooksTypeOK ==
  /\ whConfigs \in [Endpoints -> WhStates] /\ whSettings \in [Endpoints -> WhStates]
  /\ \A e \in Endpoints :
       whWorker[e] # NoWebhookWorker => whWorker[e] \in WorkerType /\ Len(whWorker[e].queue) <= QueueDepth

\* What is being delivered and queued for an endpoint, oldest first.
WebhookPending(e) ==
  IF whWorker[e] = NoWebhookWorker THEN <<>>
  ELSE (IF whWorker[e].pc = "deliver" THEN <<whWorker[e].cur>> ELSE <<>>) \o whWorker[e].queue

\* An endpoint gets its deliveries in the order of dispatch, whatever is dropped
\* from a full queue, retried, paused or lost when its worker is replaced
\* ("its own ordered delivery queue").
DeliveredInOrder ==
  \A e \in Endpoints :
    LET p == WebhookPending(e) IN
      /\ \A i \in 1 .. Len(p) - 1 : p[i] < p[i + 1]
      /\ p # <<>> => whPosted[e] <= p[1]
      /\ \A i \in 2 .. Len(p) : whPosted[e] < p[i]

\* Between operations the three records of an endpoint agree: what the API
\* lists is what the settings will restore, and exactly the active endpoints
\* have a worker that can still post.
EndpointsAgree ==
  whAdmin = WhIdle => \A e \in Endpoints :
    /\ whSettings[e] = whConfigs[e]
    /\ (whConfigs[e] = "active") <=> (whWorker[e].pc \in {"select", "deliver"} /\ ~whWorker[e].quit)

\* "Safe to call multiple times (replaces)": registering an endpoint again
\* never closes a channel twice.
RegisterReplaces == ~whPanicked

\* Every endpoint is posted its events in order, each at most once and none
\* that was dropped as the oldest before a newer one, through retries, pauses
\* and updates; and between operations the API's list, the settings and the
\* running workers agree on it.
WebhookQueues == WebhooksTypeOK /\ DeliveredInOrder /\ EndpointsAgree
=============================================================================
