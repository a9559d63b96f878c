---------------------------- MODULE ObsWebSocket ----------------------------
(* The OBS integration: obsws.Manager with its reconnect loop, the reader and *)
(* statistics goroutines of each connection, the requests that pair a reply   *)
(* with its caller by number, SetConfig and Stop.                             *)
(*                                                                            *)
(* A configuration is its number and whether the integration is enabled.      *)
(* Callers stand for everything that sends requests: the HTTP handlers, a     *)
(* chat rule that fires, the statistics push and the version query.  What the *)
(* requests carry and the numbers pushed are left out.                        *)
EXTENDS Integers, FiniteSets

CONSTANTS ObsCallers, MaxObsConns, MaxObsConfigs, MaxObsRequests

ASSUME ObsConstants == {MaxObsConns, MaxObsConfigs, MaxObsRequests} \subseteq Nat

VARIABLES
  obCfg,      \* Manager.cfg
  obSetter,   \* SetConfig between storing the configuration and closing the connection
  obStop,     \* "no", "asked" (stopCh closed), "waited" (wg.Wait is over) or "done"
  obLoop,     \* where the loop is, and the configuration it read
  obConn,     \* Manager.conn, 0 for nil
  obState,    \* Manager.state
  obClient,   \* the connections made so far
  obCall,     \* the request of each caller
  obSent      \* requests so far

obVars == <<obCfg, obSetter, obStop, obLoop, obConn, obState, obClient, obCall, obSent>>

ObsConns == DOMAIN obClient
ObsConfigs == [n : 0 .. MaxObsConfigs, enabled : BOOLEAN]
NoObsRequest == [pc |-> "idle"]

\* New: the stored configuration, or the default one, which is disabled.
ObsInit ==
  /\ obCfg \in [n : {0}, enabled : BOOLEAN]
  /\ obSetter = FALSE /\ obStop = "no"
  /\ obLoop = [pc |-> "top"]
  /\ obConn = 0 /\ obState = "disconnected"
  /\ obClient = <<>>
  /\ obCall = [c \in ObsCallers |-> NoObsRequest] /\ obSent = 0

-----------------------------------------------------------------------------
(* The reconnect loop. *)

ObsStopping == obStop # "no"
LoopAt(pc) == obLoop.pc = pc

\* The top of the loop: stop, wait while disabled, or start dialling.
LoopStops ==
  /\ obLoop.pc \in {"top", "sleep"} /\ ObsStopping
  /\ obLoop' = [pc |-> "ended"]
  /\ UNCHANGED <<obCfg, obSetter, obStop, obConn, obState, obClient, obCall, obSent>>
LoopReadsConfig ==
  /\ LoopAt("top") /\ ~ObsStopping
  /\ IF obCfg.enabled
       THEN obLoop' = [pc |-> "dial", cfg |-> obCfg] /\ obState' = "connecting"
       ELSE obLoop' = [pc |-> "sleep"] /\ UNCHANGED obState
  /\ UNCHANGED <<obCfg, obSetter, obStop, obConn, obClient, obCall, obSent>>
LoopWakes ==
  /\ LoopAt("sleep")
  /\ obLoop' = [pc |-> "top"]
  /\ UNCHANGED <<obCfg, obSetter, obStop, obConn, obState, obClient, obCall, obSent>>

\* dial: Hello, Identify, Identified; any of them may fail or time out.
ObsDialFails ==
  /\ LoopAt("dial")
  /\ obState' = "error" /\ obLoop' = [pc |-> "sleep"]
  /\ UNCHANGED <<obCfg, obSetter, obStop, obConn, obClient, obCall, obSent>>
\* The statistics goroutine is started when the configuration asks for it.
ObsDialSucceeds(pushes) ==
  /\ LoopAt("dial") /\ Cardinality(ObsConns) < MaxObsConns
  /\ LET k == Cardinality(ObsConns) + 1 IN
       /\ obClient' = [j \in 1 .. k |->
            IF j < k THEN obClient[j]
            ELSE [open |-> TRUE, cfg |-> obLoop.cfg, reader |-> TRUE, stats |-> pushes, version |-> TRUE, cancelled |-> FALSE,
                  seq |-> 0, pending |-> {}, replies |-> {}, answered |-> {}]]
       /\ obLoop' = [pc |-> "run", conn |-> k]
       /\ obConn' = k /\ obState' = "connected"
  /\ UNCHANGED <<obCfg, obSetter, obStop, obCall, obSent>>

\* The select of a connection: the reader has ended, or the manager stops.
LoopLosesConn ==
  /\ LoopAt("run") /\ ~obClient[obLoop.conn].reader
  /\ obClient' = [obClient EXCEPT ![obLoop.conn].cancelled = TRUE]
  /\ obConn' = 0 /\ obState' = "disconnected"
  /\ obLoop' = [pc |-> "top"]
  /\ UNCHANGED <<obCfg, obSetter, obStop, obCall, obSent>>
LoopCloses ==
  /\ LoopAt("run") /\ ObsStopping
  /\ obClient' = [obClient EXCEPT ![obLoop.conn].cancelled = TRUE, ![obLoop.conn].open = FALSE]
  /\ obLoop' = [pc |-> "closing", conn |-> obLoop.conn]
  /\ UNCHANGED <<obCfg, obSetter, obStop, obConn, obState, obCall, obSent>>
LoopEnds ==
  /\ LoopAt("closing") /\ ~obClient[obLoop.conn].reader
  /\ obLoop' = [pc |-> "ended"]
  /\ UNCHANGED <<obCfg, obSetter, obStop, obConn, obState, obClient, obCall, obSent>>

\* readLoop ends on a dead connection or a cancelled context; statLoop ends
\* when the context is cancelled.
ReaderEnds(k) ==
  /\ obClient[k].reader /\ (~obClient[k].open \/ obClient[k].cancelled)
  /\ obClient' = [obClient EXCEPT ![k].reader = FALSE]
  /\ UNCHANGED <<obCfg, obSetter, obStop, obLoop, obConn, obState, obCall, obSent>>
StatsEnd(k) ==
  /\ obClient[k].stats /\ obClient[k].cancelled
  /\ obClient' = [obClient EXCEPT ![k].stats = FALSE]
  /\ UNCHANGED <<obCfg, obSetter, obStop, obLoop, obConn, obState, obCall, obSent>>

\* OBS goes away.
ObsHangsUp(k) ==
  /\ obClient[k].open
  /\ obClient' = [obClient EXCEPT ![k].open = FALSE]
  /\ UNCHANGED <<obCfg, obSetter, obStop, obLoop, obConn, obState, obCall, obSent>>

-----------------------------------------------------------------------------
(* SetConfig and Stop. *)

\* The configuration is persisted and stored, then the connection, if there is
\* one, is closed so that the loop dials again.
SetConfig(enabled) ==
  /\ ~obSetter /\ obCfg.n < MaxObsConfigs
  /\ obCfg' = [n |-> obCfg.n + 1, enabled |-> enabled]
  /\ obSetter' = TRUE
  /\ UNCHANGED <<obStop, obLoop, obConn, obState, obClient, obCall, obSent>>
SetConfigCloses ==
  /\ obSetter /\ obSetter' = FALSE
  /\ obClient' = IF obConn = 0 THEN obClient ELSE [obClient EXCEPT ![obConn].open = FALSE]
  /\ UNCHANGED <<obCfg, obStop, obLoop, obConn, obState, obCall, obSent>>

StopAsked ==
  /\ obStop = "no" /\ obStop' = "asked"
  /\ UNCHANGED <<obCfg, obSetter, obLoop, obConn, obState, obClient, obCall, obSent>>

\* A bug for comparison: Stop does not wait for the goroutines.
StopWaitsNot ==
  /\ obStop = "asked" /\ obStop' = "waited"
  /\ UNCHANGED <<obCfg, obSetter, obLoop, obConn, obState, obClient, obCall, obSent>>

StopWaits ==
  /\ obStop = "asked" /\ LoopAt("ended")
  /\ \A k \in ObsConns : ~obClient[k].reader /\ ~obClient[k].stats
  /\ obStop' = "waited"
  /\ UNCHANGED <<obCfg, obSetter, obLoop, obConn, obState, obClient, obCall, obSent>>
StopDisconnects ==
  /\ obStop = "waited" /\ obStop' = "done"
  /\ obClient' = IF obConn = 0 THEN obClient ELSE [obClient EXCEPT ![obConn].open = FALSE]
  /\ obConn' = 0 /\ obState' = "disconnected"
  /\ UNCHANGED <<obCfg, obSetter, obLoop, obCall, obSent>>

-----------------------------------------------------------------------------
(* Requests. *)

\* request: the reply channel is registered under the next number and then the
\* frame written; a failing write takes the entry out again.
ObsRequest(c, k) ==
  /\ obCall[c] = NoObsRequest /\ obSent < MaxObsRequests
  /\ obCall' = [obCall EXCEPT ![c] = [pc |-> "write", conn |-> k, id |-> obClient[k].seq + 1]]
  /\ obClient' = [obClient EXCEPT ![k].seq = @ + 1, ![k].pending = @ \cup {obClient[k].seq + 1}]
  /\ obSent' = obSent + 1
  /\ UNCHANGED <<obCfg, obSetter, obStop, obLoop, obConn, obState>>

\* GetSources, GetScenes and TestSource use the connection of the moment.
ActiveConn(k) == k = obConn /\ obState = "connected"
ObsHandlerRequest(c, k) == ActiveConn(k) /\ ObsRequest(c, k)

\* Consume and fireRule: a message of a triggering type switches the scene.
\* The rules are the configuration's; one of them matches or none does.
MessageTypeTrigger(type) ==
  CASE type = "raid" -> "raid" [] type = "sub" -> "sub"
    [] type = "giftsub" -> "sub_gift" [] type = "resub" -> "resub" [] OTHER -> ""
ObsConsume(c, k, type) ==
  obCfg.enabled /\ MessageTypeTrigger(type) # "" /\ ActiveConn(k) /\ ObsRequest(c, k)

\* The goroutines of a connection keep to that connection: the statistics push
\* and the version query that follows the dial.
PushStats(c, k) == obClient[k].stats /\ ObsRequest(c, k)
QueryVersion(c, k) ==
  /\ obClient[k].version /\ obCall[c] = NoObsRequest /\ obSent < MaxObsRequests
  /\ obCall' = [obCall EXCEPT ![c] = [pc |-> "write", conn |-> k, id |-> obClient[k].seq + 1]]
  /\ obClient' = [obClient EXCEPT ![k].version = FALSE, ![k].seq = @ + 1,
                                  ![k].pending = @ \cup {obClient[k].seq + 1}]
  /\ obSent' = obSent + 1
  /\ UNCHANGED <<obCfg, obSetter, obStop, obLoop, obConn, obState>>

WriteFrame(c) ==
  /\ obCall[c].pc = "write"
  /\ LET k == obCall[c].conn IN
       IF obClient[k].open
         THEN obCall' = [obCall EXCEPT ![c].pc = "wait"] /\ UNCHANGED obClient
         ELSE /\ obCall' = [obCall EXCEPT ![c] = NoObsRequest]
              /\ obClient' = [obClient EXCEPT ![k].pending = @ \ {obCall[c].id}]
  /\ UNCHANGED <<obCfg, obSetter, obStop, obLoop, obConn, obState, obSent>>

\* OBS answers a request, in any order.
ObsAnswers(c) ==
  /\ obCall[c].pc = "wait" /\ obClient[obCall[c].conn].open
  /\ obCall[c].id \notin obClient[obCall[c].conn].replies \cup obClient[obCall[c].conn].answered
  /\ obClient' = [obClient EXCEPT ![obCall[c].conn].replies = @ \cup {obCall[c].id}]
  /\ UNCHANGED <<obCfg, obSetter, obStop, obLoop, obConn, obState, obCall, obSent>>

\* readLoop routes a reply to the caller that waits under its number, if any.
RouteReply(k, id) ==
  /\ obClient[k].reader /\ id \in obClient[k].replies
  /\ obClient' = [obClient EXCEPT
       ![k].replies = @ \ {id}, ![k].pending = @ \ {id},
       ![k].answered = IF id \in obClient[k].pending THEN @ \cup {id} ELSE @]
  /\ UNCHANGED <<obCfg, obSetter, obStop, obLoop, obConn, obState, obCall, obSent>>
RequestReturns(c) ==
  /\ obCall[c].pc = "wait" /\ obCall[c].id \in obClient[obCall[c].conn].answered
  /\ obCall' = [obCall EXCEPT ![c] = NoObsRequest]
  /\ obClient' = [obClient EXCEPT ![obCall[c].conn].answered = @ \ {obCall[c].id}]
  /\ UNCHANGED <<obCfg, obSetter, obStop, obLoop, obConn, obState, obSent>>

\* A bug for comparison: a request that times out leaves its entry behind.
RequestTimesOutLeaks(c) ==
  /\ obCall[c].pc = "wait"
  /\ obCall' = [obCall EXCEPT ![c] = NoObsRequest]
  /\ UNCHANGED <<obCfg, obSetter, obStop, obLoop, obConn, obState, obClient, obSent>>

RequestTimesOut(c) ==
  /\ obCall[c].pc = "wait"
  /\ obCall' = [obCall EXCEPT ![c] = NoObsRequest]
  /\ obClient' = [obClient EXCEPT ![obCall[c].conn].pending = @ \ {obCall[c].id},
                                  ![obCall[c].conn].answered = @ \ {obCall[c].id}]
  /\ UNCHANGED <<obCfg, obSetter, obStop, obLoop, obConn, obState, obSent>>

ObsLoop == LoopStops \/ LoopReadsConfig \/ LoopWakes \/ ObsDialFails
             \/ (\E pushes \in BOOLEAN : ObsDialSucceeds(pushes)) \/ LoopLosesConn \/ LoopCloses \/ LoopEnds
ObsNext ==
  \/ ObsLoop \/ SetConfigCloses \/ StopAsked \/ StopWaits \/ StopDisconnects
  \/ \E enabled \in BOOLEAN : SetConfig(enabled)
  \/ \E k \in ObsConns : ReaderEnds(k) \/ StatsEnd(k) \/ ObsHangsUp(k)
       \/ \E id \in obClient[k].replies : RouteReply(k, id)
  \/ \E c \in ObsCallers : WriteFrame(c) \/ ObsAnswers(c) \/ RequestReturns(c) \/ RequestTimesOut(c)
       \/ \E k \in ObsConns :
            \/ ObsHandlerRequest(c, k) \/ PushStats(c, k) \/ QueryVersion(c, k)
            \/ \E type \in {"raid", "chat"} : ObsConsume(c, k, type)

ObsSpec == ObsInit /\ [][ObsNext]_obVars

-----------------------------------------------------------------------------
ObsTypeOK ==
  /\ obCfg \in ObsConfigs /\ obSetter \in BOOLEAN
  /\ obStop \in {"no", "asked", "waited", "done"}
  /\ obLoop.pc \in {"top", "sleep", "dial", "run", "closing", "ended"}
  /\ obConn \in {0} \cup ObsConns
  /\ obState \in {"disconnected", "connecting", "connected", "error"}

\* "Stop closes stopCh and waits for the loop to exit, then disconnects": after
\* Stop no goroutine of any connection runs and no connection is open, also
\* when Stop came while the loop was dialling.
ObsStoppedIsQuiet ==
  obStop = "done" =>
    /\ LoopAt("ended") /\ obConn = 0
    /\ \A k \in ObsConns : ~obClient[k].open /\ ~obClient[k].reader /\ ~obClient[k].stats

\* The table of pending replies holds exactly the requests that still wait for
\* one, on every connection, whether they were answered, timed out or could
\* not be written: a late reply finds nobody, and nothing stays behind.
PendingIsWaiting ==
  \A k \in ObsConns :
    obClient[k].pending =
      {id \in 1 .. obClient[k].seq :
         /\ id \notin obClient[k].answered
         /\ \E c \in ObsCallers : obCall[c] # NoObsRequest /\ obCall[c].conn = k /\ obCall[c].id = id}

\* "SetConfig persists a new config and triggers a reconnect": once SetConfig
\* has returned, the connection in use was made with the stored configuration
\* or is on its way out.
ConfigTakesEffect ==
  ~obSetter /\ obConn # 0 /\ obClient[obConn].open => obClient[obConn].cfg = obCfg

\* Requests to OBS and connections both end: a pending entry has a caller that
\* waits for it, and after Stop no goroutine and no connection is left.
ObsEndsCleanly == ObsTypeOK /\ ObsStoppedIsQuiet /\ PendingIsWaiting
=============================================================================
