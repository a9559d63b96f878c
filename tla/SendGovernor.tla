---------------------------- MODULE SendGovernor ----------------------------
(* Outbound sends: internal/ratelimit (Governor, Adaptive), the part of
   internal/dispatch that feeds it (SendMany, QueueState) and the handler that
   waits for the result (sendControl.Send in internal/app/wire.go).

   One request process per POST /v1/send walks over its targets: it creates the
   channel's bucket on first sight, queues an entry, then runs drainKey itself, so
   the goroutine of one request may send the entries of others.  Drain, which
   starts one drainKey per channel and waits for them all, is run by the members
   of Drains; no code outside the tests calls it, so the program as shipped is
   the instance with Drains = {}.

   Tokens are kept in units of 1/Window of a token: a bucket whose limit is b
   gains b units per tick and a send costs Window units.  This makes refill and
   Penalize exact in integers.                                               *)
EXTENDS Integers, Sequences, FiniteSets

CONSTANTS
  Requests,   \* POST /v1/send calls, each served by a goroutine of its own
  Keys,       \* channel keys
  Targets,    \* request -> the sequence of keys it posts to
  Drains,     \* goroutines that call Drain over and over
  Burst,      \* the burst every key starts with (Limit.Burst of seed and default)
  Window,     \* Limit.Window, in ticks
  Quiet,      \* Adaptive.quiet, in ticks
  Waits,      \* what a 429 may suggest to wait, in ticks
  MaxTime     \* bound: ticks in one behaviour

ASSUME GovernorAssumption ==
  /\ Burst \in Nat \ {0} /\ Window \in Nat \ {0}
  /\ Quiet \in Nat /\ Waits \subseteq Nat /\ MaxTime \in Nat
  /\ Targets \in [Requests -> Seq(Keys) \ {<< >>}]
  /\ Requests \cap (Drains \X Keys) = {}

(* The goroutines that run drainKey: requests, and one per key of each Drain. *)
Workers == Drains \X Keys
Procs == Requests \cup Workers

VARIABLES
  clock,       \* clk.Now()
  known,       \* keys with an adaptiveState and a channelState
  tokens,      \* key -> channelState.tokens, in 1/Window
  lastRefill,  \* key -> channelState.lastRefill
  limit,       \* key -> channelState.limit.Burst
  cur,         \* key -> adaptiveState.cur.Burst
  lastStep,    \* key -> adaptiveState.lastStep (0 is the zero time)
  queue,       \* key -> channelState.queue
  sending,     \* key -> channelState.sending
  pc,          \* process -> where it is
  key,         \* process -> the key it works on
  now,         \* process -> the clock it read before taking g.mu in drainKey (0 elsewhere)
  ans,         \* process -> the answer it has yet to deliver
  batch,       \* process -> the entries of its batch (ready) not yet answered
  step,        \* process -> the burst it has yet to hand to SetLimit (0: none)
  at,          \* request -> the target it has reached
  result,      \* request -> target -> its result channel
  reply,       \* request -> target -> the status reported to the caller
  enqueued,    \* key -> entries queued so far (history)
  answered,    \* key -> entries whose send returned (history)
  born,        \* key -> when the bucket was created (history)
  notBefore    \* key -> end of the longest wait a 429 asked for since the burst was
               \* last raised (history)

bucketVars == <<known, tokens, lastRefill, limit, born>>
adaptVars == <<cur, lastStep>>
queueVars == <<queue, sending, enqueued, answered>>
procVars == <<pc, key, now, ans, batch, step>>
reqVars == <<at, result, reply>>
vars == <<clock, bucketVars, adaptVars, queueVars, procVars, reqVars, notBefore>>

Least(a, b) == IF a <= b THEN a ELSE b

Init ==
  /\ clock = 0 /\ known = {}
  /\ tokens = [k \in Keys |-> 0]
  /\ lastRefill = [k \in Keys |-> 0]
  /\ limit = [k \in Keys |-> Burst]
  /\ cur = [k \in Keys |-> Burst]
  /\ lastStep = [k \in Keys |-> 0]
  /\ queue = [k \in Keys |-> << >>]
  /\ sending = [k \in Keys |-> "no"]
  /\ batch = [p \in Procs |-> << >>]
  /\ pc = [p \in Procs |-> "idle"]
  /\ key \in [Procs -> Keys]
  /\ \A r \in Requests : key[r] = Targets[r][1]
  /\ \A w \in Workers : key[w] = w[2]
  /\ now = [p \in Procs |-> 0]
  /\ ans = [p \in Procs |-> "none"]
  /\ step = [p \in Procs |-> 0]
  /\ at = [r \in Requests |-> 1]
  /\ result = [r \in Requests |-> [i \in DOMAIN Targets[r] |-> "none"]]
  /\ reply = [r \in Requests |-> [i \in DOMAIN Targets[r] |-> "none"]]
  /\ enqueued = [k \in Keys |-> 0]
  /\ answered = [k \in Keys |-> 0]
  /\ born = [k \in Keys |-> 0]
  /\ notBefore = [k \in Keys |-> 0]

Tick ==
  /\ clock < MaxTime
  /\ clock' = clock + 1
  /\ UNCHANGED <<bucketVars, adaptVars, queueVars, procVars, reqVars, notBefore>>

-----------------------------------------------------------------------------
(* channelState.refill.                                                      *)

(* Mutants of Refilled: the bucket overflows its burst; a clock read before the
   last refill is credited too, from the time it was read.                    *)
RefilledUncapped(k, t) ==
  IF t <= lastRefill[k] THEN tokens[k] ELSE tokens[k] + (t - lastRefill[k]) * limit[k]

(* The tokens of k after refill(t). *)
Refilled(k, t) ==
  IF t <= lastRefill[k] THEN tokens[k]
  ELSE Least(tokens[k] + (t - lastRefill[k]) * limit[k], limit[k] * Window)

(* Mutant of RefilledAt: refill rewinds the bucket to a clock that went stale
   while the goroutine waited for g.mu.                                       *)
RefilledAtStale(k, t) == t

(* lastRefill after refill(t): an old t leaves it alone. *)
RefilledAt(k, t) == IF t <= lastRefill[k] THEN lastRefill[k] ELSE t

-----------------------------------------------------------------------------
(* SendMany.                                                                 *)

(* The request moves past target i: to the next one, or to collecting the
   results.  A worker of Drain ends.                                          *)
Leave(p) ==
  IF p \in Requests
  THEN IF at[p] < Len(Targets[p])
       THEN /\ at' = [at EXCEPT ![p] = @ + 1]
            /\ key' = [key EXCEPT ![p] = Targets[p][at[p] + 1]]
            /\ pc' = [pc EXCEPT ![p] = "target"]
       ELSE /\ at' = [at EXCEPT ![p] = 1]
            /\ pc' = [pc EXCEPT ![p] = "collect"]
            /\ UNCHANGED key
  ELSE /\ pc' = [pc EXCEPT ![p] = "idle"]
       /\ UNCHANGED <<at, key>>

SendRequest(r) ==
  /\ pc[r] = "idle"
  /\ pc' = [pc EXCEPT ![r] = "target"]
  /\ UNCHANGED <<clock, bucketVars, adaptVars, queueVars, key, now, ans, batch, step, reqVars, notBefore>>

(* canSend says no: the target is reported as excluded and nothing is queued. *)
ExcludeTarget(r) ==
  /\ pc[r] = "target"
  /\ reply' = [reply EXCEPT ![r][at[r]] = "excluded"]
  /\ Leave(r)
  /\ UNCHANGED <<clock, bucketVars, adaptVars, queueVars, now, ans, batch, step, result, notBefore>>

(* Adaptive.ensure: a new key starts with a full bucket. *)
Ensure(r) ==
  /\ pc[r] = "target"
  /\ pc' = [pc EXCEPT ![r] = "submit"]
  /\ IF key[r] \in known
     THEN UNCHANGED bucketVars
     ELSE /\ known' = known \cup {key[r]}
          /\ tokens' = [tokens EXCEPT ![key[r]] = Burst * Window]
          /\ lastRefill' = [lastRefill EXCEPT ![key[r]] = clock]
          /\ born' = [born EXCEPT ![key[r]] = clock]
          /\ UNCHANGED limit
  /\ UNCHANGED <<clock, adaptVars, queueVars, key, now, ans, batch, step, reqVars, notBefore>>

(* Governor.Submit up to its call of drainKey. *)
Enqueue(r) ==
  /\ pc[r] = "submit"
  /\ LET k == key[r] IN
     /\ queue' = [queue EXCEPT ![k] =
                    Append(@, [seq |-> enqueued[k] + 1, req |-> r, tgt |-> at[r]])]
     /\ enqueued' = [enqueued EXCEPT ![k] = @ + 1]
  /\ result' = [result EXCEPT ![r][at[r]] = "empty"]
  /\ pc' = [pc EXCEPT ![r] = "now"]
  /\ UNCHANGED <<clock, bucketVars, adaptVars, sending, batch, answered, key, now, ans, step,
                 at, reply, notBefore>>

(* Drain: one goroutine per known key; the next round starts after wg.Wait.   *)
Drain(d) ==
  /\ \A k \in Keys : pc[<<d, k>>] = "idle"
  /\ known # {}
  /\ pc' = [p \in Procs |-> IF p \in {d} \X known THEN "now" ELSE pc[p]]
  /\ UNCHANGED <<clock, bucketVars, adaptVars, queueVars, key, now, ans, batch, step, reqVars, notBefore>>

-----------------------------------------------------------------------------
(* drainKey.                                                                 *)

(* now := g.clk.Now(), before g.mu is taken. *)
ReadClock(p) ==
  /\ pc[p] = "now"
  /\ now' = [now EXCEPT ![p] = clock]
  /\ pc' = [pc EXCEPT ![p] = "lock"]
  /\ UNCHANGED <<clock, bucketVars, adaptVars, queueVars, key, ans, batch, step, reqVars, notBefore>>

(* A batch is in flight: return. *)
DrainBusy(p) ==
  /\ pc[p] = "lock"
  /\ sending[key[p]] = "yes"
  /\ Leave(p)
  /\ now' = [now EXCEPT ![p] = 0]
  /\ UNCHANGED <<clock, bucketVars, adaptVars, queueVars, ans, batch, step, result, reply, notBefore>>

(* The number of entries the tokens allow. *)
Ready(k, t) == Least(Refilled(k, t) \div Window, Len(queue[k]))

(* No token or nothing queued: return, with the bucket refilled. *)
DrainNothing(p) ==
  LET k == key[p] IN
  /\ pc[p] = "lock"
  /\ sending[k] = "no"
  /\ Ready(k, now[p]) <= 0
  /\ tokens' = [tokens EXCEPT ![k] = Refilled(k, now[p])]
  /\ lastRefill' = [lastRefill EXCEPT ![k] = RefilledAt(k, now[p])]
  /\ Leave(p)
  /\ now' = [now EXCEPT ![p] = 0]
  /\ UNCHANGED <<clock, known, limit, born, adaptVars, queueVars, ans, batch, step,
                 result, reply, notBefore>>

TakeReady(p, k, n) ==
  /\ tokens' = [tokens EXCEPT ![k] = Refilled(k, now[p]) - n * Window]
  /\ lastRefill' = [lastRefill EXCEPT ![k] = RefilledAt(k, now[p])]
  /\ batch' = [batch EXCEPT ![p] = SubSeq(queue[k], 1, n)]
  /\ queue' = [queue EXCEPT ![k] = SubSeq(@, n + 1, Len(@))]
  /\ sending' = [sending EXCEPT ![k] = "yes"]
  /\ pc' = [pc EXCEPT ![p] = "send"]
  /\ now' = [now EXCEPT ![p] = 0]
  /\ UNCHANGED <<clock, known, limit, born, adaptVars, enqueued, answered, key, ans, step,
                 reqVars, notBefore>>

(* Mutants of DrainTake: a second batch starts while one is in flight; the whole
   queue is taken once there is a token.                                      *)
DrainTakeUnguarded(p) ==
  LET k == key[p] IN
  /\ pc[p] = "lock"
  /\ Ready(k, now[p]) > 0
  /\ TakeReady(p, k, Ready(k, now[p]))

DrainTakeAll(p) ==
  LET k == key[p] IN
  /\ pc[p] = "lock"
  /\ sending[k] = "no"
  /\ Ready(k, now[p]) > 0
  /\ TakeReady(p, k, Len(queue[k]))

(* Pop as many entries as there are tokens and mark the batch in flight. *)
DrainTake(p) ==
  LET k == key[p] IN
  /\ pc[p] = "lock"
  /\ sending[k] = "no"
  /\ Ready(k, now[p]) > 0
  /\ TakeReady(p, k, Ready(k, now[p]))

Entry(p) == Head(batch[p])

(* net/http cancels the request's context once its handler has returned. *)
Cancelled(r) == pc[r] = "returned"

(* Adapter.Send is called for the first entry of the batch, with the context of the
   request that queued it: one that is already cancelled can only fail.       *)
SendStart(p) ==
  /\ pc[p] = "send"
  /\ batch[p] # << >>
  /\ pc' = [pc EXCEPT ![p] = IF Cancelled(Entry(p).req) THEN "doomed" ELSE "wait"]
  /\ UNCHANGED <<clock, bucketVars, adaptVars, queueVars, key, now, ans, batch, step, reqVars, notBefore>>

-----------------------------------------------------------------------------
(* The send wrapper of Adaptive.Submit.                                      *)

(* Mutant of HitBurst: no floor. *)
HitBurstNoFloor(b) == b \div 2
HitBurst(b) == IF b > 1 THEN b \div 2 ELSE b

RecoverBurst(b) == Least(2 * b, Burst)
CanRecover(k) == cur[k] < Burst /\ clock - lastStep[k] >= Quiet

(* The platform took the message.  maybeRecover steps the burst up after a quiet
   stretch; SetLimit follows outside a.mu.                                    *)
SendOk(p) ==
  LET k == key[p] IN
  /\ pc[p] = "wait"
  /\ ans' = [ans EXCEPT ![p] = "ok"]
  /\ IF CanRecover(k)
     THEN /\ cur' = [cur EXCEPT ![k] = RecoverBurst(@)]
          /\ lastStep' = [lastStep EXCEPT ![k] = clock]
          /\ step' = [step EXCEPT ![p] = RecoverBurst(cur[k])]
          /\ pc' = [pc EXCEPT ![p] = "recover"]
     ELSE /\ pc' = [pc EXCEPT ![p] = "deliver"]
          /\ UNCHANGED <<adaptVars, step>>
  /\ UNCHANGED <<clock, bucketVars, queueVars, key, now, batch, reqVars, notBefore>>

(* Any other error, a cancelled context among them. *)
SendFail(p) ==
  /\ pc[p] \in {"wait", "doomed"}
  /\ ans' = [ans EXCEPT ![p] = "failed"]
  /\ pc' = [pc EXCEPT ![p] = "deliver"]
  /\ UNCHANGED <<clock, bucketVars, adaptVars, queueVars, key, now, batch, step, reqVars, notBefore>>

(* A 429: hit under a.mu. *)
SendLimited(p) ==
  LET k == key[p] IN
  /\ pc[p] = "wait"
  /\ ans' = [ans EXCEPT ![p] = "failed"]
  /\ cur' = [cur EXCEPT ![k] = HitBurst(@)]
  /\ lastStep' = [lastStep EXCEPT ![k] = clock]
  /\ step' = [step EXCEPT ![p] = HitBurst(cur[k])]
  /\ pc' = [pc EXCEPT ![p] = "tighten"]
  /\ UNCHANGED <<clock, bucketVars, queueVars, key, now, batch, reqVars, notBefore>>

AfterSetLimit(p) ==
  /\ pc' = [pc EXCEPT ![p] = IF pc[p] = "tighten" THEN "penalize" ELSE "deliver"]
  /\ step' = [step EXCEPT ![p] = 0]
  /\ notBefore' = IF pc[p] = "tighten" THEN notBefore ELSE [notBefore EXCEPT ![key[p]] = 0]
  /\ UNCHANGED <<clock, known, lastRefill, born, adaptVars, queueVars, key, now, ans, batch,
                 reqVars>>

(* Governor.SetLimit with the burst hit or maybeRecover computed before it let go of
   a.mu.                                                                      *)
SetLimit(p) ==
  /\ pc[p] \in {"tighten", "recover"}
  /\ limit' = [limit EXCEPT ![key[p]] = step[p]]
  /\ tokens' = [tokens EXCEPT ![key[p]] = Least(@, step[p] * Window)]
  /\ AfterSetLimit(p)

(* Mutant of Penalty: the bucket is only emptied, whatever the wait. *)
PenaltyIgnoresWait(k, w) == 0

(* The floor of Penalize: one token is back after w, or after one refill interval. *)
Penalty(k, w) == Least(0, Window - w * limit[k])

Penalize(p, w) ==
  LET k == key[p] IN
  /\ pc[p] = "penalize"
  /\ tokens' = [tokens EXCEPT ![k] = Least(Refilled(k, clock), Penalty(k, w))]
  /\ lastRefill' = [lastRefill EXCEPT ![k] = RefilledAt(k, clock)]
  /\ notBefore' = [notBefore EXCEPT ![k] = IF @ >= clock + w THEN @ ELSE clock + w]
  /\ pc' = [pc EXCEPT ![p] = "deliver"]
  /\ UNCHANGED <<clock, known, limit, born, adaptVars, queueVars, key, now, ans, batch, step, reqVars>>

(* e.result <- err, and on to the next entry of the batch. *)
Deliver(p) ==
  LET k == key[p] IN
  /\ pc[p] = "deliver"
  /\ result' = [result EXCEPT ![Entry(p).req][Entry(p).tgt] = ans[p]]
  /\ batch' = [batch EXCEPT ![p] = Tail(@)]
  /\ answered' = [answered EXCEPT ![k] = @ + 1]
  /\ pc' = [pc EXCEPT ![p] = "send"]
  /\ ans' = [ans EXCEPT ![p] = "none"]
  /\ UNCHANGED <<clock, bucketVars, adaptVars, queue, sending, enqueued, key, now, step,
                 at, reply, notBefore>>

(* Mutant of DrainDone: the flag stays set. *)
DrainDoneKeepsFlag(p) ==
  /\ pc[p] = "send"
  /\ batch[p] = << >>
  /\ Leave(p)
  /\ UNCHANGED <<clock, bucketVars, adaptVars, queueVars, now, ans, batch, step,
                 result, reply, notBefore>>

(* The batch is done: sending is cleared and drainKey returns without looking at
   the queue again.                                                           *)
DrainDone(p) ==
  /\ pc[p] = "send"
  /\ batch[p] = << >>
  /\ sending' = [sending EXCEPT ![key[p]] = "no"]
  /\ Leave(p)
  /\ UNCHANGED <<clock, bucketVars, adaptVars, queue, batch, enqueued, answered, now, ans, step,
                 result, reply, notBefore>>

-----------------------------------------------------------------------------
(* sendControl.Send: one non-blocking receive per queued target, then return. *)

Status(x) == CASE x = "ok" -> "sent" [] x = "failed" -> "dropped" [] OTHER -> "queued"

Collect(r) ==
  /\ pc[r] = "collect"
  /\ reply' = IF reply[r][at[r]] = "excluded" THEN reply
              ELSE [reply EXCEPT ![r][at[r]] = Status(result[r][at[r]])]
  /\ IF at[r] < Len(Targets[r])
     THEN at' = [at EXCEPT ![r] = @ + 1] /\ UNCHANGED pc
     ELSE pc' = [pc EXCEPT ![r] = "returned"] /\ UNCHANGED at
  /\ UNCHANGED <<clock, bucketVars, adaptVars, queueVars, key, now, ans, batch, step, result, notBefore>>

(* Governor.State, behind POST /v1/send/queue: it refills the bucket. *)
QueueState(k) ==
  /\ k \in known
  /\ clock > lastRefill[k]
  /\ tokens' = [tokens EXCEPT ![k] = Refilled(k, clock)]
  /\ lastRefill' = [lastRefill EXCEPT ![k] = clock]
  /\ UNCHANGED <<clock, known, limit, born, adaptVars, queueVars, procVars, reqVars, notBefore>>

-----------------------------------------------------------------------------
DrainKeyStep(p) ==
  \/ ReadClock(p)
  \/ DrainBusy(p)
  \/ DrainNothing(p)
  \/ DrainTake(p)
  \/ SendStart(p)
  \/ SetLimit(p)
  \/ \E w \in Waits : Penalize(p, w)
  \/ Deliver(p)
  \/ DrainDone(p)

SendReturns(p) == SendOk(p) \/ SendFail(p) \/ SendLimited(p)

RequestStep(r) ==
  \/ ExcludeTarget(r)
  \/ Ensure(r)
  \/ Enqueue(r)
  \/ Collect(r)

Next ==
  \/ Tick
  \/ \E r \in Requests : SendRequest(r) \/ RequestStep(r)
  \/ \E d \in Drains : Drain(d)
  \/ \E p \in Procs : DrainKeyStep(p) \/ SendReturns(p)
  \/ \E k \in Keys : QueueState(k)

Spec == Init /\ [][Next]_vars

(* Goroutines are scheduled, a send returns (the adapters' HTTP clients have
   timeouts) and time passes.  Whether requests arrive is left open.          *)
Fairness ==
  /\ WF_vars(Tick)
  /\ \A r \in Requests : WF_vars(RequestStep(r))
  /\ \A d \in Drains : WF_vars(Drain(d))
  /\ \A p \in Procs : WF_vars(DrainKeyStep(p) \/ SendReturns(p))

FairSpec == Spec /\ Fairness

-----------------------------------------------------------------------------
(* Properties.                                                               *)

Pcs == {"idle", "target", "submit", "now", "lock", "send", "wait", "doomed", "tighten", "penalize",
        "recover", "deliver", "collect", "returned"}
Entries == [seq : Nat \ {0}, req : Requests, tgt : Nat \ {0}]

(* Type invariant; a tightened burst never leaves 1..Burst, so a bucket always
   refills.                                                                   *)
TypeOK ==
  /\ clock \in Nat /\ known \subseteq Keys
  /\ tokens \in [Keys -> Int] /\ lastRefill \in [Keys -> Nat]
  /\ limit \in [Keys -> 1 .. Burst] /\ cur \in [Keys -> 1 .. Burst]
  /\ lastStep \in [Keys -> Nat] /\ born \in [Keys -> Nat] /\ notBefore \in [Keys -> Nat]
  /\ queue \in [Keys -> Seq(Entries)] /\ batch \in [Procs -> Seq(Entries)]
  /\ sending \in [Keys -> {"no", "yes"}]
  /\ enqueued \in [Keys -> Nat] /\ answered \in [Keys -> Nat]
  /\ pc \in [Procs -> Pcs] /\ key \in [Procs -> Keys] /\ now \in [Procs -> Nat]
  /\ ans \in [Procs -> {"none", "ok", "failed"}] /\ step \in [Procs -> 0 .. Burst]
  /\ at \in [Requests -> Nat \ {0}]
  /\ \A r \in Requests : \A i \in DOMAIN Targets[r] :
       /\ result[r][i] \in {"none", "empty", "ok", "failed"}
       /\ reply[r][i] \in {"none", "excluded", "sent", "dropped", "queued"}

Taken(k) == enqueued[k] - Len(queue[k])

(* Entries of one key are answered once each and in the order Submit queued them,
   whichever goroutines run drainKey: at most one batch is in flight, it holds the
   oldest unanswered entries in order, and the queue holds the rest.          *)
SendsInOrder ==
  \A k \in Keys :
    /\ \A p \in Procs : key[p] = k /\ batch[p] # << >> =>
         /\ sending[k] = "yes"
         /\ answered[k] + Len(batch[p]) = Taken(k)
         /\ \A i \in DOMAIN batch[p] : batch[p][i].seq = answered[k] + i
    /\ sending[k] = "no" => answered[k] = Taken(k)
    /\ \A i \in DOMAIN queue[k] : queue[k][i].seq = Taken(k) + i

(* The governor and the adaptive layer agree on a key's burst unless the one batch
   in flight is between the two locks: SetLimit carries no stale value.  Repeated
   429s never halve the burst to zero, from which no refill would lead back.    *)
LimitFollows ==
  /\ TypeOK
  /\ \A k \in Keys :
       /\ cur[k] >= 1
       /\ limit[k] = cur[k] \/ \E p \in Procs : key[p] = k /\ pc[p] \in {"tighten", "recover"}

(* The platform's limit holds over the whole life of a channel: sends made by the
   time of the last refill never exceed one burst plus what the seed's rate gives,
   whatever the clock readings, the penalties and the changes of limit.       *)
Paced ==
  \A k \in known :
    /\ Taken(k) * Window + tokens[k]
         <= Burst * Window + Burst * (lastRefill[k] - born[k])
    /\ lastRefill[k] <= clock
    /\ tokens[k] <= Burst * Window

(* Penalize: no new batch is taken from a key's queue before the wait a 429 asked for
   is over, although the clock of drainKey is read before the penalty may strike.
   (A recovery step inside the wait ends it early: the refill speeds up.)      *)
PenaltyHeld ==
  [][\A k \in Keys : sending[k] = "no" /\ sending'[k] = "yes" => clock >= notBefore[k]]_vars

(* A send is queued and a token is there. *)
Dispatchable(k) == k \in known /\ queue[k] # << >> /\ Refilled(k, clock) >= Window

(* What Submit and Drain promise: "Call Drain (or run a drain loop) to make
   progress", "Production calls this on a ticker".  A queued send the bucket
   allows is dispatched.                                                      *)
QueueMovesOn == \A k \in Keys : Dispatchable(k) ~> ~Dispatchable(k)

(* Two more statements of the code that this model refutes; see the README.   *)

(* What Submit promises: "nothing is ever dropped silently".  A send that is dispatched
   still has a live context; without one it fails, and the channel its result goes
   to has no reader left.                                                     *)
NothingDroppedSilently == \A p \in Procs : pc[p] # "doomed"

(* What hit promises: "empty the bucket so nothing dispatches before the server's
   suggested wait".                                                           *)
NothingBeforeWait ==
  [][\A p \in Procs : pc[p] = "send" /\ pc'[p] = "wait" => clock >= notBefore[key[p]]]_vars
=============================================================================
