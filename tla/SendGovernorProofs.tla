------------------------- MODULE SendGovernorProofs -------------------------
(* Proofs about SendGovernor, for any number of requests, channels and draining
   goroutines, any burst, window and waits, and without its bounds: entries are sent
   once and in order, the two layers agree on the burst, no channel exceeds its rate,
   and no batch starts inside a wait a 429 asked for.                         *)
EXTENDS SendGovernor, TLAPS

-----------------------------------------------------------------------------
(* The inductive invariant.                                                  *)

(* A process that has taken a batch and has not cleared the flag yet; it works on an
   entry in all but the first of these states.                                *)
Sending == {"wait", "doomed", "tighten", "penalize", "recover", "deliver"}
InFlight(p) == pc[p] = "send" \/ pc[p] \in Sending

(* The flag gives the channel to one process, and only that one has entries. *)
Exclusive ==
  /\ \A p \in Procs : InFlight(p) => sending[key[p]] = "yes"
  /\ \A p, q \in Procs : InFlight(p) /\ InFlight(q) /\ key[p] = key[q] => p = q
  /\ \A p \in Procs : ~InFlight(p) => batch[p] = << >>
  /\ \A p \in Procs : pc[p] \in Sending => batch[p] # << >>

(* What is in flight, and what is queued, in the order of Submit. *)
Carries(p, k) ==
  /\ answered[k] + Len(batch[p]) = Taken(k)
  /\ \A i \in DOMAIN batch[p] : batch[p][i].seq = answered[k] + i
Numbered ==
  /\ \A p \in Procs : InFlight(p) => Carries(p, key[p])
  /\ \A k \in Keys : sending[k] = "no" => answered[k] = Taken(k)
  /\ \A k \in Keys : \A i \in DOMAIN queue[k] : queue[k][i].seq = Taken(k) + i

(* Between the two locks the process carries the burst the adaptive layer has. *)
Agree ==
  /\ \A p \in Procs : pc[p] \in {"tighten", "recover"} => step[p] = cur[key[p]]
  /\ \A p \in Procs : pc[p] = "tighten" => step[p] <= limit[key[p]]
  /\ \A k \in Keys :
       limit[k] = cur[k] \/ \E p \in Procs : key[p] = k /\ pc[p] \in {"tighten", "recover"}

(* Only a channel that ensure has seen has entries or is worked on. *)
Working == {"submit", "now", "lock", "send"} \cup Sending
Ensured ==
  /\ \A p \in Procs : pc[p] \in Working => key[p] \in known
  /\ \A w \in Workers : key[w] = w[2]
  /\ \A k \in Keys \ known : enqueued[k] = 0 /\ queue[k] = << >> /\ notBefore[k] = 0

(* Clock readings are past, and the bucket holds no more than was earned; within a wait
   it cannot reach a token before the wait is over.                           *)
Past ==
  /\ \A p \in Procs : now[p] <= clock
  /\ \A k \in known : lastRefill[k] <= clock
Earned ==
  \A k \in known :
    /\ Taken(k) * Window + tokens[k] <= Burst * Window + Burst * (lastRefill[k] - born[k])
    /\ tokens[k] <= Burst * Window
Held ==
  \A k \in Keys : notBefore[k] > lastRefill[k] =>
    tokens[k] + (notBefore[k] - lastRefill[k]) * limit[k] <= Window

(* Which targets a request may reach. *)
Within == \A r \in Requests : at[r] <= Len(Targets[r])
Holds(f, S) ==
  /\ f = [r \in Requests |-> f[r]]
  /\ \A r \in Requests : f[r] \in [DOMAIN Targets[r] -> S]
Typed ==
  /\ TypeOK /\ Within
  /\ Holds(result, {"none", "empty", "ok", "failed"})
  /\ Holds(reply, {"none", "excluded", "sent", "dropped", "queued"})

GovInv == Typed /\ Exclusive /\ Numbered /\ Agree /\ Ensured /\ Past /\ Earned /\ Held

-----------------------------------------------------------------------------
(* Arithmetic: the solvers do not find products by themselves.               *)

(* A product with a natural number is monotone. *)
LEMMA Mono ==
  ASSUME NEW a \in Int, NEW b \in Int, NEW x \in Nat, a <= b
  PROVE  a * x <= b * x
  OBVIOUS

(* Two spans at one rate add up. *)
LEMMA Spans ==
  ASSUME NEW a \in Int, NEW b \in Int, NEW c \in Int, NEW x \in Int
  PROVE  (b - a) * x + (c - b) * x = (c - a) * x
  OBVIOUS

(* Products commute and are integers. *)
LEMMA Times ==
  ASSUME NEW a \in Int, NEW b \in Int
  PROVE  a * b \in Int /\ a * b = b * a
  OBVIOUS

(* refill never moves the clock of a bucket back, and adds at most what the time since
   the last refill earns at the present rate.                                 *)
LEMMA RefillFacts ==
  ASSUME TypeOK, NEW k \in Keys, NEW t \in Nat
  PROVE  /\ Refilled(k, t) \in Int
         /\ RefilledAt(k, t) \in Nat
         /\ RefilledAt(k, t) >= lastRefill[k]
         /\ RefilledAt(k, t) >= t
         /\ RefilledAt(k, t) \in {t, lastRefill[k]}
         /\ Refilled(k, t) <= tokens[k] + (RefilledAt(k, t) - lastRefill[k]) * limit[k]
         /\ tokens[k] <= Burst * Window => Refilled(k, t) <= Burst * Window
<1>1. /\ tokens[k] \in Int /\ lastRefill[k] \in Nat /\ limit[k] \in 1 .. Burst
      /\ Burst \in Nat /\ Window \in Nat
  BY GovernorAssumption DEF TypeOK
<1>2. limit[k] * Window <= Burst * Window /\ limit[k] * Window \in Int /\ Burst * Window \in Int
  BY <1>1, Mono, Times
<1>3. CASE t <= lastRefill[k]
  <2>1. Refilled(k, t) = tokens[k] /\ RefilledAt(k, t) = lastRefill[k]
    BY <1>3 DEF Refilled, RefilledAt
  <2>2. (lastRefill[k] - lastRefill[k]) * limit[k] = 0
    BY <1>1
  <2> QED
    BY <1>1, <1>2, <1>3, <2>1, <2>2
<1>4. CASE ~(t <= lastRefill[k])
  <2>1. /\ Refilled(k, t) = Least(tokens[k] + (t - lastRefill[k]) * limit[k], limit[k] * Window)
        /\ RefilledAt(k, t) = t
    BY <1>4 DEF Refilled, RefilledAt
  <2>2. (t - lastRefill[k]) * limit[k] \in Int
    BY <1>1, Times
  <2> QED
    BY <1>1, <1>2, <1>4, <2>1, <2>2 DEF Least
<1> QED
  BY <1>3, <1>4

-----------------------------------------------------------------------------
(* Steps that touch a bucket.                                                *)

(* What the bucket arithmetic knows of one channel. *)
LEMMA BucketTypes ==
  ASSUME TypeOK, NEW k \in Keys
  PROVE  /\ tokens[k] \in Int /\ lastRefill[k] \in Nat /\ limit[k] \in Nat /\ limit[k] >= 1
         /\ limit[k] <= Burst /\ born[k] \in Nat /\ notBefore[k] \in Nat
         /\ Burst \in Nat /\ Window \in Nat /\ Window >= 1
         /\ queue[k] \in Seq(Entries) /\ Len(queue[k]) \in Nat /\ enqueued[k] \in Nat
         /\ answered[k] \in Nat /\ Taken(k) \in Int /\ Taken(k) = enqueued[k] - Len(queue[k])
<1>1. queue[k] \in Seq(Entries)
  BY DEF TypeOK
<1>2. Len(queue[k]) \in Nat
  BY <1>1
<1> QED
  BY <1>1, <1>2, GovernorAssumption DEF TypeOK, Taken

(* A step that leaves the buckets, the waits and the number of entries taken alone
   leaves their invariants alone.                                             *)
LEMMA BucketsIdle ==
  ASSUME TypeOK, Earned, Held, UNCHANGED <<bucketVars, notBefore>>, known \subseteq Keys,
         \A k \in Keys : Taken(k)' = Taken(k)
  PROVE  Earned' /\ Held'
<1>1. UNCHANGED <<known, tokens, lastRefill, limit, born, notBefore>>
  BY DEF bucketVars
<1>2. Earned'
  <2>1. ASSUME NEW k \in known
        PROVE  /\ Taken(k)' * Window + tokens[k]
                    <= Burst * Window + Burst * (lastRefill[k] - born[k])
               /\ tokens[k] <= Burst * Window
    BY <2>1 DEF Earned
  <2> QED
    BY <1>1, <2>1 DEF Earned
<1>3. Held'
  BY <1>1 DEF Held
<1> QED
  BY <1>2, <1>3

(* A refill to t that takes n tokens and leaves v. *)
LEMMA RefillEarned ==
  ASSUME TypeOK, Earned, NEW k \in known, NEW t \in Nat, NEW n \in Nat, NEW v \in Int,
         v + n * Window <= Refilled(k, t),
         tokens' = [tokens EXCEPT ![k] = v],
         lastRefill' = [lastRefill EXCEPT ![k] = RefilledAt(k, t)],
         UNCHANGED <<known, born>>,
         Taken(k)' = Taken(k) + n,
         \A j \in Keys \ {k} : Taken(j)' = Taken(j)
  PROVE  Earned'
<1>k. k \in Keys /\ known \subseteq Keys
  BY DEF TypeOK
<1>1. /\ tokens'[k] = v /\ lastRefill'[k] = RefilledAt(k, t)
      /\ \A j \in Keys \ {k} : tokens'[j] = tokens[j] /\ lastRefill'[j] = lastRefill[j]
  BY <1>k DEF TypeOK
<1> DEFINE a == RefilledAt(k, t) - lastRefill[k]
           b == lastRefill[k] - born[k]
<1>2. /\ Taken(k) * Window + tokens[k] <= Burst * Window + Burst * b
      /\ tokens[k] <= Burst * Window
  BY DEF Earned
<1>3. /\ Refilled(k, t) \in Int /\ Refilled(k, t) <= tokens[k] + a * limit[k]
      /\ a \in Nat /\ Refilled(k, t) <= Burst * Window
  <2>1. RefilledAt(k, t) \in Nat /\ RefilledAt(k, t) >= lastRefill[k] /\ lastRefill[k] \in Nat
    BY <1>k, RefillFacts, BucketTypes
  <2> QED
    BY <2>1, <1>2, <1>k, RefillFacts
<1>4. b \in Int /\ RefilledAt(k, t) - born[k] = a + b
  <2>1. RefilledAt(k, t) \in Nat /\ lastRefill[k] \in Nat /\ born[k] \in Nat
    BY <1>k, RefillFacts, BucketTypes
  <2> QED
    BY <2>1
<1>5. /\ tokens[k] \in Int /\ limit[k] \in Nat /\ limit[k] <= Burst /\ Burst \in Nat /\ Window \in Nat
      /\ Taken(k) \in Int
  BY <1>k, BucketTypes
<1> HIDE DEF a, b
<1>6. a * limit[k] <= Burst * a /\ a * limit[k] \in Int /\ Burst * a \in Int
  BY <1>3, <1>5, Mono, Times
<1>7. Burst * (a + b) = Burst * a + Burst * b /\ Burst * b \in Int
  BY <1>3, <1>4, <1>5
<1>8. (Taken(k) + n) * Window = Taken(k) * Window + n * Window /\ Taken(k) * Window \in Int
  BY <1>5
<1>9. n * Window \in Nat /\ Burst * Window \in Int
  BY <1>5
<1>10. /\ (Taken(k) + n) * Window + v <= Burst * Window + Burst * (a + b)
       /\ v <= Burst * Window
  BY <1>2, <1>3, <1>5, <1>6, <1>7, <1>8, <1>9
<1>11. ASSUME NEW j \in known
       PROVE  /\ Taken(j)' * Window + tokens'[j]
                    <= Burst * Window + Burst * (lastRefill'[j] - born[j])
              /\ tokens'[j] <= Burst * Window
  <2>1. CASE j = k
    BY <2>1, <1>1, <1>4, <1>10
  <2>2. CASE j # k
    <3>1. /\ Taken(j)' = Taken(j) /\ tokens'[j] = tokens[j] /\ lastRefill'[j] = lastRefill[j]
      BY <2>2, <1>1, <1>k
    <3> QED
      BY <3>1 DEF Earned
  <2> QED
    BY <2>1, <2>2
<1> QED
  BY <1>11 DEF Earned

(* A refill during a wait brings the bucket no closer to a token than time does. *)
LEMMA RefillHeld ==
  ASSUME TypeOK, Held, NEW k \in Keys, NEW t \in Nat, NEW v \in Int,
         v <= Refilled(k, t),
         tokens' = [tokens EXCEPT ![k] = v],
         lastRefill' = [lastRefill EXCEPT ![k] = RefilledAt(k, t)],
         UNCHANGED <<limit, notBefore>>
  PROVE  Held'
<1>1. /\ tokens'[k] = v /\ lastRefill'[k] = RefilledAt(k, t)
      /\ \A j \in Keys \ {k} : tokens'[j] = tokens[j] /\ lastRefill'[j] = lastRefill[j]
  BY DEF TypeOK
<1>2. ASSUME NEW j \in Keys, notBefore[j] > lastRefill'[j]
      PROVE  tokens'[j] + (notBefore[j] - lastRefill'[j]) * limit[j] <= Window
  <2>1. CASE j = k
    <3> DEFINE a == RefilledAt(k, t)
    <3>1. /\ a \in Nat /\ a >= lastRefill[k] /\ Refilled(k, t) \in Int
          /\ Refilled(k, t) <= tokens[k] + (a - lastRefill[k]) * limit[k]
      BY RefillFacts
    <3>2. /\ tokens[k] \in Int /\ lastRefill[k] \in Nat /\ limit[k] \in Int /\ notBefore[k] \in Nat
          /\ Window \in Int
      BY BucketTypes
    <3>3. notBefore[k] > a
      BY <1>1, <1>2, <2>1
    <3> HIDE DEF a
    <3>4. tokens[k] + (notBefore[k] - lastRefill[k]) * limit[k] <= Window
      BY <3>1, <3>2, <3>3 DEF Held
    <3>5. (a - lastRefill[k]) * limit[k] + (notBefore[k] - a) * limit[k]
            = (notBefore[k] - lastRefill[k]) * limit[k]
      BY <3>1, <3>2, Spans
    <3>6. (a - lastRefill[k]) * limit[k] \in Int /\ (notBefore[k] - a) * limit[k] \in Int
      BY <3>1, <3>2, Times
    <3>7. v + (notBefore[k] - a) * limit[k] <= Window
      BY <3>1, <3>2, <3>4, <3>5, <3>6
    <3> QED
      BY <3>7, <2>1, <1>1 DEF a
  <2>2. CASE j # k
    BY <2>2, <1>1, <1>2 DEF Held
  <2> QED
    BY <2>1, <2>2
<1> QED
  BY <1>2 DEF Held

(* ensure gives a new channel one burst, and it has no wait yet. *)
LEMMA EnsureBuckets ==
  ASSUME TypeOK, Ensured, Earned, Held, NEW r \in Requests, Ensure(r), r \in Procs
  PROVE  Earned' /\ Held'
<1>0. PICK k \in Keys : k = key[r]
  BY DEF TypeOK
<1>k. known \subseteq Keys /\ clock \in Nat
  BY DEF TypeOK
<1>u. UNCHANGED <<limit, notBefore, queue, enqueued>>
  BY DEF Ensure, bucketVars, queueVars
<1>t. \A j \in Keys : Taken(j)' = Taken(j)
  BY <1>u DEF Taken
<1>1. CASE k \in known
  <2>1. UNCHANGED <<bucketVars, notBefore>>
    BY <1>0, <1>1, <1>u DEF Ensure
  <2> QED
    BY <2>1, <1>k, <1>t, BucketsIdle
<1>2. CASE k \notin known
  <2>1. /\ known' = known \cup {k}
        /\ tokens' = [tokens EXCEPT ![k] = Burst * Window]
        /\ lastRefill' = [lastRefill EXCEPT ![k] = clock]
        /\ born' = [born EXCEPT ![k] = clock]
    BY <1>0, <1>2 DEF Ensure
  <2>2. enqueued[k] = 0 /\ queue[k] = << >> /\ notBefore[k] = 0
    BY <1>2 DEF Ensured
  <2>3. Taken(k) = 0
    <3>1. Len(queue[k]) = 0 /\ enqueued[k] = 0
      BY <2>2
    <3> QED
      BY <3>1 DEF Taken
  <2>4. /\ tokens'[k] = Burst * Window /\ lastRefill'[k] = clock /\ born'[k] = clock
        /\ \A j \in Keys \ {k} : /\ tokens'[j] = tokens[j] /\ lastRefill'[j] = lastRefill[j]
                                 /\ born'[j] = born[j]
    BY <2>1, <1>k DEF TypeOK
  <2>5. Burst * Window \in Int /\ Burst \in Int /\ Window \in Int
    BY GovernorAssumption
  <2>6. Earned'
    <3>1. ASSUME NEW j \in known'
          PROVE  /\ Taken(j)' * Window + tokens'[j]
                      <= Burst * Window + Burst * (lastRefill'[j] - born'[j])
                 /\ tokens'[j] <= Burst * Window
      <4>1. CASE j = k
        <5>1. Taken(k)' * Window = 0 /\ Burst * (clock - clock) = 0
          BY <1>k, <1>t, <2>3, <2>5
        <5> QED
          BY <4>1, <5>1, <2>4, <2>5
      <4>2. CASE j # k
        <5>1. j \in known /\ j \in Keys \ {k}
          BY <4>2, <2>1, <1>k
        <5>2. /\ Taken(j)' = Taken(j) /\ tokens'[j] = tokens[j] /\ lastRefill'[j] = lastRefill[j]
              /\ born'[j] = born[j]
          BY <5>1, <2>4, <1>t
        <5> QED
          BY <5>1, <5>2 DEF Earned
      <4> QED
        BY <4>1, <4>2
    <3> QED
      BY <3>1 DEF Earned
  <2>7. Held'
    <3>1. ASSUME NEW j \in Keys, notBefore'[j] > lastRefill'[j]
          PROVE  tokens'[j] + (notBefore'[j] - lastRefill'[j]) * limit'[j] <= Window
      <4>1. j # k
        BY <3>1, <2>2, <2>4, <1>u, <1>k
      <4> QED
        BY <3>1, <4>1, <2>4, <1>u DEF Held
    <3> QED
      BY <3>1 DEF Held
  <2> QED
    BY <2>6, <2>7
<1> QED
  BY <1>1, <1>2

(* SetLimit only takes tokens away; a tightened bucket refills no faster, and a raised
   one has its wait over.                                                     *)
LEMMA SetLimitBuckets ==
  ASSUME TypeOK, Agree, Earned, Held, NEW p \in Procs, SetLimit(p)
  PROVE  Earned' /\ Held'
<1> DEFINE k == key[p]
           s == step[p]
<1>k. k \in Keys /\ known \subseteq Keys /\ s \in Nat /\ s >= 1
  <2>1. key[p] \in Keys /\ step[p] \in 0 .. Burst /\ cur[key[p]] \in 1 .. Burst
    BY DEF TypeOK
  <2>2. step[p] = cur[key[p]]
    BY DEF SetLimit, Agree
  <2> QED
    BY <2>1, <2>2, GovernorAssumption DEF TypeOK
<1>1. /\ limit' = [limit EXCEPT ![k] = s]
      /\ tokens' = [tokens EXCEPT ![k] = Least(@, s * Window)]
      /\ UNCHANGED <<known, lastRefill, born, queue, enqueued>>
      /\ notBefore' = IF pc[p] = "tighten" THEN notBefore ELSE [notBefore EXCEPT ![k] = 0]
  BY DEF SetLimit, AfterSetLimit, queueVars
<1>2. pc[p] = "tighten" => s <= limit[k]
  BY DEF Agree
<1>t. \A j \in Keys : Taken(j)' = Taken(j)
  BY <1>1 DEF Taken
<1> HIDE DEF k, s
<1>3. /\ tokens'[k] = Least(tokens[k], s * Window) /\ limit'[k] = s
      /\ \A j \in Keys \ {k} : tokens'[j] = tokens[j] /\ limit'[j] = limit[j]
  BY <1>1, <1>k DEF TypeOK
<1>4. \A j \in Keys : tokens[j] \in Int /\ tokens'[j] \in Int /\ tokens'[j] <= tokens[j]
  <2>1. \A j \in Keys : tokens[j] \in Int
    BY DEF TypeOK
  <2>2. s * Window \in Int
    BY <1>k, Times, GovernorAssumption
  <2>3. tokens'[k] \in Int /\ tokens'[k] <= tokens[k]
    BY <2>1, <2>2, <1>3, <1>k DEF Least
  <2> QED
    BY <2>1, <2>3, <1>3
<1>5. Earned'
  <2>1. ASSUME NEW j \in known
        PROVE  /\ Taken(j)' * Window + tokens'[j]
                    <= Burst * Window + Burst * (lastRefill[j] - born[j])
               /\ tokens'[j] <= Burst * Window
    <3>1. /\ Taken(j) * Window + tokens[j] <= Burst * Window + Burst * (lastRefill[j] - born[j])
          /\ tokens[j] <= Burst * Window
      BY DEF Earned
    <3>2. /\ Taken(j) \in Int /\ lastRefill[j] \in Nat /\ born[j] \in Nat /\ Burst \in Nat
          /\ Window \in Nat
      BY <1>k, BucketTypes
    <3>3. /\ Taken(j) * Window \in Int /\ Burst * Window \in Int
          /\ Burst * (lastRefill[j] - born[j]) \in Int
      BY <3>2
    <3>4. Taken(j)' = Taken(j) /\ tokens[j] \in Int /\ tokens'[j] \in Int /\ tokens'[j] <= tokens[j]
      BY <1>k, <1>t, <1>4
    <3> QED
      BY <3>1, <3>3, <3>4
  <2> QED
    BY <2>1, <1>1 DEF Earned
<1>6. Held'
  <2>1. ASSUME NEW j \in Keys, notBefore'[j] > lastRefill[j]
        PROVE  tokens'[j] + (notBefore'[j] - lastRefill[j]) * limit'[j] <= Window
    <3>0. lastRefill[j] \in Nat /\ notBefore[j] \in Nat /\ limit[j] \in Nat /\ Window \in Nat
      BY BucketTypes
    <3>1. notBefore'[j] = notBefore[j] /\ limit'[j] \in Nat /\ limit'[j] <= limit[j]
      <4>1. CASE j # k
        BY <4>1, <1>1, <1>3, <3>0 DEF TypeOK
      <4>2. CASE j = k /\ pc[p] = "tighten"
        BY <4>2, <1>1, <1>2, <1>3, <1>k
      <4>3. CASE j = k /\ pc[p] # "tighten"
        BY <4>3, <1>1, <2>1, <3>0 DEF TypeOK
      <4> QED
        BY <4>1, <4>2, <4>3
    <3>2. tokens[j] + (notBefore[j] - lastRefill[j]) * limit[j] <= Window
      BY <2>1, <3>1 DEF Held
    <3>3. (notBefore[j] - lastRefill[j]) * limit'[j] <= (notBefore[j] - lastRefill[j]) * limit[j]
      <4>1. notBefore[j] - lastRefill[j] \in Nat
        BY <2>1, <3>0, <3>1
      <4> QED
        BY <4>1, <3>0, <3>1, Mono, Times
    <3>4. /\ (notBefore[j] - lastRefill[j]) * limit'[j] \in Int
          /\ (notBefore[j] - lastRefill[j]) * limit[j] \in Int
      BY <3>0, <3>1, Times
    <3> QED
      BY <3>0, <3>1, <3>2, <3>3, <3>4, <1>4
  <2> QED
    BY <2>1, <1>1 DEF Held
<1> QED
  BY <1>5, <1>6

(* Penalize leaves less than one token for as long as the longest wait asked for. *)
LEMMA PenalizeBuckets ==
  ASSUME TypeOK, Ensured, Past, Earned, Held, NEW p \in Procs, NEW w \in Waits, Penalize(p, w)
  PROVE  Earned' /\ Held'
<1>0. PICK k \in Keys : k = key[p]
  BY DEF TypeOK
<1>v. PICK v : v = Least(Refilled(k, clock), Penalty(k, w))
  OBVIOUS
<1>k. k \in known /\ w \in Nat /\ clock \in Nat
  BY <1>0, GovernorAssumption DEF TypeOK, Penalize, Ensured, Working, Sending
<1>1. /\ tokens' = [tokens EXCEPT ![k] = v]
      /\ lastRefill' = [lastRefill EXCEPT ![k] = RefilledAt(k, clock)]
      /\ notBefore' = [notBefore EXCEPT ![k] = IF @ >= clock + w THEN @ ELSE clock + w]
      /\ UNCHANGED <<known, born, limit, queue, enqueued>>
  BY <1>0, <1>v DEF Penalize, queueVars
<1>t. \A j \in Keys : Taken(j)' = Taken(j)
  BY <1>1 DEF Taken
<1>b. /\ tokens[k] \in Int /\ lastRefill[k] \in Nat /\ limit[k] \in Nat /\ notBefore[k] \in Nat
      /\ Window \in Nat /\ Taken(k) \in Int
  BY <1>k, BucketTypes
<1>2. /\ v \in Int /\ v <= Refilled(k, clock) /\ v <= Window - w * limit[k]
      /\ Refilled(k, clock) \in Int /\ w * limit[k] \in Int
  <2>1. Refilled(k, clock) \in Int
    BY <1>k, RefillFacts
  <2>2. w * limit[k] \in Int
    BY <1>k, <1>b, Times
  <2>3. Penalty(k, w) \in Int /\ Penalty(k, w) <= Window - w * limit[k]
    BY <1>k, <1>b, <2>2 DEF Penalty, Least
  <2> QED
    BY <1>v, <2>1, <2>2, <2>3, <1>b DEF Least
<1>3. Earned'
  <2>1. v + 0 * Window <= Refilled(k, clock) /\ Taken(k)' = Taken(k) + 0
    BY <1>2, <1>b, <1>t, <1>k
  <2>2. \A j \in Keys \ {k} : Taken(j)' = Taken(j)
    BY <1>t
  <2> QED
    BY <2>1, <2>2, <1>1, <1>2, <1>k, RefillEarned
<1>4. RefilledAt(k, clock) = clock
  BY <1>k, <1>b DEF RefilledAt, Past
<1>5. /\ tokens'[k] = v /\ lastRefill'[k] = clock
      /\ notBefore'[k] = IF notBefore[k] >= clock + w THEN notBefore[k] ELSE clock + w
      /\ \A j \in Keys \ {k} : /\ tokens'[j] = tokens[j] /\ lastRefill'[j] = lastRefill[j]
                               /\ notBefore'[j] = notBefore[j]
  BY <1>k, <1>1, <1>4 DEF TypeOK
<1>6. ASSUME notBefore'[k] > clock
      PROVE  v + (notBefore'[k] - clock) * limit[k] <= Window
  <2>1. CASE notBefore[k] >= clock + w
    <3>1. lastRefill[k] <= clock
      BY <1>k DEF Past
    <3>2. notBefore'[k] = notBefore[k]
      BY <2>1, <1>5
    <3>3. tokens[k] + (notBefore[k] - lastRefill[k]) * limit[k] <= Window
      BY <1>6, <3>1, <3>2, <1>k, <1>b DEF Held
    <3>4. Refilled(k, clock) <= tokens[k] + (clock - lastRefill[k]) * limit[k]
      BY <1>4, <1>k, RefillFacts
    <3>5. (clock - lastRefill[k]) * limit[k] + (notBefore[k] - clock) * limit[k]
            = (notBefore[k] - lastRefill[k]) * limit[k]
      BY <1>k, <1>b, Spans
    <3>6. /\ (clock - lastRefill[k]) * limit[k] \in Int
          /\ (notBefore[k] - clock) * limit[k] \in Int
      BY <1>k, <1>b, Times
    <3> QED
      BY <1>2, <1>b, <3>2, <3>3, <3>4, <3>5, <3>6
  <2>2. CASE ~(notBefore[k] >= clock + w)
    <3>1. notBefore'[k] = clock + w /\ (clock + w) - clock = w
      BY <2>2, <1>5, <1>k
    <3> QED
      BY <3>1, <1>2, <1>b
  <2> QED
    BY <2>1, <2>2
<1>7. ASSUME NEW j \in Keys, notBefore'[j] > lastRefill'[j]
      PROVE  tokens'[j] + (notBefore'[j] - lastRefill'[j]) * limit'[j] <= Window
  <2>1. CASE j = k
    BY <2>1, <1>1, <1>5, <1>6, <1>7
  <2>2. CASE j # k
    BY <2>2, <1>1, <1>5, <1>7 DEF Held
  <2> QED
    BY <2>1, <2>2
<1>8. Held'
  BY <1>7 DEF Held
<1> QED
  BY <1>3, <1>8

-----------------------------------------------------------------------------
(* Steps of the processes.                                                   *)

(* Leaving drainKey: the process is out of flight, and stays on its channel unless it
   goes on to its next target.                                                *)
LEMMA LeaveFacts ==
  ASSUME TypeOK, Within, NEW p \in Procs, Leave(p)
  PROVE  /\ pc' \in [Procs -> Pcs] /\ key' \in [Procs -> Keys]
         /\ at' \in [Requests -> Nat \ {0}] /\ Within'
         /\ pc'[p] \in {"target", "collect", "idle"}
         /\ p \notin Requests => key'[p] = key[p]
         /\ \A q \in Procs \ {p} : pc'[q] = pc[q] /\ key'[q] = key[q]
<1>t. /\ pc \in [Procs -> Pcs] /\ key \in [Procs -> Keys] /\ at \in [Requests -> Nat \ {0}]
      /\ \A r \in Requests : at[r] <= Len(Targets[r])
      /\ \A r \in Requests : Targets[r] \in Seq(Keys) /\ Len(Targets[r]) \in Nat \ {0}
  <2>1. ASSUME NEW r \in Requests
        PROVE  Targets[r] \in Seq(Keys) /\ Len(Targets[r]) \in Nat \ {0}
    <3>1. Targets[r] \in Seq(Keys) /\ Targets[r] # << >>
      BY GovernorAssumption
    <3> QED
      BY <3>1
  <2> QED
    BY <2>1 DEF TypeOK, Within
<1>1. CASE p \in Requests /\ at[p] < Len(Targets[p])
  <2>1. /\ at' = [at EXCEPT ![p] = @ + 1]
        /\ key' = [key EXCEPT ![p] = Targets[p][at[p] + 1]]
        /\ pc' = [pc EXCEPT ![p] = "target"]
    BY <1>1 DEF Leave
  <2>2. Targets[p][at[p] + 1] \in Keys /\ at[p] + 1 \in Nat \ {0}
    BY <1>1, <1>t
  <2>3. at' \in [Requests -> Nat \ {0}] /\ Within'
    BY <1>1, <1>t, <2>1, <2>2 DEF Within
  <2> QED
    BY <1>1, <1>t, <2>1, <2>2, <2>3 DEF Pcs
<1>2. CASE p \in Requests /\ ~(at[p] < Len(Targets[p]))
  <2>1. /\ at' = [at EXCEPT ![p] = 1] /\ pc' = [pc EXCEPT ![p] = "collect"] /\ key' = key
    BY <1>2 DEF Leave
  <2>2. at' \in [Requests -> Nat \ {0}] /\ Within'
    BY <1>2, <1>t, <2>1 DEF Within
  <2> QED
    BY <1>2, <1>t, <2>1, <2>2 DEF Pcs
<1>3. CASE p \notin Requests
  <2>1. at' = at /\ pc' = [pc EXCEPT ![p] = "idle"] /\ key' = key
    BY <1>3 DEF Leave
  <2> QED
    BY <1>3, <1>t, <2>1 DEF Pcs, Within
<1> QED
  BY <1>1, <1>2, <1>3

(* A step that leaves the bursts, and the processes between the two locks, alone. *)
LEMMA AgreeKeeps ==
  ASSUME Agree, UNCHANGED <<step, cur, limit>>,
         \A q \in Procs : pc[q] \in {"tighten", "recover"} \/ pc'[q] \in {"tighten", "recover"}
                           => pc'[q] = pc[q] /\ key'[q] = key[q]
  PROVE  Agree'
<1>1. \A q \in Procs : pc'[q] \in {"tighten", "recover"} => step'[q] = cur'[key'[q]]
  BY DEF Agree
<1>2. \A q \in Procs : pc'[q] = "tighten" => step'[q] <= limit'[key'[q]]
  BY DEF Agree
<1>3. \A k \in Keys : limit'[k] = cur'[k]
                        \/ \E q \in Procs : key'[q] = k /\ pc'[q] \in {"tighten", "recover"}
  BY DEF Agree
<1> QED
  BY <1>1, <1>2, <1>3 DEF Agree

(* A step of processes that are not in flight, before and after it. *)
LEMMA OutsideKeeps ==
  ASSUME Exclusive, Agree, UNCHANGED <<sending, batch, step, cur, limit>>,
         \A q \in Procs : \/ pc'[q] = pc[q] /\ key'[q] = key[q]
                          \/ ~InFlight(q) /\ ~InFlight(q)'
  PROVE  Exclusive' /\ Agree'
<1> DEFINE Same(q) == pc'[q] = pc[q] /\ key'[q] = key[q]
<1>1. \A q \in Procs : InFlight(q) \/ InFlight(q)' => Same(q)
  BY DEF InFlight
<1>2. \A q \in Procs : InFlight(q)' => InFlight(q) /\ Same(q)
  BY <1>1 DEF InFlight
<1>3. \A q \in Procs : ~InFlight(q)' => ~InFlight(q)
  BY <1>1 DEF InFlight
<1>4. \A q \in Procs : pc'[q] \in Sending => pc[q] \in Sending /\ Same(q)
  BY <1>1 DEF InFlight
<1>5. Exclusive'
  <2>1. \A q \in Procs : InFlight(q)' => sending'[key'[q]] = "yes"
    BY <1>2 DEF Exclusive
  <2>2. \A q, s \in Procs : InFlight(q)' /\ InFlight(s)' /\ key'[q] = key'[s] => q = s
    BY <1>2 DEF Exclusive
  <2>3. \A q \in Procs : ~InFlight(q)' => batch'[q] = << >>
    BY <1>3 DEF Exclusive
  <2>4. \A q \in Procs : pc'[q] \in Sending => batch'[q] # << >>
    BY <1>4 DEF Exclusive
  <2> QED
    BY <2>1, <2>2, <2>3, <2>4 DEF Exclusive
<1>6. Agree'
  <2>1. \A q \in Procs : pc[q] \in {"tighten", "recover"} \/ pc'[q] \in {"tighten", "recover"}
                           => Same(q)
    BY <1>1 DEF InFlight, Sending
  <2> QED
    BY <2>1, AgreeKeeps
<1> QED
  BY <1>5, <1>6

(* Nor does it disturb what is in flight or queued. *)
LEMMA OutsideNumbered ==
  ASSUME Numbered, UNCHANGED <<sending, batch, answered>>,
         \A q \in Procs : \/ pc'[q] = pc[q] /\ key'[q] = key[q]
                          \/ ~InFlight(q) /\ ~InFlight(q)',
         \A q \in Procs : key[q] \in Keys,
         \A k \in Keys : Taken(k)' = Taken(k),
         \A k \in Keys : \A i \in DOMAIN queue'[k] : queue'[k][i].seq = Taken(k) + i
  PROVE  Numbered'
<1>1. \A q \in Procs : InFlight(q)' => InFlight(q) /\ key'[q] = key[q]
  BY DEF InFlight
<1>2. ASSUME NEW q \in Procs, InFlight(q)'
      PROVE  /\ answered'[key'[q]] + Len(batch'[q]) = Taken(key[q])'
             /\ \A i \in DOMAIN batch'[q] : batch'[q][i].seq = answered'[key'[q]] + i
  <2>1. InFlight(q) /\ key'[q] = key[q]
    BY <1>1, <1>2
  <2>2. Carries(q, key[q])
    BY <2>1 DEF Numbered
  <2>3. PICK k \in Keys : k = key[q]
    OBVIOUS
  <2>4. Taken(k)' = Taken(k)
    OBVIOUS
  <2> QED
    BY <2>1, <2>2, <2>3, <2>4 DEF Carries
<1> QED
  BY <1>2 DEF Numbered, Carries

(* A process in flight moves on within its entry. *)
LEMMA InsideKeeps ==
  ASSUME Exclusive, Numbered, NEW p \in Procs, InFlight(p),
         NEW x \in {"send"} \cup Sending, x \in Sending => batch[p] # << >>,
         pc \in [Procs -> Pcs], pc' = [pc EXCEPT ![p] = x],
         UNCHANGED <<key, sending, batch, answered, queue, enqueued>>
  PROVE  Exclusive' /\ Numbered'
<1>1. /\ pc'[p] = x
      /\ \A q \in Procs \ {p} : pc'[q] = pc[q]
  OBVIOUS
<1>2. \A q \in Procs : InFlight(q)' <=> InFlight(q)
  BY <1>1 DEF InFlight
<1>3. \A k : Taken(k)' = Taken(k)
  BY DEF Taken
<1>4. Exclusive'
  <2>1. \A q \in Procs : InFlight(q)' => sending'[key'[q]] = "yes"
    BY <1>2 DEF Exclusive
  <2>2. \A q, s \in Procs : InFlight(q)' /\ InFlight(s)' /\ key'[q] = key'[s] => q = s
    BY <1>2 DEF Exclusive
  <2>3. \A q \in Procs : ~InFlight(q)' => batch'[q] = << >>
    BY <1>2 DEF Exclusive
  <2>4. \A q \in Procs : pc'[q] \in Sending => batch'[q] # << >>
    BY <1>1 DEF Exclusive
  <2> QED
    BY <2>1, <2>2, <2>3, <2>4 DEF Exclusive
<1>5. ASSUME NEW q \in Procs, InFlight(q)'
      PROVE  /\ answered'[key'[q]] + Len(batch'[q]) = Taken(key[q])'
             /\ \A i \in DOMAIN batch'[q] : batch'[q][i].seq = answered'[key'[q]] + i
  BY <1>2, <1>3, <1>5 DEF Numbered, Carries, Taken
<1>6. Numbered'
  BY <1>3, <1>5 DEF Numbered, Carries
<1> QED
  BY <1>4, <1>6

(* The answer of the oldest entry in flight is handed over. *)
LEMMA DeliverKeeps ==
  ASSUME TypeOK, Exclusive, Numbered, NEW p \in Procs, Deliver(p)
  PROVE  Exclusive' /\ Numbered'
<1>0. PICK k \in Keys : k = key[p]
  BY DEF TypeOK
<1>1. /\ pc[p] = "deliver" /\ pc' = [pc EXCEPT ![p] = "send"]
      /\ batch' = [batch EXCEPT ![p] = Tail(@)]
      /\ answered' = [answered EXCEPT ![k] = @ + 1]
      /\ UNCHANGED <<key, sending, queue, enqueued>>
  BY <1>0 DEF Deliver
<1>2. /\ pc'[p] = "send" /\ batch'[p] = Tail(batch[p]) /\ answered'[k] = answered[k] + 1
      /\ \A q \in Procs \ {p} : pc'[q] = pc[q] /\ batch'[q] = batch[q]
      /\ \A j \in Keys \ {k} : answered'[j] = answered[j]
  BY <1>1 DEF TypeOK
<1>3. \A q \in Procs : InFlight(q)' <=> InFlight(q)
  BY <1>1, <1>2 DEF InFlight, Sending
<1>4. InFlight(p) /\ batch[p] # << >> /\ sending[k] = "yes"
  BY <1>0, <1>1 DEF InFlight, Sending, Exclusive
<1>5. \A q \in Procs \ {p} : InFlight(q) => key[q] # k
  BY <1>0, <1>4 DEF Exclusive
<1>6. \A j : Taken(j)' = Taken(j)
  BY <1>1 DEF Taken
<1>7. /\ batch[p] \in Seq(Entries) /\ answered[k] \in Nat /\ key \in [Procs -> Keys]
  BY DEF TypeOK
<1>8. Exclusive'
  <2>1. \A q \in Procs : InFlight(q)' => sending'[key'[q]] = "yes"
    BY <1>1, <1>3 DEF Exclusive
  <2>2. \A q, s \in Procs : InFlight(q)' /\ InFlight(s)' /\ key'[q] = key'[s] => q = s
    BY <1>1, <1>3 DEF Exclusive
  <2>3. \A q \in Procs : ~InFlight(q)' => batch'[q] = << >>
    BY <1>2, <1>3, <1>4 DEF Exclusive
  <2>4. \A q \in Procs : pc'[q] \in Sending => batch'[q] # << >>
    BY <1>2 DEF Exclusive, Sending
  <2> QED
    BY <2>1, <2>2, <2>3, <2>4 DEF Exclusive
<1>9. Numbered'
  <2>1. ASSUME NEW q \in Procs, InFlight(q)'
        PROVE  Carries(q, key[q])'
    <3>1. CASE q = p
      <4>1. /\ answered[k] + Len(batch[p]) = Taken(k)
            /\ \A i \in DOMAIN batch[p] : batch[p][i].seq = answered[k] + i
        BY <1>0, <1>4 DEF Numbered, Carries
      <4>2. /\ Len(Tail(batch[p])) = Len(batch[p]) - 1 /\ Len(batch[p]) \in Nat
            /\ \A i \in DOMAIN Tail(batch[p]) : /\ i \in Nat /\ i + 1 \in DOMAIN batch[p]
                                                /\ Tail(batch[p])[i] = batch[p][i + 1]
        BY <1>4, <1>7
      <4>3. answered'[k] + Len(batch'[p]) = Taken(k)
        BY <1>2, <1>7, <4>1, <4>2
      <4>4. ASSUME NEW i \in DOMAIN batch'[p]
            PROVE  batch'[p][i].seq = answered'[k] + i
        <5>1. i \in Nat /\ i + 1 \in DOMAIN batch[p] /\ batch'[p][i] = batch[p][i + 1]
          BY <1>2, <4>2, <4>4
        <5>2. batch[p][i + 1].seq = answered[k] + (i + 1)
          BY <4>1, <5>1
        <5> QED
          BY <1>2, <1>7, <5>1, <5>2
      <4>5. Taken(key[p])' = Taken(k) /\ key'[p] = k
        BY <1>0, <1>1, <1>6 DEF Taken
      <4> QED
        BY <3>1, <4>3, <4>4, <4>5 DEF Carries
    <3>2. CASE q # p
      <4>1. InFlight(q) /\ key'[q] = key[q] /\ key[q] # k /\ key[q] \in Keys
        BY <2>1, <3>2, <1>1, <1>3, <1>5, <1>7
      <4>2. answered'[key'[q]] = answered[key[q]] /\ batch'[q] = batch[q]
        BY <3>2, <4>1, <1>2
      <4>3. Taken(key[q])' = Taken(key[q])
        BY <4>1, <1>1 DEF Taken
      <4>4. Carries(q, key[q])
        BY <4>1 DEF Numbered
      <4> QED
        BY <4>2, <4>3, <4>4 DEF Carries
    <3> QED
      BY <3>1, <3>2
  <2>2. ASSUME NEW j \in Keys, sending'[j] = "no"
        PROVE  answered'[j] = Taken(j)'
    BY <1>1, <1>2, <1>4, <1>6, <2>2 DEF Numbered
  <2>3. \A j \in Keys : \A i \in DOMAIN queue'[j] : queue'[j][i].seq = Taken(j)' + i
    BY <1>1, <1>6 DEF Numbered
  <2> QED
    BY <2>1, <2>2, <2>3 DEF Numbered
<1> QED
  BY <1>8, <1>9

(* The batch is done: everything taken is answered, and the flag is cleared. *)
LEMMA DoneKeeps ==
  ASSUME TypeOK, Within, Exclusive, Numbered, Agree, NEW p \in Procs, DrainDone(p)
  PROVE  Exclusive' /\ Numbered' /\ Agree'
<1>0. PICK k \in Keys : k = key[p]
  BY DEF TypeOK
<1>1. /\ pc[p] = "send" /\ batch[p] = << >> /\ sending' = [sending EXCEPT ![k] = "no"]
      /\ UNCHANGED <<batch, answered, queue, enqueued, step, cur, limit>>
      /\ Leave(p)
  BY <1>0 DEF DrainDone, bucketVars, adaptVars
<1>2. /\ pc'[p] \in {"target", "collect", "idle"}
      /\ \A q \in Procs \ {p} : pc'[q] = pc[q] /\ key'[q] = key[q]
  BY <1>1, LeaveFacts
<1>3. InFlight(p) /\ ~InFlight(p)'
  BY <1>1, <1>2 DEF InFlight, Sending
<1>4. \A q \in Procs \ {p} : InFlight(q)' <=> InFlight(q)
  BY <1>2 DEF InFlight
<1>5. \A q \in Procs \ {p} : InFlight(q) => key[q] # k
  BY <1>0, <1>3 DEF Exclusive
<1>6. sending'[k] = "no" /\ \A j \in Keys \ {k} : sending'[j] = sending[j]
  BY <1>1 DEF TypeOK
<1>7. \A j : Taken(j)' = Taken(j)
  BY <1>1 DEF Taken
<1>8. key \in [Procs -> Keys] /\ answered[k] \in Nat
  BY DEF TypeOK
<1>9. Exclusive'
  <2>1. \A q \in Procs : InFlight(q)' => sending'[key'[q]] = "yes"
    BY <1>2, <1>3, <1>4, <1>5, <1>6, <1>8 DEF Exclusive
  <2>2. \A q, s \in Procs : InFlight(q)' /\ InFlight(s)' /\ key'[q] = key'[s] => q = s
    BY <1>2, <1>3, <1>4 DEF Exclusive
  <2>3. \A q \in Procs : ~InFlight(q)' => batch'[q] = << >>
    BY <1>1, <1>3, <1>4 DEF Exclusive
  <2>4. \A q \in Procs : pc'[q] \in Sending => batch'[q] # << >>
    BY <1>1, <1>2 DEF Exclusive, Sending
  <2> QED
    BY <2>1, <2>2, <2>3, <2>4 DEF Exclusive
<1>10. Numbered'
  <2>1. ASSUME NEW q \in Procs, InFlight(q)'
        PROVE  Carries(q, key[q])'
    <3>1. q # p /\ InFlight(q) /\ key'[q] = key[q]
      BY <2>1, <1>2, <1>3, <1>4
    <3>2. Carries(q, key[q])
      BY <3>1 DEF Numbered
    <3>3. Taken(key[q])' = Taken(key[q])
      BY <3>1, <1>1 DEF Taken
    <3> QED
      BY <1>1, <3>1, <3>2, <3>3 DEF Carries
  <2>2. ASSUME NEW j \in Keys, sending'[j] = "no"
        PROVE  answered'[j] = Taken(j)'
    <3>1. CASE j = k
      <4>1. answered[k] + Len(batch[p]) = Taken(k) /\ Len(batch[p]) = 0
        BY <1>0, <1>1, <1>3 DEF Numbered, Carries
      <4> QED
        BY <3>1, <4>1, <1>1, <1>7, <1>8
    <3>2. CASE j # k
      BY <2>2, <3>2, <1>1, <1>6, <1>7 DEF Numbered
    <3> QED
      BY <3>1, <3>2
  <2>3. \A j \in Keys : \A i \in DOMAIN queue'[j] : queue'[j][i].seq = Taken(j)' + i
    BY <1>1, <1>7 DEF Numbered
  <2> QED
    BY <2>1, <2>2, <2>3 DEF Numbered
<1>11. Agree'
  <2>1. \A q \in Procs : pc[q] \in {"tighten", "recover"} \/ pc'[q] \in {"tighten", "recover"}
                           => pc'[q] = pc[q] /\ key'[q] = key[q]
    BY <1>1, <1>2
  <2> QED
    BY <2>1, <1>1, AgreeKeeps
<1> QED
  BY <1>9, <1>10, <1>11

(* A batch is taken from a channel with none in flight: the oldest entries of the queue,
   in order.                                                                  *)
LEMMA TakeKeeps ==
  ASSUME TypeOK, Exclusive, Numbered, Agree, NEW p \in Procs, NEW k \in Keys, k = key[p],
         NEW n \in Nat, n >= 1, n <= Len(queue[k]), pc[p] = "lock", sending[k] = "no",
         TakeReady(p, k, n)
  PROVE  Exclusive' /\ Numbered' /\ Agree' /\ Taken(k)' = Taken(k) + n
<1>1. /\ batch' = [batch EXCEPT ![p] = SubSeq(queue[k], 1, n)]
      /\ queue' = [queue EXCEPT ![k] = SubSeq(@, n + 1, Len(@))]
      /\ sending' = [sending EXCEPT ![k] = "yes"]
      /\ pc' = [pc EXCEPT ![p] = "send"]
      /\ UNCHANGED <<key, enqueued, answered, step, cur, limit>>
  BY DEF TakeReady, adaptVars
<1>2. /\ queue[k] \in Seq(Entries) /\ key \in [Procs -> Keys] /\ answered[k] \in Nat
      /\ enqueued[k] \in Nat
  BY DEF TypeOK
<1>3. /\ batch'[p] = SubSeq(queue[k], 1, n) /\ queue'[k] = SubSeq(queue[k], n + 1, Len(queue[k]))
      /\ sending'[k] = "yes" /\ pc'[p] = "send"
      /\ \A q \in Procs \ {p} : pc'[q] = pc[q] /\ batch'[q] = batch[q]
      /\ \A j \in Keys \ {k} : sending'[j] = sending[j] /\ queue'[j] = queue[j]
  BY <1>1 DEF TypeOK
<1>4. InFlight(p)' /\ ~InFlight(p)
  BY <1>3 DEF InFlight, Sending
<1>5. \A q \in Procs \ {p} : InFlight(q)' <=> InFlight(q)
  BY <1>3 DEF InFlight
<1>6. \A q \in Procs \ {p} : InFlight(q) => key[q] # k
  BY DEF Exclusive
<1>7. /\ Len(queue[k]) \in Nat
      /\ Len(batch'[p]) = n /\ \A i \in DOMAIN batch'[p] : i \in DOMAIN queue[k] /\ batch'[p][i] = queue[k][i]
      /\ Len(queue'[k]) = Len(queue[k]) - n
      /\ \A i \in DOMAIN queue'[k] : /\ i \in Nat /\ n + i \in DOMAIN queue[k]
                                     /\ queue'[k][i] = queue[k][n + i]
  BY <1>2, <1>3
<1>8. Taken(k)' = Taken(k) + n
  BY <1>1, <1>2, <1>7 DEF Taken
<1>9. \A j \in Keys \ {k} : Taken(j)' = Taken(j)
  BY <1>1, <1>3 DEF Taken
<1>10. Exclusive'
  <2>1. \A q \in Procs : InFlight(q)' => sending'[key'[q]] = "yes"
    BY <1>1, <1>2, <1>3, <1>5, <1>6 DEF Exclusive
  <2>2. \A q, s \in Procs : InFlight(q)' /\ InFlight(s)' /\ key'[q] = key'[s] => q = s
    BY <1>1, <1>5, <1>6 DEF Exclusive
  <2>3. \A q \in Procs : ~InFlight(q)' => batch'[q] = << >>
    BY <1>3, <1>4, <1>5 DEF Exclusive
  <2>4. \A q \in Procs : pc'[q] \in Sending => batch'[q] # << >>
    BY <1>3 DEF Exclusive, Sending
  <2> QED
    BY <2>1, <2>2, <2>3, <2>4 DEF Exclusive
<1>11. Numbered'
  <2>1. ASSUME NEW q \in Procs, InFlight(q)'
        PROVE  Carries(q, key[q])'
    <3>1. CASE q = p
      <4>1. answered[k] = Taken(k) /\ \A i \in DOMAIN queue[k] : queue[k][i].seq = Taken(k) + i
        BY DEF Numbered
      <4>2. \A i \in DOMAIN batch'[p] : batch'[p][i].seq = answered[k] + i
        BY <1>7, <4>1
      <4>3. answered[k] + Len(batch'[p]) = Taken(k)'
        BY <1>7, <1>8, <4>1
      <4>4. Taken(key[p])' = Taken(k)' /\ key'[p] = k /\ answered' = answered
        BY <1>1
      <4> QED
        BY <3>1, <4>2, <4>3, <4>4 DEF Carries
    <3>2. CASE q # p
      <4>1. InFlight(q) /\ key'[q] = key[q] /\ key[q] \in Keys \ {k}
        BY <2>1, <3>2, <1>1, <1>2, <1>5, <1>6
      <4>2. Carries(q, key[q])
        BY <4>1 DEF Numbered
      <4>3. Taken(key[q])' = Taken(key[q])
        BY <4>1, <1>1, <1>3 DEF Taken
      <4> QED
        BY <1>1, <1>3, <3>2, <4>1, <4>2, <4>3 DEF Carries
    <3> QED
      BY <3>1, <3>2
  <2>2. ASSUME NEW j \in Keys, sending'[j] = "no"
        PROVE  answered'[j] = Taken(j)'
    BY <2>2, <1>1, <1>3, <1>9 DEF Numbered
  <2>3. ASSUME NEW j \in Keys, NEW i \in DOMAIN queue'[j]
        PROVE  queue'[j][i].seq = Taken(j)' + i
    <3>1. CASE j = k
      <4>1. queue[k][n + i].seq = Taken(k) + (n + i)
        BY <2>3, <3>1, <1>7 DEF Numbered
      <4>2. Taken(k) \in Int
        BY <1>2, <1>7 DEF Taken
      <4> QED
        BY <2>3, <3>1, <4>1, <4>2, <1>7, <1>8
    <3>2. CASE j # k
      BY <2>3, <3>2, <1>3, <1>9 DEF Numbered
    <3> QED
      BY <3>1, <3>2
  <2> QED
    BY <2>1, <2>2, <2>3 DEF Numbered
<1>12. Agree'
  <2>1. \A q \in Procs : pc[q] \in {"tighten", "recover"} \/ pc'[q] \in {"tighten", "recover"}
                           => pc'[q] = pc[q] /\ key'[q] = key[q]
    BY <1>1, <1>3
  <2> QED
    BY <2>1, <1>1, AgreeKeeps
<1> QED
  BY <1>8, <1>10, <1>11, <1>12

(* The adaptive layer changes the burst of the channel this process has in flight, and
   the process carries the new one.                                           *)
LEMMA CarryAgrees ==
  ASSUME TypeOK, Exclusive, Agree, NEW p \in Procs, NEW k \in Keys, k = key[p], pc[p] = "wait",
         NEW b \in 1 .. Burst, NEW x \in {"tighten", "recover"},
         x = "tighten" => b <= cur[k],
         cur' = [cur EXCEPT ![k] = b], step' = [step EXCEPT ![p] = b],
         pc' = [pc EXCEPT ![p] = x], UNCHANGED <<key, limit>>
  PROVE  Agree'
<1>1. /\ pc'[p] = x /\ step'[p] = b /\ cur'[k] = b
      /\ \A q \in Procs \ {p} : pc'[q] = pc[q] /\ step'[q] = step[q]
      /\ \A j \in Keys \ {k} : cur'[j] = cur[j]
  BY DEF TypeOK
<1>2. \A q \in Procs : InFlight(q) /\ key[q] = k => q = p
  BY DEF Exclusive, InFlight, Sending
<1>3. \A q \in Procs : pc[q] \in {"tighten", "recover"} => key[q] \in Keys \ {k}
  BY <1>2 DEF InFlight, Sending, TypeOK
<1>4. limit[k] = cur[k]
  BY <1>3 DEF Agree
<1>5. \A q \in Procs : pc'[q] \in {"tighten", "recover"} => step'[q] = cur'[key'[q]]
  BY <1>1, <1>3 DEF Agree
<1>6. \A q \in Procs : pc'[q] = "tighten" => step'[q] <= limit'[key'[q]]
  BY <1>1, <1>4 DEF Agree
<1>7. ASSUME NEW j \in Keys
      PROVE  limit'[j] = cur'[j]
               \/ \E q \in Procs : key'[q] = j /\ pc'[q] \in {"tighten", "recover"}
  <2>1. CASE j = k
    BY <2>1, <1>1
  <2>2. CASE j # k
    <3>1. limit[j] = cur[j] \/ \E q \in Procs : key[q] = j /\ pc[q] \in {"tighten", "recover"}
      BY DEF Agree
    <3>2. \A q \in Procs : pc[q] \in {"tighten", "recover"} => pc'[q] = pc[q]
      BY <1>1
    <3> QED
      BY <2>2, <3>1, <3>2, <1>1
  <2> QED
    BY <2>1, <2>2
<1> QED
  BY <1>5, <1>6, <1>7 DEF Agree

(* SetLimit brings the two layers together again. *)
LEMMA SetLimitAgrees ==
  ASSUME TypeOK, Exclusive, Agree, NEW p \in Procs, SetLimit(p)
  PROVE  Agree'
<1>0. PICK k \in Keys : k = key[p]
  BY DEF TypeOK
<1>1. /\ pc[p] \in {"tighten", "recover"}
      /\ limit' = [limit EXCEPT ![k] = step[p]] /\ step' = [step EXCEPT ![p] = 0]
      /\ pc' = [pc EXCEPT ![p] = IF pc[p] = "tighten" THEN "penalize" ELSE "deliver"]
      /\ UNCHANGED <<key, cur>>
  BY <1>0 DEF SetLimit, AfterSetLimit, adaptVars
<1>2. /\ pc'[p] \notin {"tighten", "recover"} /\ limit'[k] = step[p]
      /\ \A q \in Procs \ {p} : pc'[q] = pc[q] /\ step'[q] = step[q]
      /\ \A j \in Keys \ {k} : limit'[j] = limit[j]
  BY <1>1 DEF TypeOK
<1>3. \A q \in Procs \ {p} : pc[q] \in {"tighten", "recover"} => key[q] \in Keys \ {k}
  BY <1>0, <1>1 DEF Exclusive, InFlight, Sending, TypeOK
<1>4. \A q \in Procs : pc'[q] \in {"tighten", "recover"} => step'[q] = cur'[key'[q]]
  BY <1>1, <1>2 DEF Agree
<1>5. \A q \in Procs : pc'[q] = "tighten" => step'[q] <= limit'[key'[q]]
  BY <1>1, <1>2, <1>3 DEF Agree
<1>6. ASSUME NEW j \in Keys
      PROVE  limit'[j] = cur'[j]
               \/ \E q \in Procs : key'[q] = j /\ pc'[q] \in {"tighten", "recover"}
  <2>1. CASE j = k
    BY <2>1, <1>0, <1>1, <1>2 DEF Agree
  <2>2. CASE j # k
    <3>1. limit[j] = cur[j] \/ \E q \in Procs : key[q] = j /\ pc[q] \in {"tighten", "recover"}
      BY DEF Agree
    <3>2. \A q \in Procs : key[q] = j => pc'[q] = pc[q]
      BY <2>2, <1>0, <1>2
    <3> QED
      BY <2>2, <3>1, <3>2, <1>1, <1>2
  <2> QED
    BY <2>1, <2>2
<1> QED
  BY <1>4, <1>5, <1>6 DEF Agree

(* Halving stops at one, and doubling at the burst of the seed. *)
LEMMA Bursts ==
  ASSUME NEW b \in 1 .. Burst
  PROVE  /\ HitBurst(b) \in 1 .. Burst /\ HitBurst(b) <= b
         /\ RecoverBurst(b) \in 1 .. Burst
<1>1. Burst \in Nat \ {0}
  BY GovernorAssumption
<1>2. b > 1 => b \div 2 \in Nat /\ b \div 2 >= 1 /\ b \div 2 <= b
  OBVIOUS
<1> QED
  BY <1>1, <1>2 DEF HitBurst, RecoverBurst, Least

(* Queueing puts the entry behind the others, under the next number. *)
LEMMA EnqueueKeeps ==
  ASSUME TypeOK, Exclusive, Numbered, Agree, NEW r \in Requests, Enqueue(r)
  PROVE  Exclusive' /\ Numbered' /\ Agree' /\ \A k \in Keys : Taken(k)' = Taken(k)
<1>p. r \in Procs
  BY DEF Procs
<1>0. PICK k \in Keys : k = key[r]
  BY <1>p DEF TypeOK
<1>1. PICK e : e = [seq |-> enqueued[k] + 1, req |-> r, tgt |-> at[r]]
  OBVIOUS
<1>2. /\ pc[r] = "submit" /\ pc' = [pc EXCEPT ![r] = "now"]
      /\ queue' = [queue EXCEPT ![k] = Append(@, e)]
      /\ enqueued' = [enqueued EXCEPT ![k] = @ + 1]
      /\ UNCHANGED <<sending, batch, answered, key, step, cur, limit>>
  BY <1>0, <1>1 DEF Enqueue, bucketVars, adaptVars
<1>3. /\ queue'[k] = Append(queue[k], e) /\ enqueued'[k] = enqueued[k] + 1
      /\ \A j \in Keys \ {k} : queue'[j] = queue[j] /\ enqueued'[j] = enqueued[j]
      /\ pc'[r] = "now" /\ \A q \in Procs \ {r} : pc'[q] = pc[q]
  BY <1>2, <1>p DEF TypeOK
<1>4. queue[k] \in Seq(Entries) /\ enqueued[k] \in Nat /\ e \in Entries
  <2>1. queue[k] \in Seq(Entries) /\ enqueued[k] \in Nat /\ at[r] \in Nat \ {0}
    BY DEF TypeOK
  <2>2. enqueued[k] + 1 \in Nat \ {0}
    BY <2>1
  <2> QED
    BY <1>1, <2>1, <2>2 DEF Entries
<1>5. /\ Len(queue[k]) \in Nat /\ Len(queue'[k]) = Len(queue[k]) + 1
      /\ \A i \in DOMAIN queue'[k] : IF i <= Len(queue[k])
                                     THEN i \in DOMAIN queue[k] /\ queue'[k][i] = queue[k][i]
                                     ELSE i = Len(queue[k]) + 1 /\ queue'[k][i] = e
  BY <1>3, <1>4
<1>6. Taken(k) = enqueued[k] - Len(queue[k]) /\ Taken(k)' = Taken(k)
  BY <1>3, <1>4, <1>5 DEF Taken
<1>7. \A j \in Keys : Taken(j)' = Taken(j)
  BY <1>3, <1>6 DEF Taken
<1>8. ASSUME NEW j \in Keys, NEW i \in DOMAIN queue'[j]
      PROVE  queue'[j][i].seq = Taken(j) + i
  <2>1. CASE j = k
    <3>1. CASE i <= Len(queue[k])
      BY <1>5, <1>8, <2>1, <3>1 DEF Numbered
    <3>2. CASE ~(i <= Len(queue[k]))
      <4>1. i = Len(queue[k]) + 1 /\ queue'[k][i] = e
        BY <1>5, <1>8, <2>1, <3>2
      <4>2. e.seq = enqueued[k] + 1
        BY <1>1
      <4> QED
        BY <2>1, <4>1, <4>2, <1>4, <1>5, <1>6
    <3> QED
      BY <3>1, <3>2
  <2>2. CASE j # k
    BY <2>2, <1>3, <1>8 DEF Numbered
  <2> QED
    BY <2>1, <2>2
<1>9. \A q \in Procs : \/ pc'[q] = pc[q] /\ key'[q] = key[q]
                       \/ ~InFlight(q) /\ ~InFlight(q)'
  BY <1>2, <1>3 DEF InFlight, Sending
<1>10. \A q \in Procs : key[q] \in Keys
  BY DEF TypeOK
<1>11. Exclusive' /\ Agree'
  BY <1>2, <1>9, OutsideKeeps
<1>12. Numbered'
  BY <1>2, <1>7, <1>8, <1>9, <1>10, OutsideNumbered
<1> QED
  BY <1>7, <1>11, <1>12

(* The other steps outside a flight leave the queues alone. *)
LEMMA OutsideStep ==
  ASSUME TypeOK, Exclusive, Numbered, Agree,
         UNCHANGED <<sending, batch, step, cur, limit, queue, enqueued, answered>>,
         \A q \in Procs : \/ pc'[q] = pc[q] /\ key'[q] = key[q]
                          \/ ~InFlight(q) /\ ~InFlight(q)'
  PROVE  Exclusive' /\ Numbered' /\ Agree'
<1>1. Exclusive' /\ Agree'
  BY OutsideKeeps
<1>2. /\ \A q \in Procs : key[q] \in Keys
      /\ \A k \in Keys : Taken(k)' = Taken(k)
  BY DEF TypeOK, Taken
<1>3. \A k \in Keys : \A i \in DOMAIN queue'[k] : queue'[k][i].seq = Taken(k) + i
  BY DEF Numbered
<1>4. Numbered'
  BY <1>2, <1>3, OutsideNumbered
<1> QED
  BY <1>1, <1>4

(* Batches and bursts over every step. *)
LEMMA FlightsKeep ==
  ASSUME TypeOK, Within, Exclusive, Numbered, Agree, [Next]_vars
  PROVE  Exclusive' /\ Numbered' /\ Agree'
<1>p. /\ \A r \in Requests : r \in Procs
      /\ pc \in [Procs -> Pcs] /\ key \in [Procs -> Keys]
  BY DEF Procs, TypeOK
<1> USE DEF bucketVars, adaptVars, queueVars, procVars, reqVars
<1>1. CASE UNCHANGED vars
  BY <1>1, OutsideStep DEF vars
<1>2. CASE Tick
  BY <1>2, OutsideStep DEF Tick
<1>3. ASSUME NEW r \in Requests, SendRequest(r)
      PROVE  Exclusive' /\ Numbered' /\ Agree'
  BY <1>3, <1>p, OutsideStep DEF SendRequest, InFlight, Sending
<1>4. ASSUME NEW r \in Requests, ExcludeTarget(r)
      PROVE  Exclusive' /\ Numbered' /\ Agree'
  <2>1. pc[r] = "target" /\ Leave(r)
    BY <1>4 DEF ExcludeTarget
  <2>2. /\ pc'[r] \in {"target", "collect", "idle"}
        /\ \A q \in Procs \ {r} : pc'[q] = pc[q] /\ key'[q] = key[q]
    BY <2>1, <1>p, LeaveFacts
  <2> QED
    BY <1>4, <2>1, <2>2, OutsideStep DEF ExcludeTarget, InFlight, Sending
<1>5. ASSUME NEW r \in Requests, Ensure(r)
      PROVE  Exclusive' /\ Numbered' /\ Agree'
  <2>1. UNCHANGED <<sending, batch, step, cur, limit, queue, enqueued, answered, key>>
    BY <1>5 DEF Ensure
  <2>2. pc[r] = "target" /\ pc' = [pc EXCEPT ![r] = "submit"]
    BY <1>5 DEF Ensure
  <2> QED
    BY <2>1, <2>2, <1>p, OutsideStep DEF InFlight, Sending
<1>6. ASSUME NEW r \in Requests, Enqueue(r)
      PROVE  Exclusive' /\ Numbered' /\ Agree'
  BY <1>6, EnqueueKeeps
<1>7. ASSUME NEW r \in Requests, Collect(r)
      PROVE  Exclusive' /\ Numbered' /\ Agree'
  <2>1. UNCHANGED <<sending, batch, step, cur, limit, queue, enqueued, answered, key>>
    BY <1>7 DEF Collect
  <2>2. pc[r] = "collect" /\ (pc' = pc \/ pc' = [pc EXCEPT ![r] = "returned"])
    BY <1>7 DEF Collect
  <2> QED
    BY <2>1, <2>2, <1>p, OutsideStep DEF InFlight, Sending
<1>8. ASSUME NEW d \in Drains, Drain(d)
      PROVE  Exclusive' /\ Numbered' /\ Agree'
  <2>1. UNCHANGED <<sending, batch, step, cur, limit, queue, enqueued, answered, key>>
    BY <1>8 DEF Drain
  <2>2. ASSUME NEW q \in Procs
        PROVE  \/ pc'[q] = pc[q]
               \/ ~InFlight(q) /\ ~InFlight(q)'
    <3>1. CASE q \in {d} \X known
      <4>1. pc[q] = "idle"
        BY <1>8, <3>1 DEF Drain, TypeOK
      <4>2. pc'[q] = "now"
        BY <1>8, <3>1 DEF Drain
      <4> QED
        BY <4>1, <4>2 DEF InFlight, Sending
    <3>2. CASE q \notin {d} \X known
      <4>1. pc' = [s \in Procs |-> IF s \in {d} \X known THEN "now" ELSE pc[s]]
        BY <1>8 DEF Drain
      <4> QED
        BY <3>2, <4>1
    <3> QED
      BY <3>1, <3>2
  <2> QED
    BY <2>1, <2>2, OutsideStep
<1>9. ASSUME NEW p \in Procs, ReadClock(p)
      PROVE  Exclusive' /\ Numbered' /\ Agree'
  BY <1>9, <1>p, OutsideStep DEF ReadClock, InFlight, Sending
<1>10. ASSUME NEW p \in Procs, DrainBusy(p) \/ DrainNothing(p)
       PROVE  Exclusive' /\ Numbered' /\ Agree'
  <2>1. /\ pc[p] = "lock" /\ Leave(p)
        /\ UNCHANGED <<sending, batch, step, cur, limit, queue, enqueued, answered>>
    BY <1>10 DEF DrainBusy, DrainNothing
  <2>2. /\ pc'[p] \in {"target", "collect", "idle"}
        /\ \A q \in Procs \ {p} : pc'[q] = pc[q] /\ key'[q] = key[q]
    BY <2>1, LeaveFacts
  <2> QED
    BY <2>1, <2>2, OutsideStep DEF InFlight, Sending
<1>11. ASSUME NEW p \in Procs, DrainTake(p)
       PROVE  Exclusive' /\ Numbered' /\ Agree'
  <2>0. PICK k \in Keys : k = key[p]
    BY <1>p
  <2>1. PICK n : n = Ready(k, now[p])
    OBVIOUS
  <2>2. /\ pc[p] = "lock" /\ sending[k] = "no" /\ n > 0 /\ TakeReady(p, k, n)
    BY <1>11, <2>0, <2>1 DEF DrainTake
  <2>3. n \in Nat /\ n >= 1 /\ n <= Len(queue[k])
    <3>1. Refilled(k, now[p]) \in Int /\ Window \in Nat \ {0} /\ Len(queue[k]) \in Nat
      BY RefillFacts, BucketTypes, GovernorAssumption DEF TypeOK
    <3>2. Refilled(k, now[p]) \div Window \in Int
      BY <3>1
    <3> QED
      BY <2>1, <2>2, <3>1, <3>2 DEF Ready, Least
  <2> QED
    BY <2>0, <2>2, <2>3, TakeKeeps
<1>12. ASSUME NEW p \in Procs, SendStart(p)
       PROVE  Exclusive' /\ Numbered' /\ Agree'
  <2>1. PICK x \in {"wait", "doomed"} : pc' = [pc EXCEPT ![p] = x]
    BY <1>12 DEF SendStart
  <2>2. /\ pc[p] = "send" /\ batch[p] # << >>
        /\ UNCHANGED <<sending, batch, step, cur, limit, queue, enqueued, answered, key>>
    BY <1>12 DEF SendStart
  <2>3. Exclusive' /\ Numbered'
    BY <2>1, <2>2, <1>p, InsideKeeps DEF InFlight, Sending
  <2>4. Agree'
    BY <2>1, <2>2, <1>p, AgreeKeeps
  <2> QED
    BY <2>3, <2>4
<1>13. ASSUME NEW p \in Procs, SendFail(p)
       PROVE  Exclusive' /\ Numbered' /\ Agree'
  <2>2. /\ pc[p] \in {"wait", "doomed"} /\ pc' = [pc EXCEPT ![p] = "deliver"]
        /\ UNCHANGED <<sending, batch, step, cur, limit, queue, enqueued, answered, key>>
    BY <1>13 DEF SendFail
  <2>3. batch[p] # << >>
    BY <2>2 DEF Exclusive, Sending
  <2>4. Exclusive' /\ Numbered'
    BY <2>2, <2>3, <1>p, InsideKeeps DEF InFlight, Sending
  <2>5. Agree'
    BY <2>2, <1>p, AgreeKeeps
  <2> QED
    BY <2>4, <2>5
<1>14. ASSUME NEW p \in Procs, SendOk(p)
       PROVE  Exclusive' /\ Numbered' /\ Agree'
  <2>0. PICK k \in Keys : k = key[p]
    BY <1>p
  <2>1. /\ pc[p] = "wait"
        /\ UNCHANGED <<sending, batch, limit, queue, enqueued, answered, key>>
    BY <1>14 DEF SendOk
  <2>2. batch[p] # << >>
    BY <2>1 DEF Exclusive, Sending
  <2>3. CASE CanRecover(k)
    <3>0. RecoverBurst(cur[k]) \in 1 .. Burst
      <4>1. cur[k] \in 1 .. Burst
        BY DEF TypeOK
      <4> QED
        BY <4>1, Bursts
    <3>1. PICK b \in 1 .. Burst : b = RecoverBurst(cur[k])
      BY <3>0
    <3>2. /\ cur' = [cur EXCEPT ![k] = b] /\ step' = [step EXCEPT ![p] = b]
          /\ pc' = [pc EXCEPT ![p] = "recover"]
      BY <1>14, <2>0, <2>3, <3>1 DEF SendOk
    <3>3. Exclusive' /\ Numbered'
      BY <2>1, <2>2, <3>2, <1>p, InsideKeeps DEF InFlight, Sending
    <3>4. Agree'
      BY <2>0, <2>1, <3>2, CarryAgrees
    <3> QED
      BY <3>3, <3>4
  <2>4. CASE ~CanRecover(k)
    <3>1. pc' = [pc EXCEPT ![p] = "deliver"] /\ UNCHANGED <<cur, step>>
      BY <1>14, <2>0, <2>4 DEF SendOk
    <3>2. Exclusive' /\ Numbered'
      BY <2>1, <2>2, <3>1, <1>p, InsideKeeps DEF InFlight, Sending
    <3>3. Agree'
      BY <2>1, <3>1, <1>p, AgreeKeeps
    <3> QED
      BY <3>2, <3>3
  <2> QED
    BY <2>3, <2>4
<1>15. ASSUME NEW p \in Procs, SendLimited(p)
       PROVE  Exclusive' /\ Numbered' /\ Agree'
  <2>0. PICK k \in Keys : k = key[p]
    BY <1>p
  <2>b. HitBurst(cur[k]) \in 1 .. Burst /\ HitBurst(cur[k]) <= cur[k]
    <3>1. cur[k] \in 1 .. Burst
      BY DEF TypeOK
    <3> QED
      BY <3>1, Bursts
  <2>1. PICK b \in 1 .. Burst : b = HitBurst(cur[k]) /\ b <= cur[k]
    BY <2>b
  <2>2. /\ pc[p] = "wait" /\ pc' = [pc EXCEPT ![p] = "tighten"]
        /\ cur' = [cur EXCEPT ![k] = b] /\ step' = [step EXCEPT ![p] = b]
        /\ UNCHANGED <<sending, batch, limit, queue, enqueued, answered, key>>
    BY <1>15, <2>0, <2>1 DEF SendLimited
  <2>3. batch[p] # << >>
    BY <2>2 DEF Exclusive, Sending
  <2>4. Exclusive' /\ Numbered'
    BY <2>2, <2>3, <1>p, InsideKeeps DEF InFlight, Sending
  <2>5. Agree'
    BY <2>0, <2>1, <2>2, CarryAgrees
  <2> QED
    BY <2>4, <2>5
<1>16. ASSUME NEW p \in Procs, SetLimit(p)
       PROVE  Exclusive' /\ Numbered' /\ Agree'
  <2>1. PICK x \in {"penalize", "deliver"} : pc' = [pc EXCEPT ![p] = x]
    BY <1>16 DEF SetLimit, AfterSetLimit
  <2>2. /\ pc[p] \in {"tighten", "recover"}
        /\ UNCHANGED <<sending, batch, queue, enqueued, answered, key>>
    BY <1>16 DEF SetLimit, AfterSetLimit
  <2>3. batch[p] # << >>
    BY <2>2 DEF Exclusive, Sending
  <2>4. Exclusive' /\ Numbered'
    BY <2>1, <2>2, <2>3, <1>p, InsideKeeps DEF InFlight, Sending
  <2> QED
    BY <1>16, <2>4, SetLimitAgrees
<1>17. ASSUME NEW p \in Procs, NEW w \in Waits, Penalize(p, w)
       PROVE  Exclusive' /\ Numbered' /\ Agree'
  <2>2. /\ pc[p] = "penalize" /\ pc' = [pc EXCEPT ![p] = "deliver"]
        /\ UNCHANGED <<sending, batch, step, cur, limit, queue, enqueued, answered, key>>
    BY <1>17 DEF Penalize
  <2>3. batch[p] # << >>
    BY <2>2 DEF Exclusive, Sending
  <2>4. Exclusive' /\ Numbered'
    BY <2>2, <2>3, <1>p, InsideKeeps DEF InFlight, Sending
  <2>5. Agree'
    BY <2>2, <1>p, AgreeKeeps
  <2> QED
    BY <2>4, <2>5
<1>18. ASSUME NEW p \in Procs, Deliver(p)
       PROVE  Exclusive' /\ Numbered' /\ Agree'
  <2>1. /\ pc[p] = "deliver" /\ pc' = [pc EXCEPT ![p] = "send"] /\ UNCHANGED <<step, cur, limit, key>>
    BY <1>18 DEF Deliver
  <2>2. Agree'
    BY <2>1, <1>p, AgreeKeeps
  <2> QED
    BY <1>18, <2>2, DeliverKeeps
<1>19. ASSUME NEW p \in Procs, DrainDone(p)
       PROVE  Exclusive' /\ Numbered' /\ Agree'
  BY <1>19, DoneKeeps
<1>20. ASSUME NEW k \in Keys, QueueState(k)
       PROVE  Exclusive' /\ Numbered' /\ Agree'
  BY <1>20, OutsideStep DEF QueueState
<1> QED
  BY <1>1, <1>2, <1>3, <1>4, <1>5, <1>6, <1>7, <1>8, <1>9, <1>10, <1>11, <1>12, <1>13, <1>14,
     <1>15, <1>16, <1>17, <1>18, <1>19, <1>20
     DEF Next, RequestStep, DrainKeyStep, SendReturns

(* A worker of Drain is not a request. *)
LEMMA WorkersApart ==
  /\ \A r \in Requests : r \in Procs
  /\ \A w \in Workers : w \in Procs /\ w \notin Requests
BY GovernorAssumption DEF Procs, Workers

(* A process takes up work only on a channel that has its bucket. *)
LEMMA EnsuredKeeps ==
  ASSUME Ensured, known \subseteq known', UNCHANGED <<enqueued, queue, notBefore>>,
         \A q \in Procs : pc'[q] \in Working => \/ pc[q] \in Working /\ key'[q] = key[q]
                                                \/ key'[q] \in known',
         \A w \in Workers : key'[w] = key[w]
  PROVE  Ensured'
<1>1. \A q \in Procs : pc'[q] \in Working => key'[q] \in known'
  BY DEF Ensured
<1>2. \A k \in Keys \ known' : enqueued'[k] = 0 /\ queue'[k] = << >> /\ notBefore'[k] = 0
  BY DEF Ensured
<1>3. \A w \in Workers : key'[w] = w[2]
  BY DEF Ensured
<1> QED
  BY <1>1, <1>2, <1>3 DEF Ensured, Working, Sending

(* What a process in flight, or Submit, changes of its own channel. *)
LEMMA EnsuredOwn ==
  ASSUME TypeOK, Ensured, NEW p \in Procs, pc[p] \in Working, UNCHANGED <<known, key>>,
         \A q \in Procs \ {p} : pc'[q] = pc[q],
         \A j \in Keys \ {key[p]} : /\ enqueued'[j] = enqueued[j] /\ queue'[j] = queue[j]
                                    /\ notBefore'[j] = notBefore[j]
  PROVE  Ensured'
<1>1. key[p] \in known
  BY DEF Ensured
<1>2. \A q \in Procs : pc'[q] \in Working => key'[q] \in known'
  BY <1>1 DEF Ensured
<1>3. \A k \in Keys \ known' : enqueued'[k] = 0 /\ queue'[k] = << >> /\ notBefore'[k] = 0
  BY <1>1 DEF Ensured
<1> QED
  BY <1>2, <1>3 DEF Ensured, Working, Sending

(* Ensured over every step. *)
LEMMA EnsuredNext ==
  ASSUME TypeOK, Within, Ensured, [Next]_vars
  PROVE  Ensured'
<1>p. pc \in [Procs -> Pcs] /\ key \in [Procs -> Keys]
  BY DEF TypeOK
<1> USE DEF bucketVars, adaptVars, queueVars, procVars, reqVars
<1>1. CASE UNCHANGED vars
  BY <1>1, EnsuredKeeps DEF vars
<1>2. CASE Tick
  BY <1>2, EnsuredKeeps DEF Tick
<1>3. ASSUME NEW r \in Requests, SendRequest(r)
      PROVE  Ensured'
  <2>1. /\ pc' = [pc EXCEPT ![r] = "target"]
        /\ UNCHANGED <<known, key, enqueued, queue, notBefore>>
    BY <1>3 DEF SendRequest
  <2>2. \A q \in Procs : pc'[q] \in Working => pc[q] \in Working
    BY <2>1, <1>p DEF Working, Sending
  <2> QED
    BY <2>1, <2>2, EnsuredKeeps
<1>4. ASSUME NEW p \in Procs, UNCHANGED <<known, enqueued, queue, notBefore>>, Leave(p)
      PROVE  Ensured'
  <2>1. /\ pc'[p] \in {"target", "collect", "idle"}
        /\ p \notin Requests => key'[p] = key[p]
        /\ \A q \in Procs \ {p} : pc'[q] = pc[q] /\ key'[q] = key[q]
    BY <1>4, LeaveFacts
  <2>2. \A q \in Procs : pc'[q] \in Working => pc[q] \in Working /\ key'[q] = key[q]
    BY <2>1 DEF Working, Sending
  <2>3. \A w \in Workers : key'[w] = key[w]
    BY <2>1, WorkersApart
  <2> QED
    BY <1>4, <2>2, <2>3, EnsuredKeeps
<1>5. ASSUME NEW r \in Requests, Ensure(r)
      PROVE  Ensured'
  <2>1. /\ pc' = [pc EXCEPT ![r] = "submit"] /\ UNCHANGED <<key, enqueued, queue, notBefore>>
        /\ known \subseteq known' /\ key[r] \in known'
    BY <1>5 DEF Ensure
  <2>2. \A q \in Procs : pc'[q] \in Working => pc[q] \in Working \/ q = r
    BY <2>1, <1>p
  <2> QED
    BY <2>1, <2>2, EnsuredKeeps
<1>6. ASSUME NEW r \in Requests, Enqueue(r)
      PROVE  Ensured'
  <2>1. /\ pc[r] = "submit" /\ pc' = [pc EXCEPT ![r] = "now"]
        /\ UNCHANGED <<known, key, notBefore>>
        /\ \A j \in Keys \ {key[r]} : enqueued'[j] = enqueued[j] /\ queue'[j] = queue[j]
    BY <1>6 DEF Enqueue, TypeOK
  <2> QED
    BY <2>1, <1>p, WorkersApart, EnsuredOwn DEF Working
<1>7. ASSUME NEW r \in Requests, Collect(r)
      PROVE  Ensured'
  <2>1. /\ UNCHANGED <<known, key, enqueued, queue, notBefore>>
        /\ pc' = pc \/ pc' = [pc EXCEPT ![r] = "returned"]
    BY <1>7 DEF Collect
  <2>2. \A q \in Procs : pc'[q] \in Working => pc[q] \in Working
    BY <2>1, <1>p DEF Working, Sending
  <2> QED
    BY <2>1, <2>2, EnsuredKeeps
<1>8. ASSUME NEW d \in Drains, Drain(d)
      PROVE  Ensured'
  <2>1. /\ UNCHANGED <<known, key, enqueued, queue, notBefore>>
        /\ pc' = [p \in Procs |-> IF p \in {d} \X known THEN "now" ELSE pc[p]]
    BY <1>8 DEF Drain
  <2>2. ASSUME NEW q \in Procs, pc'[q] \in Working
        PROVE  \/ pc[q] \in Working /\ key'[q] = key[q]
               \/ key'[q] \in known'
    <3>1. CASE q \in {d} \X known
      <4>1. q \in Workers /\ q[2] \in known
        BY <3>1 DEF Workers, TypeOK
      <4>2. key[q] = q[2]
        BY <4>1 DEF Ensured
      <4> QED
        BY <4>1, <4>2, <2>1
    <3>2. CASE q \notin {d} \X known
      BY <2>1, <2>2, <3>2
    <3> QED
      BY <3>1, <3>2
  <2> QED
    BY <2>1, <2>2, EnsuredKeeps
<1>9. ASSUME NEW p \in Procs, ReadClock(p)
      PROVE  Ensured'
  <2>1. /\ pc[p] = "now" /\ pc' = [pc EXCEPT ![p] = "lock"]
        /\ UNCHANGED <<known, key, enqueued, queue, notBefore>>
    BY <1>9 DEF ReadClock
  <2> QED
    BY <2>1, <1>p, EnsuredOwn DEF Working
<1>10. ASSUME NEW p \in Procs, DrainBusy(p) \/ DrainNothing(p) \/ DrainDone(p)
       PROVE  Ensured'
  BY <1>10, <1>4 DEF DrainBusy, DrainNothing, DrainDone
<1>11. ASSUME NEW p \in Procs, DrainTake(p)
       PROVE  Ensured'
  <2>1. /\ pc[p] = "lock" /\ pc' = [pc EXCEPT ![p] = "send"]
        /\ UNCHANGED <<known, key, enqueued, notBefore>>
        /\ \A j \in Keys \ {key[p]} : queue'[j] = queue[j]
    BY <1>11 DEF DrainTake, TakeReady, TypeOK
  <2> QED
    BY <2>1, <1>p, EnsuredOwn DEF Working
<1>12. ASSUME NEW p \in Procs, SendStart(p)
       PROVE  Ensured'
  <2>1. PICK x : pc' = [pc EXCEPT ![p] = x]
    BY <1>12 DEF SendStart
  <2>2. pc[p] = "send" /\ UNCHANGED <<known, key, enqueued, queue, notBefore>>
    BY <1>12 DEF SendStart
  <2> QED
    BY <2>1, <2>2, <1>p, EnsuredOwn DEF Working
<1>13. ASSUME NEW p \in Procs, SendReturns(p)
       PROVE  Ensured'
  <2>1. \E x : pc' = [pc EXCEPT ![p] = x]
    BY <1>13 DEF SendReturns, SendOk, SendFail, SendLimited
  <2>2. PICK x : pc' = [pc EXCEPT ![p] = x]
    BY <2>1
  <2>3. pc[p] \in Sending /\ UNCHANGED <<known, key, enqueued, queue, notBefore>>
    BY <1>13 DEF SendReturns, SendOk, SendFail, SendLimited, Sending
  <2> QED
    BY <2>2, <2>3, <1>p, EnsuredOwn DEF Working
<1>14. ASSUME NEW p \in Procs, SetLimit(p)
       PROVE  Ensured'
  <2>1. PICK x : pc' = [pc EXCEPT ![p] = x]
    BY <1>14 DEF SetLimit, AfterSetLimit
  <2>2. pc[p] \in Sending /\ UNCHANGED <<known, key, enqueued, queue>>
    BY <1>14 DEF SetLimit, AfterSetLimit, Sending
  <2>3. \A j \in Keys \ {key[p]} : notBefore'[j] = notBefore[j]
    BY <1>14 DEF SetLimit, AfterSetLimit, TypeOK
  <2> QED
    BY <2>1, <2>2, <2>3, <1>p, EnsuredOwn DEF Working
<1>15. ASSUME NEW p \in Procs, NEW w \in Waits, Penalize(p, w)
       PROVE  Ensured'
  <2>1. /\ pc[p] = "penalize" /\ pc' = [pc EXCEPT ![p] = "deliver"]
        /\ UNCHANGED <<known, key, enqueued, queue>>
    BY <1>15 DEF Penalize
  <2>2. \A j \in Keys \ {key[p]} : notBefore'[j] = notBefore[j]
    BY <1>15 DEF Penalize, TypeOK
  <2> QED
    BY <2>1, <2>2, <1>p, EnsuredOwn DEF Working, Sending
<1>16. ASSUME NEW p \in Procs, Deliver(p)
       PROVE  Ensured'
  <2>1. /\ pc[p] = "deliver" /\ pc' = [pc EXCEPT ![p] = "send"]
        /\ UNCHANGED <<known, key, enqueued, queue, notBefore>>
    BY <1>16 DEF Deliver
  <2> QED
    BY <2>1, <1>p, EnsuredOwn DEF Working, Sending
<1>17. ASSUME NEW k \in Keys, QueueState(k)
       PROVE  Ensured'
  BY <1>17, EnsuredKeeps DEF QueueState
<1>18. ASSUME NEW r \in Requests, ExcludeTarget(r)
       PROVE  Ensured'
  BY <1>18, <1>4, WorkersApart DEF ExcludeTarget
<1> QED
  BY <1>1, <1>2, <1>3, <1>5, <1>6, <1>7, <1>8, <1>9, <1>10, <1>11, <1>12, <1>13, <1>14,
     <1>15, <1>16, <1>17, <1>18
     DEF Next, RequestStep, DrainKeyStep

(* The clock readings of a step that moves no bucket and reads no clock. *)
LEMMA PastKeeps ==
  ASSUME TypeOK, Past, clock' \in Nat, clock' >= clock, UNCHANGED <<known, lastRefill>>,
         \A p \in Procs : now'[p] \in {now[p], 0, clock}
  PROVE  Past'
<1>1. ASSUME NEW p \in Procs
      PROVE  now'[p] <= clock'
  <2>1. now[p] \in Nat /\ now[p] <= clock /\ clock \in Nat
    BY DEF TypeOK, Past
  <2> QED
    BY <2>1
<1>2. ASSUME NEW k \in known
      PROVE  lastRefill[k] <= clock'
  <2>1. lastRefill[k] \in Nat /\ lastRefill[k] <= clock /\ clock \in Nat
    BY DEF TypeOK, Past
  <2> QED
    BY <2>1
<1> QED
  BY <1>1, <1>2 DEF Past

(* A refill that uses a clock reading leaves lastRefill at or before the clock. *)
LEMMA PastRefill ==
  ASSUME TypeOK, Past, NEW k \in Keys, k \in known, NEW t \in Nat, t <= clock,
         UNCHANGED <<known, clock>>,
         lastRefill' = [lastRefill EXCEPT ![k] = RefilledAt(k, t)],
         \A p \in Procs : now'[p] \in {now[p], 0}
  PROVE  Past'
<1>1. clock \in Nat /\ RefilledAt(k, t) <= clock
  BY DEF TypeOK, Past, RefilledAt
<1>2. \A p \in Procs : now'[p] <= clock
  BY <1>1 DEF Past
<1>3. \A j \in known : lastRefill'[j] <= clock
  BY <1>1 DEF Past, TypeOK
<1> QED
  BY <1>2, <1>3 DEF Past

(* A step that leaves the buckets and the queues alone. *)
LEMMA BucketsApart ==
  ASSUME TypeOK, Past, Earned, Held, clock' \in Nat, clock' >= clock,
         UNCHANGED <<bucketVars, notBefore, queue, enqueued>>,
         \A p \in Procs : now'[p] \in {now[p], 0, clock}
  PROVE  Past' /\ Earned' /\ Held'
<1>1. UNCHANGED <<known, lastRefill>> /\ known \subseteq Keys
  BY DEF bucketVars, TypeOK
<1>2. \A k \in Keys : Taken(k)' = Taken(k)
  BY DEF Taken
<1> QED
  BY <1>1, <1>2, PastKeeps, BucketsIdle

(* Buckets and clock readings over every step. *)
LEMMA BucketsNext ==
  ASSUME TypeOK, Exclusive, Numbered, Agree, Ensured, Past, Earned, Held, [Next]_vars
  PROVE  Past' /\ Earned' /\ Held'
<1>p. /\ now \in [Procs -> Nat] /\ clock \in Nat /\ key \in [Procs -> Keys] /\ known \subseteq Keys
      /\ clock >= clock
  BY DEF TypeOK
<1>1. CASE UNCHANGED vars
  <2>1. UNCHANGED <<clock, bucketVars, notBefore, queue, enqueued, now>>
    BY <1>1 DEF vars, queueVars, procVars
  <2> QED
    BY <2>1, <1>p, BucketsApart
<1>2. CASE Tick
  <2>1. UNCHANGED <<bucketVars, notBefore, queue, enqueued, now>> /\ clock' = clock + 1
    BY <1>2 DEF Tick, queueVars, procVars
  <2> QED
    BY <2>1, <1>p, BucketsApart
<1>3. ASSUME NEW r \in Requests, SendRequest(r) \/ ExcludeTarget(r) \/ Collect(r)
      PROVE  Past' /\ Earned' /\ Held'
  <2>1. UNCHANGED <<clock, bucketVars, notBefore, queue, enqueued, now>>
    BY <1>3 DEF SendRequest, ExcludeTarget, Collect, queueVars
  <2> QED
    BY <2>1, <1>p, BucketsApart
<1>4. ASSUME NEW r \in Requests, Ensure(r)
      PROVE  Past' /\ Earned' /\ Held'
  <2>1. r \in Procs
    BY WorkersApart
  <2>2. Earned' /\ Held'
    BY <1>4, <2>1, EnsureBuckets
  <2>3. UNCHANGED <<clock, now>>
    BY <1>4 DEF Ensure
  <2>4. \A k \in known' : \/ lastRefill'[k] = clock
                          \/ k \in known /\ lastRefill'[k] = lastRefill[k]
    <3>1. key[r] \in known => UNCHANGED <<known, lastRefill>>
      BY <1>4 DEF Ensure, bucketVars
    <3>2. key[r] \notin known => /\ known' = known \cup {key[r]}
                                 /\ lastRefill' = [lastRefill EXCEPT ![key[r]] = clock]
      BY <1>4 DEF Ensure
    <3>3. lastRefill \in [Keys -> Nat] /\ key[r] \in Keys
      BY <2>1, <1>p DEF TypeOK
    <3> QED
      BY <3>1, <3>2, <3>3, <1>p
  <2>5. Past'
    BY <2>3, <2>4, <1>p DEF Past
  <2> QED
    BY <2>2, <2>5
<1>5. ASSUME NEW r \in Requests, Enqueue(r)
      PROVE  Past' /\ Earned' /\ Held'
  <2>1. UNCHANGED <<clock, bucketVars, notBefore, now>>
    BY <1>5 DEF Enqueue
  <2>2. \A k \in Keys : Taken(k)' = Taken(k)
    BY <1>5, EnqueueKeeps
  <2>3. Earned' /\ Held'
    BY <2>1, <2>2, <1>p, BucketsIdle
  <2>4. Past'
    BY <2>1, <1>p, PastKeeps DEF bucketVars
  <2> QED
    BY <2>3, <2>4
<1>6. ASSUME NEW d \in Drains, Drain(d)
      PROVE  Past' /\ Earned' /\ Held'
  <2>1. UNCHANGED <<clock, bucketVars, notBefore, queue, enqueued, now>>
    BY <1>6 DEF Drain, queueVars
  <2> QED
    BY <2>1, <1>p, BucketsApart
<1>7. ASSUME NEW p \in Procs, ReadClock(p)
      PROVE  Past' /\ Earned' /\ Held'
  <2>1. /\ UNCHANGED <<clock, bucketVars, notBefore, queue, enqueued>>
        /\ now' = [now EXCEPT ![p] = clock]
    BY <1>7 DEF ReadClock, queueVars
  <2>2. \A q \in Procs : now'[q] \in {now[q], 0, clock}
    BY <2>1, <1>p
  <2> QED
    BY <2>1, <2>2, <1>p, BucketsApart
<1>8. ASSUME NEW p \in Procs, DrainBusy(p)
      PROVE  Past' /\ Earned' /\ Held'
  <2>1. /\ UNCHANGED <<clock, bucketVars, notBefore, queue, enqueued>>
        /\ now' = [now EXCEPT ![p] = 0]
    BY <1>8 DEF DrainBusy, queueVars
  <2>2. \A q \in Procs : now'[q] \in {now[q], 0, clock}
    BY <2>1, <1>p
  <2> QED
    BY <2>1, <2>2, <1>p, BucketsApart
<1>9. ASSUME NEW p \in Procs, DrainNothing(p)
      PROVE  Past' /\ Earned' /\ Held'
  <2>0. PICK k \in Keys : k = key[p]
    BY <1>p
  <2>1. /\ pc[p] = "lock" /\ now' = [now EXCEPT ![p] = 0]
        /\ tokens' = [tokens EXCEPT ![k] = Refilled(k, now[p])]
        /\ lastRefill' = [lastRefill EXCEPT ![k] = RefilledAt(k, now[p])]
        /\ UNCHANGED <<clock, known, limit, born, queue, enqueued, notBefore>>
    BY <1>9, <2>0 DEF DrainNothing, queueVars
  <2>2. k \in known
    BY <2>0, <2>1 DEF Ensured, Working
  <2>3. now[p] \in Nat /\ now[p] <= clock /\ Window \in Nat /\ Refilled(k, now[p]) \in Int
    BY <1>p, RefillFacts, GovernorAssumption DEF Past
  <2>4. /\ Taken(k)' = Taken(k) + 0 /\ \A j \in Keys \ {k} : Taken(j)' = Taken(j)
        /\ Refilled(k, now[p]) + 0 * Window <= Refilled(k, now[p])
    <3>1. \A j \in Keys : Taken(j)' = Taken(j) /\ Taken(j) \in Int
      BY <2>1, BucketTypes DEF Taken
    <3> QED
      BY <2>3, <3>1
  <2>5. Earned'
    BY <2>1, <2>2, <2>3, <2>4, RefillEarned
  <2>6. Held'
    <3>1. Refilled(k, now[p]) <= Refilled(k, now[p])
      BY <2>3
    <3> QED
      BY <2>1, <2>3, <3>1, RefillHeld
  <2>7. \A q \in Procs : now'[q] \in {now[q], 0}
    BY <2>1, <1>p
  <2>8. Past'
    BY <2>1, <2>2, <2>3, <2>7, PastRefill
  <2> QED
    BY <2>5, <2>6, <2>8
<1>10. ASSUME NEW p \in Procs, DrainTake(p)
       PROVE  Past' /\ Earned' /\ Held'
  <2>0. PICK k \in Keys : k = key[p]
    BY <1>p
  <2>n. PICK n : n = Ready(k, now[p])
    OBVIOUS
  <2>1. /\ pc[p] = "lock" /\ sending[k] = "no" /\ n > 0 /\ TakeReady(p, k, n)
    BY <1>10, <2>0, <2>n DEF DrainTake
  <2>2. k \in known
    BY <2>0, <2>1 DEF Ensured, Working
  <2>3. /\ now[p] \in Nat /\ now[p] <= clock /\ Window \in Nat \ {0} /\ Refilled(k, now[p]) \in Int
        /\ Len(queue[k]) \in Nat
    BY <1>p, RefillFacts, BucketTypes, GovernorAssumption DEF Past
  <2>4. PICK d \in Int : d = Refilled(k, now[p]) \div Window
    BY <2>3
  <2>5. n \in Nat /\ n >= 1 /\ n <= Len(queue[k]) /\ n <= d
    BY <2>1, <2>3, <2>4, <2>n DEF Ready, Least
  <2>6. d * Window <= Refilled(k, now[p])
    BY <2>3, <2>4
  <2>7. n * Window <= d * Window /\ n * Window \in Int /\ d * Window \in Int
    BY <2>3, <2>5, Mono, Times
  <2>8. PICK v \in Int : v = Refilled(k, now[p]) - n * Window
    BY <2>3, <2>7
  <2>9. v + n * Window <= Refilled(k, now[p]) /\ v <= Refilled(k, now[p])
    BY <2>3, <2>5, <2>7, <2>8
  <2>10. /\ now' = [now EXCEPT ![p] = 0]
         /\ tokens' = [tokens EXCEPT ![k] = v]
         /\ lastRefill' = [lastRefill EXCEPT ![k] = RefilledAt(k, now[p])]
         /\ queue' = [queue EXCEPT ![k] = SubSeq(@, n + 1, Len(@))]
         /\ UNCHANGED <<clock, known, limit, born, enqueued, notBefore>>
    BY <2>1, <2>8 DEF TakeReady
  <2>11. Taken(k)' = Taken(k) + n /\ \A j \in Keys \ {k} : Taken(j)' = Taken(j)
    <3>1. Taken(k)' = Taken(k) + n
      BY <2>0, <2>1, <2>5, TakeKeeps
    <3>2. \A j \in Keys \ {k} : queue'[j] = queue[j]
      BY <2>10 DEF TypeOK
    <3> QED
      BY <2>10, <3>1, <3>2 DEF Taken
  <2>12. Earned'
    BY <2>2, <2>3, <2>5, <2>9, <2>10, <2>11, RefillEarned
  <2>13. Held'
    BY <2>3, <2>9, <2>10, RefillHeld
  <2>14. \A q \in Procs : now'[q] \in {now[q], 0}
    BY <2>10, <1>p
  <2>15. Past'
    BY <2>2, <2>3, <2>10, <2>14, PastRefill
  <2> QED
    BY <2>12, <2>13, <2>15
<1>11. ASSUME NEW p \in Procs, SendStart(p) \/ SendReturns(p) \/ Deliver(p) \/ DrainDone(p)
       PROVE  Past' /\ Earned' /\ Held'
  <2>1. UNCHANGED <<clock, bucketVars, notBefore, queue, enqueued, now>>
    BY <1>11 DEF SendStart, SendReturns, SendOk, SendFail, SendLimited, Deliver, DrainDone, queueVars
  <2> QED
    BY <2>1, <1>p, BucketsApart
<1>12. ASSUME NEW p \in Procs, SetLimit(p)
       PROVE  Past' /\ Earned' /\ Held'
  <2>1. Earned' /\ Held'
    BY <1>12, SetLimitBuckets
  <2>2. UNCHANGED <<clock, known, lastRefill, now>>
    BY <1>12 DEF SetLimit, AfterSetLimit
  <2>3. Past'
    BY <2>2, <1>p, PastKeeps
  <2> QED
    BY <2>1, <2>3
<1>13. ASSUME NEW p \in Procs, NEW w \in Waits, Penalize(p, w)
       PROVE  Past' /\ Earned' /\ Held'
  <2>0. PICK k \in Keys : k = key[p]
    BY <1>p
  <2>1. Earned' /\ Held'
    BY <1>13, PenalizeBuckets
  <2>2. /\ pc[p] = "penalize" /\ UNCHANGED <<clock, known, now>>
        /\ lastRefill' = [lastRefill EXCEPT ![k] = RefilledAt(k, clock)]
    BY <1>13, <2>0 DEF Penalize
  <2>3. k \in known
    BY <2>0, <2>2 DEF Ensured, Working, Sending
  <2>4. Past'
    BY <2>2, <2>3, <1>p, PastRefill
  <2> QED
    BY <2>1, <2>4
<1>14. ASSUME NEW k \in Keys, QueueState(k)
       PROVE  Past' /\ Earned' /\ Held'
  <2>1. /\ k \in known /\ clock > lastRefill[k]
        /\ tokens' = [tokens EXCEPT ![k] = Refilled(k, clock)]
        /\ lastRefill' = [lastRefill EXCEPT ![k] = clock]
        /\ UNCHANGED <<clock, known, limit, born, queue, enqueued, notBefore, now>>
    BY <1>14 DEF QueueState, queueVars, procVars
  <2>2. RefilledAt(k, clock) = clock /\ Refilled(k, clock) \in Int /\ Window \in Nat
        /\ lastRefill[k] \in Nat
    BY <2>1, <1>p, RefillFacts, BucketTypes, GovernorAssumption DEF RefilledAt
  <2>3. /\ Taken(k)' = Taken(k) + 0 /\ \A j \in Keys \ {k} : Taken(j)' = Taken(j)
        /\ Refilled(k, clock) + 0 * Window <= Refilled(k, clock)
    <3>1. \A j \in Keys : Taken(j)' = Taken(j) /\ Taken(j) \in Int
      BY <2>1, BucketTypes DEF Taken
    <3> QED
      BY <2>2, <3>1
  <2>4. Earned'
    BY <2>1, <2>2, <2>3, <1>p, RefillEarned
  <2>5. Held'
    <3>1. Refilled(k, clock) <= Refilled(k, clock)
      BY <2>2
    <3> QED
      BY <2>1, <2>2, <3>1, <1>p, RefillHeld
  <2>6. Past'
    BY <2>1, <2>2, <1>p, PastRefill
  <2> QED
    BY <2>4, <2>5, <2>6
<1> QED
  BY <1>1, <1>2, <1>3, <1>4, <1>5, <1>6, <1>7, <1>8, <1>9, <1>10, <1>11, <1>12, <1>13, <1>14
     DEF Next, RequestStep, DrainKeyStep

(* Writing one target of one request keeps the rest. *)
LEMMA HoldsWrite ==
  ASSUME NEW f, NEW S, Holds(f, S), NEW r \in Requests, NEW i, NEW v \in S
  PROVE  Holds([f EXCEPT ![r][i] = v], S)
<1> DEFINE g == [f EXCEPT ![r][i] = v]
<1>1. /\ f = [s \in Requests |-> f[s]]
      /\ \A s \in Requests : f[s] \in [DOMAIN Targets[s] -> S]
  BY DEF Holds
<1>2. /\ g = [s \in Requests |-> g[s]]
      /\ g[r] = [f[r] EXCEPT ![i] = v] /\ \A s \in Requests \ {r} : g[s] = f[s]
  BY <1>1
<1>3. [f[r] EXCEPT ![i] = v] \in [DOMAIN Targets[r] -> S]
  BY <1>1
<1> QED
  BY <1>1, <1>2, <1>3 DEF Holds

(* The types over the variables a step may change. *)
LEMMA TypedFrom ==
  ASSUME clock' \in Nat, known' \subseteq Keys,
         tokens' \in [Keys -> Int], lastRefill' \in [Keys -> Nat], limit' \in [Keys -> 1 .. Burst],
         born' \in [Keys -> Nat], notBefore' \in [Keys -> Nat],
         cur' \in [Keys -> 1 .. Burst], lastStep' \in [Keys -> Nat],
         queue' \in [Keys -> Seq(Entries)], sending' \in [Keys -> {"no", "yes"}],
         enqueued' \in [Keys -> Nat], answered' \in [Keys -> Nat],
         pc' \in [Procs -> Pcs], key' \in [Procs -> Keys], now' \in [Procs -> Nat],
         ans' \in [Procs -> {"none", "ok", "failed"}], batch' \in [Procs -> Seq(Entries)],
         step' \in [Procs -> 0 .. Burst],
         at' \in [Requests -> Nat \ {0}], Within',
         Holds(result', {"none", "empty", "ok", "failed"}),
         Holds(reply', {"none", "excluded", "sent", "dropped", "queued"})
  PROVE  Typed'
<1>1. \A r \in Requests : \A i \in DOMAIN Targets[r] :
        /\ result'[r][i] \in {"none", "empty", "ok", "failed"}
        /\ reply'[r][i] \in {"none", "excluded", "sent", "dropped", "queued"}
  BY DEF Holds
<1>2. TypeOK'
  BY <1>1 DEF TypeOK
<1> QED
  BY <1>2 DEF Typed

(* The types over every step. *)
LEMMA TypedNext ==
  ASSUME Typed, Exclusive, Agree, [Next]_vars
  PROVE  Typed'
<1>t. /\ clock \in Nat /\ known \subseteq Keys
      /\ tokens \in [Keys -> Int] /\ lastRefill \in [Keys -> Nat] /\ limit \in [Keys -> 1 .. Burst]
      /\ born \in [Keys -> Nat] /\ notBefore \in [Keys -> Nat]
      /\ cur \in [Keys -> 1 .. Burst] /\ lastStep \in [Keys -> Nat]
      /\ queue \in [Keys -> Seq(Entries)] /\ sending \in [Keys -> {"no", "yes"}]
      /\ enqueued \in [Keys -> Nat] /\ answered \in [Keys -> Nat]
      /\ pc \in [Procs -> Pcs] /\ key \in [Procs -> Keys] /\ now \in [Procs -> Nat]
      /\ ans \in [Procs -> {"none", "ok", "failed"}] /\ batch \in [Procs -> Seq(Entries)]
      /\ step \in [Procs -> 0 .. Burst]
      /\ at \in [Requests -> Nat \ {0}] /\ Within /\ TypeOK
      /\ Holds(result, {"none", "empty", "ok", "failed"})
      /\ Holds(reply, {"none", "excluded", "sent", "dropped", "queued"})
  BY DEF Typed, TypeOK
<1>p. /\ Requests \subseteq Procs /\ Burst \in Nat \ {0} /\ Window \in Nat \ {0}
      /\ Burst * Window \in Int
  BY GovernorAssumption DEF Procs
<1>w. at' = at => Within'
  BY <1>t DEF Within
<1>r. \A k \in Keys, t \in Nat : Refilled(k, t) \in Int /\ RefilledAt(k, t) \in Nat
  BY <1>t, RefillFacts
<1>s. \A x \in Pcs : \A p : pc' = [pc EXCEPT ![p] = x] => pc' \in [Procs -> Pcs]
  BY <1>t
<1> USE DEF bucketVars, adaptVars, queueVars, procVars, reqVars
<1>1. CASE UNCHANGED vars
  BY <1>1, <1>t, <1>w, TypedFrom DEF vars
<1>2. CASE Tick
  BY <1>2, <1>t, <1>w, TypedFrom DEF Tick
<1>3. ASSUME NEW r \in Requests, SendRequest(r)
      PROVE  Typed'
  <2>1. pc' \in [Procs -> Pcs]
    BY <1>3, <1>s DEF SendRequest, Pcs
  <2> QED
    BY <1>3, <1>t, <1>w, <2>1, TypedFrom DEF SendRequest
<1>4. ASSUME NEW p \in Procs, Leave(p)
      PROVE  /\ pc' \in [Procs -> Pcs] /\ key' \in [Procs -> Keys]
             /\ at' \in [Requests -> Nat \ {0}] /\ Within'
  BY <1>4, <1>t, LeaveFacts
<1>5. ASSUME NEW r \in Requests, ExcludeTarget(r)
      PROVE  Typed'
  <2>1. Holds(reply', {"none", "excluded", "sent", "dropped", "queued"})
    <3>1. reply' = [reply EXCEPT ![r][at[r]] = "excluded"]
      BY <1>5 DEF ExcludeTarget
    <3>2. PICK v \in {"none", "excluded", "sent", "dropped", "queued"} : v = "excluded"
      OBVIOUS
    <3> QED
      BY <1>t, <3>1, <3>2, HoldsWrite
  <2>2. /\ pc' \in [Procs -> Pcs] /\ key' \in [Procs -> Keys]
        /\ at' \in [Requests -> Nat \ {0}] /\ Within'
    BY <1>4, <1>5, <1>p DEF ExcludeTarget
  <2> QED
    BY <1>5, <1>t, <2>1, <2>2, TypedFrom DEF ExcludeTarget
<1>6. ASSUME NEW r \in Requests, Ensure(r)
      PROVE  Typed'
  <2>1. pc' \in [Procs -> Pcs]
    BY <1>6, <1>s DEF Ensure, Pcs
  <2>2. /\ known' \subseteq Keys /\ tokens' \in [Keys -> Int] /\ lastRefill' \in [Keys -> Nat]
        /\ limit' \in [Keys -> 1 .. Burst] /\ born' \in [Keys -> Nat]
    <3>1. CASE key[r] \in known
      BY <1>6, <3>1, <1>t DEF Ensure
    <3>2. CASE key[r] \notin known
      <4>1. PICK k \in Keys, v \in Int : k = key[r] /\ v = Burst * Window
        BY <1>t, <1>p
      <4>2. /\ known' = known \cup {k} /\ tokens' = [tokens EXCEPT ![k] = v]
            /\ lastRefill' = [lastRefill EXCEPT ![k] = clock]
            /\ born' = [born EXCEPT ![k] = clock] /\ limit' = limit
        BY <1>6, <3>2, <4>1 DEF Ensure
      <4> QED
        BY <1>t, <4>2
    <3> QED
      BY <3>1, <3>2
  <2>3. UNCHANGED <<clock, adaptVars, queueVars, key, now, ans, batch, step, reqVars, notBefore>>
    BY <1>6 DEF Ensure
  <2> QED
    BY <1>t, <1>w, <2>1, <2>2, <2>3, TypedFrom
<1>7. ASSUME NEW r \in Requests, Enqueue(r)
      PROVE  Typed'
  <2>0. PICK k \in Keys : k = key[r]
    BY <1>t, <1>p
  <2>1. pc' \in [Procs -> Pcs]
    BY <1>7, <1>s DEF Enqueue, Pcs
  <2>2. PICK e : e = [seq |-> enqueued[k] + 1, req |-> r, tgt |-> at[r]]
    OBVIOUS
  <2>3. e \in Entries
    <3>1. enqueued[k] + 1 \in Nat \ {0} /\ at[r] \in Nat \ {0}
      BY <1>t
    <3> QED
      BY <2>2, <3>1 DEF Entries
  <2>4. queue' = [queue EXCEPT ![k] = Append(@, e)] /\ enqueued' = [enqueued EXCEPT ![k] = @ + 1]
    BY <1>7, <2>0, <2>2 DEF Enqueue
  <2>5. queue' \in [Keys -> Seq(Entries)] /\ enqueued' \in [Keys -> Nat]
    <3>1. Append(queue[k], e) \in Seq(Entries)
      BY <1>t, <2>3
    <3> QED
      BY <1>t, <2>4, <3>1
  <2>6. Holds(result', {"none", "empty", "ok", "failed"})
    BY <1>7, <1>t, HoldsWrite DEF Enqueue
  <2>7. UNCHANGED <<clock, bucketVars, adaptVars, sending, batch, answered, key, now, ans, step,
                    at, reply, notBefore>>
    BY <1>7 DEF Enqueue
  <2> QED
    BY <1>t, <1>w, <2>1, <2>5, <2>6, <2>7, TypedFrom
<1>8. ASSUME NEW r \in Requests, Collect(r)
      PROVE  Typed'
  <2>1. pc' \in [Procs -> Pcs]
    <3>1. "returned" \in Pcs
      BY DEF Pcs
    <3> QED
      BY <1>8, <1>s, <1>t, <3>1 DEF Collect
  <2>2. Holds(reply', {"none", "excluded", "sent", "dropped", "queued"})
    <3>1. Status(result[r][at[r]]) \in {"none", "excluded", "sent", "dropped", "queued"}
      BY DEF Status
    <3>2. PICK s \in {"none", "excluded", "sent", "dropped", "queued"} :
            s = Status(result[r][at[r]])
      BY <3>1
    <3>3. CASE reply' = reply
      BY <1>t, <3>3
    <3>4. CASE reply' = [reply EXCEPT ![r][at[r]] = s]
      BY <1>t, <3>4, HoldsWrite
    <3> QED
      BY <1>8, <3>2, <3>3, <3>4 DEF Collect
  <2>3. at' \in [Requests -> Nat \ {0}] /\ Within'
    <3>1. CASE at[r] < Len(Targets[r])
      <4>1. at' = [at EXCEPT ![r] = @ + 1]
        BY <1>8, <3>1 DEF Collect
      <4>2. at[r] \in Nat \ {0} /\ Len(Targets[r]) \in Nat
        <5>1. Targets[r] \in Seq(Keys)
          BY GovernorAssumption
        <5> QED
          BY <1>t, <5>1
      <4> QED
        BY <1>t, <3>1, <4>1, <4>2 DEF Within
    <3>2. CASE ~(at[r] < Len(Targets[r]))
      BY <1>8, <1>t, <1>w, <3>2 DEF Collect
    <3> QED
      BY <3>1, <3>2
  <2>4. UNCHANGED <<clock, bucketVars, adaptVars, queueVars, key, now, ans, batch, step, result,
                    notBefore>>
    BY <1>8 DEF Collect
  <2> QED
    BY <1>t, <2>1, <2>2, <2>3, <2>4, TypedFrom
<1>9. ASSUME NEW d \in Drains, Drain(d)
      PROVE  Typed'
  <2>1. pc' \in [Procs -> Pcs]
    BY <1>9, <1>t DEF Drain, Pcs
  <2>2. UNCHANGED <<clock, bucketVars, adaptVars, queueVars, key, now, ans, batch, step, reqVars,
                    notBefore>>
    BY <1>9 DEF Drain
  <2> QED
    BY <1>t, <1>w, <2>1, <2>2, TypedFrom
<1>10. ASSUME NEW p \in Procs, ReadClock(p)
       PROVE  Typed'
  <2>1. pc' \in [Procs -> Pcs] /\ now' \in [Procs -> Nat]
    BY <1>10, <1>s, <1>t DEF ReadClock, Pcs
  <2> QED
    BY <1>10, <1>t, <1>w, <2>1, TypedFrom DEF ReadClock
<1>11. ASSUME NEW p \in Procs, DrainBusy(p) \/ DrainNothing(p)
       PROVE  Typed'
  <2>1. /\ pc' \in [Procs -> Pcs] /\ key' \in [Procs -> Keys]
        /\ at' \in [Requests -> Nat \ {0}] /\ Within'
    BY <1>4, <1>11 DEF DrainBusy, DrainNothing
  <2>2. tokens' \in [Keys -> Int] /\ lastRefill' \in [Keys -> Nat]
    <3>1. PICK k \in Keys, t \in Nat : k = key[p] /\ t = now[p]
      BY <1>t
    <3>2. CASE DrainBusy(p)
      BY <3>2, <1>t DEF DrainBusy
    <3>3. CASE DrainNothing(p)
      <4>1. /\ tokens' = [tokens EXCEPT ![k] = Refilled(k, t)]
            /\ lastRefill' = [lastRefill EXCEPT ![k] = RefilledAt(k, t)]
        BY <3>1, <3>3 DEF DrainNothing
      <4> QED
        BY <4>1, <1>t, <1>r
    <3> QED
      BY <1>11, <3>2, <3>3
  <2>3. now' \in [Procs -> Nat]
    <3>1. now' = [now EXCEPT ![p] = 0]
      BY <1>11 DEF DrainBusy, DrainNothing
    <3> QED
      BY <3>1, <1>t
  <2>4. UNCHANGED <<clock, known, limit, born, adaptVars, queueVars, ans, batch, step, result,
                    reply, notBefore>>
    BY <1>11 DEF DrainBusy, DrainNothing
  <2> QED
    BY <1>t, <2>1, <2>2, <2>3, <2>4, TypedFrom
<1>12. ASSUME NEW p \in Procs, DrainTake(p)
       PROVE  Typed'
  <2>0. PICK k \in Keys : k = key[p]
    BY <1>t
  <2>n. PICK n : n = Ready(k, now[p])
    OBVIOUS
  <2>1. n > 0 /\ TakeReady(p, k, n)
    BY <1>12, <2>0, <2>n DEF DrainTake
  <2>2. n \in Nat /\ n <= Len(queue[k]) /\ queue[k] \in Seq(Entries) /\ n * Window \in Int
    <3>1. Refilled(k, now[p]) \in Int /\ Window \in Nat \ {0} /\ queue[k] \in Seq(Entries)
      BY <1>t, <1>p, <1>r
    <3>2. Refilled(k, now[p]) \div Window \in Int /\ Len(queue[k]) \in Nat
      BY <3>1
    <3> QED
      BY <2>1, <2>n, <3>1, <3>2 DEF Ready, Least
  <2>3. pc' \in [Procs -> Pcs] /\ now' \in [Procs -> Nat]
    BY <2>1, <1>s, <1>t DEF TakeReady, Pcs
  <2>4. tokens' \in [Keys -> Int] /\ lastRefill' \in [Keys -> Nat]
    <3>1. Refilled(k, now[p]) \in Int /\ RefilledAt(k, now[p]) \in Nat
      BY <1>t, <1>r
    <3>2. PICK v \in Int, s \in Nat :
            v = Refilled(k, now[p]) - n * Window /\ s = RefilledAt(k, now[p])
      BY <2>2, <3>1
    <3>3. tokens' = [tokens EXCEPT ![k] = v] /\ lastRefill' = [lastRefill EXCEPT ![k] = s]
      BY <2>1, <3>2 DEF TakeReady
    <3> QED
      BY <3>3, <1>t
  <2>5. /\ SubSeq(queue[k], 1, n) \in Seq(Entries)
        /\ SubSeq(queue[k], n + 1, Len(queue[k])) \in Seq(Entries)
    BY <2>2
  <2>6. /\ batch' \in [Procs -> Seq(Entries)] /\ queue' \in [Keys -> Seq(Entries)]
        /\ sending' \in [Keys -> {"no", "yes"}]
    BY <2>1, <2>5, <1>t DEF TakeReady
  <2>7. UNCHANGED <<clock, known, limit, born, adaptVars, enqueued, answered, key, ans, step,
                    reqVars, notBefore>>
    BY <2>1 DEF TakeReady
  <2> QED
    BY <1>t, <1>w, <2>3, <2>4, <2>6, <2>7, TypedFrom
<1>13. ASSUME NEW p \in Procs, SendStart(p)
       PROVE  Typed'
  <2>1. pc' \in [Procs -> Pcs]
    BY <1>13, <1>s DEF SendStart, Pcs
  <2> QED
    BY <1>13, <1>t, <1>w, <2>1, TypedFrom DEF SendStart
<1>14. ASSUME NEW p \in Procs, SendReturns(p)
       PROVE  Typed'
  <2>0. PICK k \in Keys : k = key[p]
    BY <1>t
  <2>1. pc' \in [Procs -> Pcs] /\ ans' \in [Procs -> {"none", "ok", "failed"}]
    <3>1. {"recover", "tighten", "deliver"} \subseteq Pcs
      BY DEF Pcs
    <3> QED
      BY <1>14, <1>s, <1>t, <3>1 DEF SendReturns, SendOk, SendFail, SendLimited
  <2>2. /\ HitBurst(cur[k]) \in 1 .. Burst /\ RecoverBurst(cur[k]) \in 1 .. Burst
    <3>1. cur[k] \in 1 .. Burst
      BY <1>t
    <3> QED
      BY <3>1, Bursts
  <2>3. \A b \in 1 .. Burst : b \in 0 .. Burst
    BY <1>p
  <2>4. /\ cur' \in [Keys -> 1 .. Burst] /\ lastStep' \in [Keys -> Nat]
        /\ step' \in [Procs -> 0 .. Burst]
    <3>1. CASE SendFail(p)
      BY <3>1, <1>t DEF SendFail
    <3>2. CASE SendLimited(p)
      BY <3>2, <1>t, <2>0, <2>2, <2>3 DEF SendLimited
    <3>3. CASE SendOk(p) /\ CanRecover(k)
      BY <3>3, <1>t, <2>0, <2>2, <2>3 DEF SendOk
    <3>4. CASE SendOk(p) /\ ~CanRecover(k)
      BY <3>4, <1>t, <2>0 DEF SendOk
    <3> QED
      BY <1>14, <3>1, <3>2, <3>3, <3>4 DEF SendReturns
  <2>5. UNCHANGED <<clock, bucketVars, queueVars, key, now, batch, reqVars, notBefore>>
    BY <1>14 DEF SendReturns, SendOk, SendFail, SendLimited
  <2> QED
    BY <1>t, <1>w, <2>1, <2>4, <2>5, TypedFrom
<1>15. ASSUME NEW p \in Procs, SetLimit(p)
       PROVE  Typed'
  <2>0. PICK k \in Keys : k = key[p]
    BY <1>t
  <2>1. step[p] \in 1 .. Burst
    <3>1. step[p] = cur[k]
      BY <1>15, <2>0 DEF SetLimit, Agree
    <3> QED
      BY <3>1, <1>t
  <2>2. pc' \in [Procs -> Pcs]
    BY <1>15, <1>s DEF SetLimit, AfterSetLimit, Pcs
  <2>3. limit' \in [Keys -> 1 .. Burst] /\ step' \in [Procs -> 0 .. Burst]
    <3>1. limit' = [limit EXCEPT ![k] = step[p]] /\ step' = [step EXCEPT ![p] = 0]
      BY <1>15, <2>0 DEF SetLimit, AfterSetLimit
    <3>2. 0 \in 0 .. Burst
      BY <1>p
    <3> QED
      BY <3>1, <3>2, <2>1, <1>t
  <2>4. tokens' \in [Keys -> Int]
    <3>1. PICK v \in Int : v = step[p] * Window
      BY <2>1, <1>p, Times
    <3>2. tokens' = [tokens EXCEPT ![k] = Least(@, v)]
      BY <1>15, <2>0, <3>1 DEF SetLimit
    <3> QED
      BY <3>2, <1>t DEF Least
  <2>5. notBefore' \in [Keys -> Nat]
    BY <1>15, <1>t DEF SetLimit, AfterSetLimit
  <2>6. UNCHANGED <<clock, known, lastRefill, born, adaptVars, queueVars, key, now, ans, batch,
                    reqVars>>
    BY <1>15 DEF SetLimit, AfterSetLimit
  <2> QED
    BY <1>t, <1>w, <2>2, <2>3, <2>4, <2>5, <2>6, TypedFrom
<1>16. ASSUME NEW p \in Procs, NEW w \in Waits, Penalize(p, w)
       PROVE  Typed'
  <2>0. PICK k \in Keys : k = key[p]
    BY <1>t
  <2>1. Refilled(k, clock) \in Int /\ RefilledAt(k, clock) \in Nat /\ w \in Nat
    BY <1>r, <1>t, GovernorAssumption
  <2>2. Least(Refilled(k, clock), Penalty(k, w)) \in Int
    <3>1. w * limit[k] \in Int
      BY <2>1, <1>t, Times
    <3> QED
      BY <2>1, <3>1, <1>p DEF Least, Penalty
  <2>3. tokens' \in [Keys -> Int] /\ lastRefill' \in [Keys -> Nat]
    BY <1>16, <1>t, <2>0, <2>1, <2>2 DEF Penalize
  <2>4. notBefore' \in [Keys -> Nat]
    <3>1. PICK v \in Nat : v = IF notBefore[k] >= clock + w THEN notBefore[k] ELSE clock + w
      BY <2>1, <1>t
    <3>2. notBefore' = [notBefore EXCEPT ![k] = v]
      BY <1>16, <2>0, <3>1 DEF Penalize
    <3> QED
      BY <3>2, <1>t
  <2>5. pc' \in [Procs -> Pcs]
    BY <1>16, <1>s DEF Penalize, Pcs
  <2>6. UNCHANGED <<clock, known, limit, born, adaptVars, queueVars, key, now, ans, batch, step,
                    reqVars>>
    BY <1>16 DEF Penalize
  <2> QED
    BY <1>t, <1>w, <2>3, <2>4, <2>5, <2>6, TypedFrom
<1>17. ASSUME NEW p \in Procs, Deliver(p)
       PROVE  Typed'
  <2>1. batch[p] \in Seq(Entries) /\ batch[p] # << >>
    BY <1>17, <1>t DEF Deliver, Exclusive, Sending
  <2>2. PICK e \in Entries : e = Entry(p)
    BY <2>1 DEF Entry
  <2>3. batch' \in [Procs -> Seq(Entries)]
    <3>1. Tail(batch[p]) \in Seq(Entries)
      BY <2>1
    <3> QED
      BY <1>17, <1>t, <3>1 DEF Deliver
  <2>4. Holds(result', {"none", "empty", "ok", "failed"})
    <3>1. result' = [result EXCEPT ![e.req][e.tgt] = ans[p]]
      BY <1>17, <2>2 DEF Deliver
    <3>2. e.req \in Requests /\ ans[p] \in {"none", "empty", "ok", "failed"}
      BY <1>t DEF Entries
    <3> QED
      BY <1>t, <3>1, <3>2, HoldsWrite
  <2>5. /\ pc' \in [Procs -> Pcs] /\ ans' \in [Procs -> {"none", "ok", "failed"}]
        /\ answered' \in [Keys -> Nat]
    <3>1. "send" \in Pcs
      BY DEF Pcs
    <3>2. /\ pc' = [pc EXCEPT ![p] = "send"] /\ ans' = [ans EXCEPT ![p] = "none"]
          /\ answered' = [answered EXCEPT ![key[p]] = @ + 1]
      BY <1>17 DEF Deliver
    <3>3. pc' \in [Procs -> Pcs]
      BY <1>s, <3>1, <3>2
    <3>4. ans' \in [Procs -> {"none", "ok", "failed"}]
      BY <1>t, <3>2
    <3>5. answered' \in [Keys -> Nat]
      BY <1>t, <3>2
    <3> QED
      BY <3>3, <3>4, <3>5
  <2>6. UNCHANGED <<clock, bucketVars, adaptVars, queue, sending, enqueued, key, now, step,
                    at, reply, notBefore>>
    BY <1>17 DEF Deliver
  <2> QED
    BY <1>t, <1>w, <2>3, <2>4, <2>5, <2>6, TypedFrom
<1>18. ASSUME NEW p \in Procs, DrainDone(p)
       PROVE  Typed'
  <2>1. /\ pc' \in [Procs -> Pcs] /\ key' \in [Procs -> Keys]
        /\ at' \in [Requests -> Nat \ {0}] /\ Within'
    BY <1>4, <1>18 DEF DrainDone
  <2>2. sending' \in [Keys -> {"no", "yes"}]
    BY <1>18, <1>t DEF DrainDone
  <2> QED
    BY <1>18, <1>t, <2>1, <2>2, TypedFrom DEF DrainDone
<1>19. ASSUME NEW k \in Keys, QueueState(k)
       PROVE  Typed'
  <2>1. tokens' \in [Keys -> Int] /\ lastRefill' \in [Keys -> Nat]
    BY <1>19, <1>t, <1>r DEF QueueState
  <2> QED
    BY <1>19, <1>t, <1>w, <2>1, TypedFrom DEF QueueState
<1> QED
  BY <1>1, <1>2, <1>3, <1>5, <1>6, <1>7, <1>8, <1>9, <1>10, <1>11, <1>12, <1>13, <1>14,
     <1>15, <1>16, <1>17, <1>18, <1>19
     DEF Next, RequestStep, DrainKeyStep

-----------------------------------------------------------------------------
(* The theorems.                                                             *)

(* The governor starts with no bucket, no entry and nobody at work. *)
LEMMA GovInit ==
  ASSUME Init
  PROVE  GovInv
<1>1. /\ Burst \in Nat \ {0} /\ Requests \subseteq Procs
      /\ \A r \in Requests : Len(Targets[r]) \in Nat \ {0}
  <2>1. ASSUME NEW r \in Requests
        PROVE  Len(Targets[r]) \in Nat \ {0}
    <3>1. Targets[r] \in Seq(Keys) /\ Targets[r] # << >>
      BY GovernorAssumption
    <3> QED
      BY <3>1
  <2> QED
    BY <2>1, GovernorAssumption DEF Procs
<1>2. Within /\ at \in [Requests -> Nat \ {0}]
  BY <1>1 DEF Init, Within
<1>3. \A r \in Requests : /\ result[r] = [i \in DOMAIN Targets[r] |-> "none"]
                          /\ reply[r] = [i \in DOMAIN Targets[r] |-> "none"]
  BY DEF Init
<1>4. /\ Holds(result, {"none", "empty", "ok", "failed"})
      /\ Holds(reply, {"none", "excluded", "sent", "dropped", "queued"})
  <2>1. result = [r \in Requests |-> result[r]] /\ reply = [r \in Requests |-> reply[r]]
    BY DEF Init
  <2> QED
    BY <1>3, <2>1 DEF Holds
<1>5. TypeOK
  <2>1. \A r \in Requests : \A i \in DOMAIN Targets[r] :
          /\ result[r][i] \in {"none", "empty", "ok", "failed"}
          /\ reply[r][i] \in {"none", "excluded", "sent", "dropped", "queued"}
    BY <1>3
  <2>2. << >> \in Seq(Entries) /\ 0 \in 0 .. Burst /\ Burst \in 1 .. Burst
    BY <1>1
  <2>3. /\ clock \in Nat /\ known \subseteq Keys
        /\ tokens \in [Keys -> Int] /\ lastRefill \in [Keys -> Nat]
        /\ limit \in [Keys -> 1 .. Burst] /\ cur \in [Keys -> 1 .. Burst]
        /\ lastStep \in [Keys -> Nat] /\ born \in [Keys -> Nat] /\ notBefore \in [Keys -> Nat]
        /\ enqueued \in [Keys -> Nat] /\ answered \in [Keys -> Nat]
    BY <2>2 DEF Init
  <2>4. /\ queue \in [Keys -> Seq(Entries)] /\ batch \in [Procs -> Seq(Entries)]
        /\ sending \in [Keys -> {"no", "yes"}] /\ step \in [Procs -> 0 .. Burst]
    BY <2>2 DEF Init
  <2>5. /\ pc \in [Procs -> Pcs] /\ key \in [Procs -> Keys] /\ now \in [Procs -> Nat]
        /\ ans \in [Procs -> {"none", "ok", "failed"}]
    BY DEF Init, Pcs
  <2> QED
    BY <1>2, <2>1, <2>3, <2>4, <2>5 DEF TypeOK
<1>6. \A p \in Procs : pc[p] = "idle" /\ batch[p] = << >> /\ now[p] = 0
  BY DEF Init
<1>7. \A k \in Keys : /\ Taken(k) = 0 /\ answered[k] = 0 /\ queue[k] = << >> /\ enqueued[k] = 0
                      /\ limit[k] = cur[k] /\ notBefore[k] = 0 /\ lastRefill[k] = 0
  <2>1. ASSUME NEW k \in Keys
        PROVE  /\ answered[k] = 0 /\ queue[k] = << >> /\ enqueued[k] = 0
               /\ limit[k] = cur[k] /\ notBefore[k] = 0 /\ lastRefill[k] = 0
    BY DEF Init
  <2>2. ASSUME NEW k \in Keys
        PROVE  Taken(k) = 0
    <3>1. Len(queue[k]) = 0 /\ enqueued[k] = 0
      BY <2>1
    <3> QED
      BY <3>1 DEF Taken
  <2> QED
    BY <2>1, <2>2
<1>8. Exclusive
  BY <1>6 DEF Exclusive, InFlight, Sending
<1>9. Numbered
  BY <1>6, <1>7 DEF Numbered, InFlight, Sending
<1>10. Agree
  BY <1>6, <1>7 DEF Agree
<1>11. Ensured
  BY <1>6, <1>7 DEF Ensured, Working, Sending, Init
<1>12. Past /\ Earned
  BY <1>6 DEF Past, Earned, Init
<1>13. Held
  BY <1>7 DEF Held
<1> QED
  BY <1>2, <1>4, <1>5, <1>8, <1>9, <1>10, <1>11, <1>12, <1>13 DEF GovInv, Typed

(* The inductive invariant of the governor. *)
LEMMA GovernorInvariant == Spec => []GovInv
<1>1. GovInv /\ [Next]_vars => GovInv'
  <2> SUFFICES ASSUME GovInv, [Next]_vars
               PROVE  GovInv'
    OBVIOUS
  <2>1. /\ Typed /\ Exclusive /\ Numbered /\ Agree /\ Ensured /\ Past /\ Earned /\ Held
        /\ TypeOK /\ Within
    BY DEF GovInv, Typed
  <2>2. Typed'
    BY <2>1, TypedNext
  <2>3. Exclusive' /\ Numbered' /\ Agree'
    BY <2>1, FlightsKeep
  <2>4. Ensured'
    BY <2>1, EnsuredNext
  <2>5. Past' /\ Earned' /\ Held'
    BY <2>1, BucketsNext
  <2> QED
    BY <2>2, <2>3, <2>4, <2>5 DEF GovInv
<1> QED
  BY <1>1, GovInit, PTL DEF Spec

(* Governor, with any number of goroutines running drainKey on one channel: entries are
   sent once each and in the order Submit queued them.                        *)
THEOREM SentInOrder == Spec => []SendsInOrder
<1>1. GovInv => SendsInOrder
  <2> SUFFICES ASSUME GovInv
               PROVE  SendsInOrder
    OBVIOUS
  <2>1. Exclusive /\ Numbered
    BY DEF GovInv
  <2>2. ASSUME NEW k \in Keys, NEW p \in Procs, key[p] = k, batch[p] # << >>
        PROVE  /\ sending[k] = "yes"
               /\ answered[k] + Len(batch[p]) = Taken(k)
               /\ \A i \in DOMAIN batch[p] : batch[p][i].seq = answered[k] + i
    <3>1. InFlight(p)
      BY <2>1, <2>2 DEF Exclusive
    <3> QED
      BY <2>1, <2>2, <3>1 DEF Exclusive, Numbered, Carries
  <2>3. ASSUME NEW k \in Keys
        PROVE  /\ sending[k] = "no" => answered[k] = Taken(k)
               /\ \A i \in DOMAIN queue[k] : queue[k][i].seq = Taken(k) + i
    BY <2>1 DEF Numbered
  <2> QED
    BY <2>2, <2>3 DEF SendsInOrder
<1> QED
  BY <1>1, GovernorInvariant, PTL

(* Adaptive and Governor.SetLimit, which run under different locks: the bursts agree
   outside the one batch in flight, and stay between one and the seed's.      *)
THEOREM LimitsAgree == Spec => []LimitFollows
<1>1. GovInv => LimitFollows
  <2> SUFFICES ASSUME GovInv
               PROVE  LimitFollows
    OBVIOUS
  <2>1. TypeOK /\ Agree
    BY DEF GovInv, Typed
  <2>2. \A k \in Keys : cur[k] >= 1
    BY <2>1 DEF TypeOK
  <2> QED
    BY <2>1, <2>2 DEF LimitFollows, Agree
<1> QED
  BY <1>1, GovernorInvariant, PTL

(* refill, Penalize, SetLimit and drainKey together: whatever the clock readings and the
   429s, a channel never sends more than one burst plus what its rate earned. *)
THEOREM RateKept == Spec => []Paced
<1>1. GovInv => Paced
  BY DEF GovInv, Earned, Past, Paced
<1> QED
  BY <1>1, GovernorInvariant, PTL

(* Penalize against drainKey, which reads the clock before it takes the lock: no batch
   starts before the wait of the last 429 is over.                            *)
THEOREM PenaltyIsHeld == Spec => PenaltyHeld
<1>1. ASSUME GovInv, [Next]_vars, NEW k \in Keys, sending[k] = "no", sending'[k] = "yes"
      PROVE  clock >= notBefore[k]
  <2>0. TypeOK /\ Ensured /\ Past /\ Held /\ sending \in [Keys -> {"no", "yes"}]
    BY <1>1 DEF GovInv, Typed, TypeOK
  <2>1. PICK p \in Procs : DrainTake(p) /\ key[p] = k
    <3> USE DEF queueVars
    <3>1. \A p \in Procs : DrainTake(p) =>
            \/ key[p] = k
            \/ sending'[k] = sending[k]
      BY <2>0 DEF DrainTake, TakeReady
    <3>2. \A p \in Procs : DrainDone(p) => sending'[k] \in {"no", sending[k]}
      BY <2>0 DEF DrainDone
    <3>3. \A r \in Requests : SendRequest(r) \/ RequestStep(r) => sending' = sending
      BY DEF SendRequest, RequestStep, ExcludeTarget, Ensure, Enqueue, Collect
    <3>4. \A p \in Procs : SendReturns(p) => sending' = sending
      BY DEF SendReturns, SendOk, SendFail, SendLimited
    <3>5. \A p \in Procs : DrainKeyStep(p) /\ ~DrainTake(p) /\ ~DrainDone(p) => sending' = sending
      BY DEF DrainKeyStep, ReadClock, DrainBusy, DrainNothing, SendStart, SetLimit, AfterSetLimit,
             Penalize, Deliver
    <3>6. Tick \/ (\E d \in Drains : Drain(d)) \/ (\E j \in Keys : QueueState(j)) \/ UNCHANGED vars
            => sending' = sending
      BY DEF Tick, Drain, QueueState, vars
    <3> QED
      BY <1>1, <3>1, <3>2, <3>3, <3>4, <3>5, <3>6 DEF Next
  <2>2. k \in known /\ now[p] \in Nat /\ now[p] <= clock /\ clock \in Nat /\ lastRefill[k] <= clock
    BY <2>0, <2>1 DEF DrainTake, Ensured, Working, Past, TypeOK
  <2>3. /\ tokens[k] \in Int /\ lastRefill[k] \in Nat /\ limit[k] \in Nat /\ limit[k] >= 1
        /\ notBefore[k] \in Nat /\ Window \in Nat \ {0} /\ Len(queue[k]) \in Nat
    BY <2>0, BucketTypes, GovernorAssumption
  <2>4. Refilled(k, now[p]) >= Window
    <3>1. Refilled(k, now[p]) \in Int
      BY <2>0, <2>2, RefillFacts
    <3>2. PICK d \in Int : d = Refilled(k, now[p]) \div Window
      BY <2>3, <3>1
    <3>3. d >= 1
      BY <2>1, <2>3, <3>2 DEF DrainTake, Ready, Least
    <3>4. d * Window <= Refilled(k, now[p]) /\ d * Window \in Int
      BY <2>3, <3>1, <3>2
    <3>5. 1 * Window <= d * Window
      BY <2>3, <3>3, Mono
    <3> QED
      BY <2>3, <3>1, <3>4, <3>5
  <2>5. ASSUME clock < notBefore[k]
        PROVE  FALSE
    <3> DEFINE a == RefilledAt(k, now[p]) - lastRefill[k]
               b == notBefore[k] - RefilledAt(k, now[p])
    <3>1. /\ Refilled(k, now[p]) \in Int /\ Refilled(k, now[p]) <= tokens[k] + a * limit[k]
          /\ RefilledAt(k, now[p]) \in Nat /\ RefilledAt(k, now[p]) \in {now[p], lastRefill[k]}
      BY <2>0, <2>2, RefillFacts
    <3>2. a \in Int /\ b \in Int /\ b >= 1
      BY <2>2, <2>3, <2>5, <3>1
    <3>3. tokens[k] + (notBefore[k] - lastRefill[k]) * limit[k] <= Window
      BY <2>0, <2>2, <2>3, <2>5 DEF Held
    <3>4. a * limit[k] + b * limit[k] = (notBefore[k] - lastRefill[k]) * limit[k]
      BY <2>3, <3>1, Spans
    <3> HIDE DEF a, b
    <3>5. 1 * limit[k] <= b * limit[k] /\ a * limit[k] \in Int /\ b * limit[k] \in Int
      BY <2>3, <3>2, Mono, Times
    <3> QED
      BY <2>3, <2>4, <3>1, <3>3, <3>4, <3>5
  <2> QED
    BY <2>2, <2>3, <2>5
<1>2. GovInv /\ [Next]_vars
        => [\A k \in Keys : sending[k] = "no" /\ sending'[k] = "yes" => clock >= notBefore[k]]_vars
  BY <1>1
<1> QED
  BY <1>2, GovernorInvariant, PTL DEF Spec, PenaltyHeld
=============================================================================
