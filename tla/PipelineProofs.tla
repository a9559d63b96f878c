--------------------------- MODULE PipelineProofs ---------------------------
(* What holds of the pipeline runner for every number of sinks, callers and
   closers and every buffer size, and of what its sinks show of a channel for
   every window and every limit.                                             *)
EXTENDS Pipeline, Activity, FiniteSetTheorems, SequenceTheorems, WellFoundedInduction, TLAPS

-----------------------------------------------------------------------------
(* Sums, which are cardinalities of unions.                                  *)

Blocks(f, S) == UNION {{i} \X (1 .. f[i]) : i \in S}

LEMMA BlocksExtended ==
  ASSUME NEW f, NEW S, NEW k
  PROVE  Blocks(f, S \cup {k}) = Blocks(f, S) \cup ({k} \X (1 .. f[k]))
<1>1. Blocks(f, S \cup {k}) \subseteq Blocks(f, S) \cup ({k} \X (1 .. f[k]))
  BY DEF Blocks
<1>2. Blocks(f, S) \subseteq Blocks(f, S \cup {k})
  BY DEF Blocks
<1>3. {k} \X (1 .. f[k]) \subseteq Blocks(f, S \cup {k})
  BY DEF Blocks
<1> QED
  BY <1>1, <1>2, <1>3

LEMMA OneBlock ==
  ASSUME NEW k, NEW m \in Nat PROVE IsFiniteSet({k} \X (1 .. m)) /\ Cardinality({k} \X (1 .. m)) = m
<1>1. IsFiniteSet({k}) /\ Cardinality({k}) = 1
  BY FS_Singleton
<1>2. IsFiniteSet(1 .. m) /\ Cardinality(1 .. m) = m
  BY FS_Interval
<1>3. IsFiniteSet({k} \X (1 .. m)) /\ Cardinality({k} \X (1 .. m)) = Cardinality({k}) * Cardinality(1 .. m)
  BY <1>1, <1>2, FS_Product, Zenon
<1>4. 1 * m = m
  OBVIOUS
<1> QED
  BY <1>1, <1>2, <1>3, <1>4, Zenon

LEMMA SumIsBlocks == ASSUME NEW f, NEW S PROVE SumOf(f, S) = Cardinality(Blocks(f, S))
  BY DEF SumOf, Blocks

(* Induction over the naturals, with a set in the place of the predicate. *)
LEMMA ByInduction ==
  ASSUME NEW G, 0 \in G, \A n \in G \cap Nat : n + 1 \in G PROVE Nat \subseteq G
<1> DEFINE T == Nat \ G
<1> SUFFICES ASSUME T # {} PROVE FALSE
  OBVIOUS
<1>1. T \subseteq Nat
  OBVIOUS
<1> HIDE DEF T
<1>2. PICK x \in T : \A y \in T : ~ (<<y, x>> \in OpToRel(<, Nat))
  BY <1>1, WFMin, NatLessThanWellFounded
<1>3. \A y \in T : ~ (y < x)
  BY <1>1, <1>2 DEF OpToRel
<1> USE DEF T
<1>4. x \in Nat /\ x # 0
  OBVIOUS
<1>5. x - 1 \in Nat /\ x - 1 < x /\ (x - 1) + 1 = x
  BY <1>4
<1>6. x - 1 \in G
  BY <1>3, <1>5
<1> QED
  BY <1>5, <1>6

(* If the counts c are those of disjoint parts, their sum counts the union. *)
Joined(part, S) == UNION {part[i] : i \in S}
CountsParts(S, c, part) ==
  /\ IsFiniteSet(S)
  /\ \A i \in S : IsFiniteSet(part[i]) /\ c[i] = Cardinality(part[i])
  /\ \A i, j \in S : i # j => part[i] \cap part[j] = {}
LEMMA SumOfParts ==
  ASSUME NEW S, NEW c, NEW part, CountsParts(S, c, part)
  PROVE  SumOf(c, S) = Cardinality(Joined(part, S))
<1>0. /\ IsFiniteSet(S)
      /\ \A i \in S : IsFiniteSet(part[i]) /\ c[i] = Cardinality(part[i])
      /\ \A i, j \in S : i # j => part[i] \cap part[j] = {}
  BY DEF CountsParts
<1> DEFINE All(T) == UNION {part[i] : i \in T}
           Good(T) == IsFiniteSet(All(T)) /\ IsFiniteSet(Blocks(c, T)) /\ Cardinality(Blocks(c, T)) = Cardinality(All(T))
           G == {n \in Nat : \A T \in SUBSET S : Cardinality(T) = n => Good(T)}
<1>1. 0 \in G
  <2> SUFFICES ASSUME NEW T \in SUBSET S, Cardinality(T) = 0 PROVE Good(T)
    OBVIOUS
  <2>1. T = {}
    BY <1>0, FS_Subset, FS_EmptySet
  <2>2. All(T) = {} /\ Blocks(c, T) = {}
    BY <2>1 DEF Blocks
  <2> QED
    BY <2>2, FS_EmptySet
<1>2. ASSUME NEW n \in G \cap Nat PROVE n + 1 \in G
  <2> SUFFICES ASSUME NEW T \in SUBSET S, Cardinality(T) = n + 1 PROVE Good(T)
    BY <1>2
  <2>1. IsFiniteSet(T) /\ T # {}
    BY <1>0, FS_Subset, FS_EmptySet, <1>2
  <2>2. PICK k : k \in T
    BY <2>1
  <2> DEFINE U == T \ {k}
  <2>0. IsFiniteSet(U) /\ Cardinality(U) = (n + 1) - 1
    BY <2>1, <2>2, FS_RemoveElement
  <2>3. IsFiniteSet(U) /\ Cardinality(U) = n /\ U \in SUBSET S /\ T = U \cup {k} /\ k \notin U /\ k \in S
    BY <2>0, <2>2, <1>2
  <2>4. Good(U)
    BY <1>2, <2>3
  <2> HIDE DEF U
  <2>5. All(T) = All(U) \cup part[k] /\ All(U) \cap part[k] = {}
    BY <1>0, <2>3
  <2>6. Blocks(c, T) = Blocks(c, U) \cup ({k} \X (1 .. c[k]))
    <3>1. Blocks(c, U \cup {k}) = Blocks(c, U) \cup ({k} \X (1 .. c[k]))
      BY BlocksExtended
    <3>2. T = U \cup {k}
      BY <2>3
    <3> QED
      BY <3>1, <3>2
  <2>7. Blocks(c, U) \cap ({k} \X (1 .. c[k])) = {}
    BY <2>3 DEF Blocks
  <2>8. IsFiniteSet(part[k]) /\ c[k] = Cardinality(part[k]) /\ c[k] \in Nat
    BY <1>0, <2>3, FS_CardinalityType
  <2> DEFINE B == {k} \X (1 .. c[k])
  <2>9. IsFiniteSet(B) /\ Cardinality(B) = c[k]
    BY <2>8, OneBlock
  <2> HIDE DEF B
  <2>10. /\ IsFiniteSet(Blocks(c, U) \cup B)
         /\ Cardinality(Blocks(c, U) \cup B) = Cardinality(Blocks(c, U)) + c[k] - Cardinality(Blocks(c, U) \cap B)
    BY <2>4, <2>9, FS_Union
  <2>11. /\ IsFiniteSet(All(U) \cup part[k])
         /\ Cardinality(All(U) \cup part[k]) = Cardinality(All(U)) + c[k] - Cardinality(All(U) \cap part[k])
    BY <2>4, <2>8, FS_Union
  <2>12. Blocks(c, U) \cap B = {} /\ Blocks(c, T) = Blocks(c, U) \cup B
    BY <2>6, <2>7 DEF B
  <2> HIDE DEF All
  <2> QED
    BY <2>4, <2>5, <2>10, <2>11, <2>12
<1> HIDE DEF G
<1>3. Nat \subseteq G
  BY <1>1, <1>2, ByInduction
<1>4. Cardinality(S) \in Nat
  BY <1>0, FS_CardinalityType
<1>5. Good(S)
  BY <1>0, <1>3, <1>4 DEF G
<1> QED
  BY <1>5, SumIsBlocks DEF Joined

LEMMA SumExtended ==
  ASSUME NEW f, NEW S, IsFiniteSet(Blocks(f, S)), NEW k, k \notin S, f[k] \in Nat
  PROVE  /\ IsFiniteSet(Blocks(f, S \cup {k})) /\ SumOf(f, S \cup {k}) = SumOf(f, S) + f[k]
         /\ SumOf(f, S) \in Nat
<1> DEFINE B == {k} \X (1 .. f[k])
<1>1. IsFiniteSet(B) /\ Cardinality(B) = f[k]
  BY OneBlock
<1>2. Blocks(f, S \cup {k}) = Blocks(f, S) \cup B
  BY BlocksExtended
<1>3. Blocks(f, S) \cap B = {}
  BY DEF Blocks
<1> HIDE DEF B
<1>4. /\ IsFiniteSet(Blocks(f, S) \cup B)
      /\ Cardinality(Blocks(f, S) \cup B) = Cardinality(Blocks(f, S)) + f[k] - 0
  BY <1>1, <1>3, FS_Union, FS_EmptySet
<1>5. Cardinality(Blocks(f, S)) \in Nat
  BY FS_CardinalityType
<1> QED
  <2>1. SumOf(f, S \cup {k}) = Cardinality(Blocks(f, S \cup {k})) /\ SumOf(f, S) = Cardinality(Blocks(f, S))
    BY SumIsBlocks, Zenon
  <2>2. \A x, y \in Nat : x + y - 0 = x + y
    OBVIOUS
  <2> QED
    BY <1>2, <1>4, <1>5, <2>1, <2>2, Zenon

-----------------------------------------------------------------------------
(* Rings of one bucket per second, of any feed at any time.                  *)

Messages == [at : Nat, by : Authors, share : Int, kept : BOOLEAN]
SaidIn(feed, t) == {j \in DOMAIN feed : feed[j].at = t}
LatelyIn(feed, now, W) == {j \in DOMAIN feed : now - feed[j].at < W}
FeedAt(feed, now) ==
  /\ now \in Nat \ {0}
  /\ feed \in Seq(Messages)
  /\ \A j \in DOMAIN feed : feed[j].at \in 1 .. now

(* A bucket counts what was said in its second, and holds its own second; the  *)
(* seconds of the window have their buckets.                                   *)
RingAt(ring_, W, feed, now) ==
  /\ DOMAIN ring_ = 0 .. W - 1
  /\ \A i \in 0 .. W - 1 :
       /\ ring_[i].sec \in Nat /\ ring_[i].sec <= now
       /\ ring_[i].count = Cardinality(SaidIn(feed, ring_[i].sec))
       /\ ring_[i].sec > 0 => ring_[i].sec % W = i /\ SaidIn(feed, ring_[i].sec) # {}
  /\ \A j \in DOMAIN feed : now - feed[j].at < W => ring_[feed[j].at % W].sec = feed[j].at

LEMMA Remainder ==
  ASSUME NEW a \in Nat, NEW W \in Nat \ {0}
  PROVE  a % W \in 0 .. W - 1 /\ a = W * (a \div W) + (a % W) /\ a \div W \in Nat
OBVIOUS

LEMMA SmallMultiple ==
  ASSUME NEW k \in Int, NEW W \in Nat \ {0}, 0 <= W * k, W * k < W PROVE k = 0
<1>1. CASE k >= 1
  <2>1. W * k = W + W * (k - 1) /\ W * (k - 1) >= 0
    BY <1>1
  <2>2. W * k \in Int /\ W * (k - 1) \in Int
    OBVIOUS
  <2> QED
    BY <2>1, <2>2
<1>2. CASE k <= -1
  <2>1. W * k = -W - W * (-k - 1) /\ W * (-k - 1) >= 0
    BY <1>2
  <2>2. W * k \in Int /\ W * (-k - 1) \in Int
    OBVIOUS
  <2> QED
    BY <2>1, <2>2
<1> QED
  BY <1>1, <1>2

LEMMA SameRemainder ==
  ASSUME NEW W \in Nat \ {0}, NEW q \in Int, NEW p \in Int, NEW r \in Int,
         W * q + r <= W * p + r, (W * p + r) - (W * q + r) < W
  PROVE  q = p
<1>1. W * (p - q) = W * p - W * q
  OBVIOUS
<1>2. W * p \in Int /\ W * q \in Int /\ p - q \in Int
  OBVIOUS
<1>3. 0 <= W * (p - q) /\ W * (p - q) < W
  BY <1>1, <1>2
<1>4. p - q = 0
  BY <1>2, <1>3, SmallMultiple
<1> QED
  BY <1>4

LEMMA SameSecond ==
  ASSUME NEW a \in Nat, NEW b \in Nat, NEW W \in Nat \ {0}, a % W = b % W, a <= b, b - a < W
  PROVE  a = b
<1> DEFINE q == a \div W  p == b \div W  r == a % W
<1>1. a = W * q + r /\ q \in Nat /\ r \in 0 .. W - 1
  BY Remainder
<1>2. b = W * p + (b % W) /\ p \in Nat
  BY Remainder
<1>3. b = W * p + r
  BY <1>2
<1>4. r \in Int /\ q \in Int /\ p \in Int
  BY <1>1, <1>2
<1> HIDE DEF q, p, r
<1>5. W * q + r <= W * p + r /\ (W * p + r) - (W * q + r) < W
  BY <1>1, <1>3, Zenon
<1>6. q = p
  BY <1>4, <1>5, SameRemainder
<1> QED
  BY <1>1, <1>3, <1>6, Zenon

LEMMA OneMore == ASSUME NEW n \in Nat PROVE \A j \in 1 .. n + 1 : j \in 1 .. n \/ j = n + 1
OBVIOUS

LEMMA PartsFinite ==
  ASSUME NEW feed \in Seq(Messages), NEW T \in SUBSET DOMAIN feed
  PROVE  IsFiniteSet(T) /\ Cardinality(T) \in Nat
<1>1. Len(feed) \in Nat /\ DOMAIN feed = 1 .. Len(feed)
  OBVIOUS
<1>2. IsFiniteSet(1 .. Len(feed))
  BY <1>1, FS_Interval
<1> QED
  BY <1>1, <1>2, FS_Subset, FS_CardinalityType

LEMMA RingAdvances ==
  ASSUME NEW ring_, NEW W \in Nat \ {0}, NEW feed, NEW now, NEW later \in Nat, FeedAt(feed, now), now <= later,
         RingAt(ring_, W, feed, now)
  PROVE  RingAt(ring_, W, feed, later) /\ FeedAt(feed, later)
<1>1. later \in Nat \ {0} /\ now \in Nat \ {0}
  BY DEF FeedAt
<1>2. FeedAt(feed, later)
  BY <1>1 DEF FeedAt
<1>3. ASSUME NEW j \in DOMAIN feed, later - feed[j].at < W PROVE ring_[feed[j].at % W].sec = feed[j].at
  <2>1. now - feed[j].at < W
    BY <1>1, <1>3 DEF FeedAt
  <2> QED
    BY <2>1 DEF RingAt
<1>4. \A i \in 0 .. W - 1 : ring_[i].sec \in Nat /\ ring_[i].sec <= later
  BY <1>1 DEF RingAt
<1> QED
  BY <1>2, <1>3, <1>4 DEF RingAt

(* The buckets J of the window, and those only, sum up to the messages of it. *)
LEMMA RingSum ==
  ASSUME NEW ring_, NEW W \in Nat \ {0}, NEW feed, NEW now, FeedAt(feed, now), RingAt(ring_, W, feed, now),
         NEW J \in SUBSET (0 .. W - 1),
         \A i \in J : now - ring_[i].sec < W,
         \A i \in 0 .. W - 1 : now - ring_[i].sec < W /\ ring_[i].sec > 0 => i \in J
  PROVE  /\ SumOf(Counts(ring_), J) = Cardinality(LatelyIn(feed, now, W))
         /\ UNION {SaidIn(feed, ring_[i].sec) : i \in J} = LatelyIn(feed, now, W)
<1> DEFINE part == [i \in 0 .. W - 1 |-> SaidIn(feed, ring_[i].sec)]
           c == Counts(ring_)
<1>0. feed \in Seq(Messages) /\ now \in Nat /\ \A j \in DOMAIN feed : feed[j].at \in Nat /\ feed[j].at > 0 /\ feed[j].at <= now
  BY DEF FeedAt
<1>1. IsFiniteSet(J)
  <2>1. IsFiniteSet(0 .. W - 1)
    BY FS_Interval
  <2> QED
    BY <2>1, FS_Subset
<1>2. \A i \in J : part[i] = SaidIn(feed, ring_[i].sec) /\ ring_[i].sec \in Nat
  BY DEF RingAt
<1>3. \A i \in J : IsFiniteSet(part[i]) /\ c[i] = Cardinality(part[i])
  <2> TAKE i \in J
  <2>1. SaidIn(feed, ring_[i].sec) \in SUBSET DOMAIN feed
    BY DEF SaidIn
  <2>2. IsFiniteSet(SaidIn(feed, ring_[i].sec))
    BY <1>0, <2>1, PartsFinite
  <2>3. c[i] = ring_[i].count /\ ring_[i].count = Cardinality(SaidIn(feed, ring_[i].sec))
    BY DEF Counts, RingAt
  <2> QED
    BY <1>2, <2>2, <2>3
<1>4. \A i, j \in J : i # j => part[i] \cap part[j] = {}
  <2> SUFFICES ASSUME NEW i \in J, NEW j \in J, NEW m \in part[i], m \in part[j] PROVE i = j
    OBVIOUS
  <2>1. m \in DOMAIN feed /\ feed[m].at = ring_[i].sec /\ feed[m].at = ring_[j].sec
    BY <1>2 DEF SaidIn
  <2>2. ring_[i].sec > 0 /\ ring_[j].sec > 0
    BY <1>0, <2>1
  <2>3. ring_[i].sec % W = i /\ ring_[j].sec % W = j
    BY <2>2 DEF RingAt
  <2> QED
    BY <2>1, <2>3
<1>5. \A i \in J : part[i] \subseteq LatelyIn(feed, now, W)
  BY <1>2 DEF SaidIn, LatelyIn
<1>6. \A j \in LatelyIn(feed, now, W) : \E i \in J : j \in part[i]
  <2> TAKE j \in LatelyIn(feed, now, W)
  <2>1. j \in DOMAIN feed /\ now - feed[j].at < W /\ feed[j].at \in Nat /\ feed[j].at > 0
    BY <1>0 DEF LatelyIn
  <2>2. PICK i : i = feed[j].at % W
    OBVIOUS
  <2>3. i \in 0 .. W - 1
    BY <2>1, <2>2, Remainder
  <2>4. ring_[i].sec = feed[j].at
    BY <2>1, <2>2 DEF RingAt
  <2>5. i \in J
    BY <2>1, <2>3, <2>4
  <2> QED
    BY <1>2, <2>1, <2>4, <2>5 DEF SaidIn
<1> HIDE DEF part, c
<1>7. Joined(part, J) = LatelyIn(feed, now, W)
  BY <1>5, <1>6 DEF Joined
<1>8. SumOf(c, J) = Cardinality(Joined(part, J))
  <2>1. CountsParts(J, c, part)
    BY <1>1, <1>3, <1>4 DEF CountsParts
  <2> QED
    BY <2>1, SumOfParts
<1>9. Joined(part, J) = UNION {SaidIn(feed, ring_[i].sec) : i \in J}
  BY <1>2 DEF Joined
<1> QED
  BY <1>7, <1>8, <1>9 DEF c

LEMMA RingTotal ==
  ASSUME NEW ring_, NEW W \in Nat \ {0}, NEW feed, NEW now, FeedAt(feed, now), RingAt(ring_, W, feed, now)
  PROVE  Total(ring_, now, W) = Cardinality(LatelyIn(feed, now, W))
<1> DEFINE J == {i \in DOMAIN ring_ : InWindow(ring_[i], now, W)}
<1>1. DOMAIN ring_ = 0 .. W - 1 /\ \A i \in 0 .. W - 1 : ring_[i].sec <= now
  BY DEF RingAt
<1>2. J \in SUBSET (0 .. W - 1)
  BY <1>1
<1>3. \A i \in J : now - ring_[i].sec < W
  BY DEF InWindow
<1>4. \A i \in 0 .. W - 1 : now - ring_[i].sec < W /\ ring_[i].sec > 0 => i \in J
  BY <1>1 DEF InWindow
<1>5. Total(ring_, now, W) = SumOf(Counts(ring_), J)
  BY DEF Total
<1> HIDE DEF J
<1> QED
  BY <1>2, <1>3, <1>4, <1>5, RingSum

(* A message of this second joins its bucket, or empties it of an older one. *)
LEMMA RingRecorded ==
  ASSUME NEW old, NEW W \in Nat \ {0}, NEW feed, NEW now, FeedAt(feed, now), RingAt(old, W, feed, now),
         NEW m \in Messages, m.at = now, NEW new, DOMAIN new = DOMAIN old,
         \A i \in DOMAIN old : i # now % W => new[i] = old[i],
         new[now % W].sec = now,
         new[now % W].count = IF old[now % W].sec = now THEN old[now % W].count + 1 ELSE 1
  PROVE  /\ FeedAt(Append(feed, m), now) /\ RingAt(new, W, Append(feed, m), now)
         /\ \A t \in Nat : t # now => SaidIn(Append(feed, m), t) = SaidIn(feed, t)
         /\ SaidIn(Append(feed, m), now) = SaidIn(feed, now) \cup {Len(feed) + 1}
         /\ old[now % W].sec # now => SaidIn(feed, now) = {}
<1> DEFINE more == Append(feed, m)  here == now % W  n == Len(feed)
<1>1. /\ feed \in Seq(Messages) /\ now \in Nat \ {0} /\ n \in Nat
      /\ DOMAIN feed = 1 .. n
      /\ \A j \in 1 .. n : feed[j].at \in Nat /\ feed[j].at > 0 /\ feed[j].at <= now
  BY DEF FeedAt
<1>2. /\ more \in Seq(Messages) /\ DOMAIN more = 1 .. n + 1 /\ more[n + 1] = m
      /\ \A j \in 1 .. n : more[j] = feed[j]
  BY <1>1
<1>3. here \in 0 .. W - 1
  BY <1>1, Remainder
<1> HIDE DEF more, here, n
<1>4. FeedAt(more, now)
  <2>1. \A j \in 1 .. n + 1 : more[j].at \in 1 .. now
    <3> TAKE j \in 1 .. n + 1
    <3>1. CASE j = n + 1
      BY <1>1, <1>2, <3>1
    <3>2. CASE j # n + 1
      <4>1. j \in 1 .. n
        BY <1>1, <3>2
      <4> QED
        BY <1>1, <1>2, <4>1
    <3> QED
      BY <3>1, <3>2
  <2> QED
    BY <1>1, <1>2, <2>1 DEF FeedAt
<1>5. \A t \in Nat : t # now => SaidIn(more, t) = SaidIn(feed, t)
  <2> TAKE t \in Nat
  <2> HAVE t # now
  <2>1. \A j \in 1 .. n + 1 : j \in 1 .. n \/ j = n + 1
    BY <1>1, OneMore
  <2>2. \A j \in 1 .. n : j \in 1 .. n + 1
    BY <1>1
  <2> QED
    BY <1>1, <1>2, <2>1, <2>2 DEF SaidIn
<1>6. SaidIn(more, now) = SaidIn(feed, now) \cup {n + 1}
  <2>1. \A j \in 1 .. n + 1 : j \in 1 .. n \/ j = n + 1
    BY <1>1, OneMore
  <2>2. \A j \in 1 .. n : j \in 1 .. n + 1
    BY <1>1
  <2>3. n + 1 \in 1 .. n + 1
    BY <1>1
  <2> QED
    BY <1>1, <1>2, <2>1, <2>2, <2>3 DEF SaidIn
<1>7. old[here].sec # now => SaidIn(feed, now) = {}
  <2> SUFFICES ASSUME NEW j \in SaidIn(feed, now) PROVE old[here].sec = now
    OBVIOUS
  <2>1. j \in DOMAIN feed /\ feed[j].at = now /\ now - feed[j].at < W
    BY <1>1 DEF SaidIn
  <2>2. old[feed[j].at % W].sec = feed[j].at
    BY <2>1 DEF RingAt
  <2> QED
    BY <2>1, <2>2 DEF here
<1>8. new[here].count = Cardinality(SaidIn(more, now))
  <2>1. SaidIn(feed, now) \in SUBSET DOMAIN feed
    BY DEF SaidIn
  <2>2. IsFiniteSet(SaidIn(feed, now)) /\ Cardinality(SaidIn(feed, now)) \in Nat
    BY <1>1, <2>1, PartsFinite
  <2>3. n + 1 \notin SaidIn(feed, now)
    BY <1>1, <2>1
  <2>4. Cardinality(SaidIn(more, now)) = Cardinality(SaidIn(feed, now)) + 1
    BY <1>6, <2>2, <2>3, FS_AddElement
  <2>5. CASE old[here].sec = now
    <3>1. old[here].count = Cardinality(SaidIn(feed, now))
      BY <1>3, <2>5 DEF RingAt
    <3> QED
      BY <2>4, <2>5, <3>1 DEF here
  <2>6. CASE old[here].sec # now
    <3>1. Cardinality(SaidIn(feed, now)) = 0
      BY <1>7, <2>6, FS_EmptySet
    <3> QED
      BY <2>4, <2>6, <3>1 DEF here
  <2> QED
    BY <2>5, <2>6
<1>9. \A i \in 0 .. W - 1 : i # here =>
        /\ new[i] = old[i] /\ old[i].sec # now /\ old[i].sec \in Nat
        /\ SaidIn(more, old[i].sec) = SaidIn(feed, old[i].sec)
  <2> TAKE i \in 0 .. W - 1
  <2> HAVE i # here
  <2>1. DOMAIN old = 0 .. W - 1 /\ old[i].sec \in Nat /\ (old[i].sec > 0 => old[i].sec % W = i)
    BY DEF RingAt
  <2>2. new[i] = old[i]
    BY <2>1 DEF here
  <2>3. old[i].sec # now
    <3> SUFFICES ASSUME old[i].sec = now PROVE FALSE
      OBVIOUS
    <3>1. old[i].sec > 0
      BY <1>1
    <3> QED
      BY <2>1, <3>1 DEF here
  <2> QED
    BY <1>5, <2>1, <2>2, <2>3
<1>10. \A i \in 0 .. W - 1 :
         /\ new[i].sec \in Nat /\ new[i].sec <= now
         /\ new[i].count = Cardinality(SaidIn(more, new[i].sec))
         /\ new[i].sec > 0 => new[i].sec % W = i /\ SaidIn(more, new[i].sec) # {}
  <2> TAKE i \in 0 .. W - 1
  <2>1. CASE i = here
    <3>1. new[i].sec = now /\ now % W = i
      BY <2>1 DEF here
    <3>2. SaidIn(more, now) # {}
      BY <1>6
    <3> QED
      BY <1>1, <1>8, <2>1, <3>1, <3>2
  <2>2. CASE i # here
    BY <1>9, <2>2 DEF RingAt
  <2> QED
    BY <2>1, <2>2
<1>11. \A j \in DOMAIN more : now - more[j].at < W => new[more[j].at % W].sec = more[j].at
  <2> TAKE j \in DOMAIN more
  <2> HAVE now - more[j].at < W
  <2>1. CASE j = n + 1
    BY <1>2, <2>1
  <2>2. CASE j # n + 1
    <3>1. j \in 1 .. n /\ more[j] = feed[j] /\ j \in DOMAIN feed
      BY <1>1, <1>2, <2>2
    <3>2. PICK t \in Nat : t = feed[j].at /\ t > 0 /\ t <= now /\ now - t < W
      BY <1>1, <3>1
    <3>3. old[t % W].sec = t /\ t % W \in 0 .. W - 1
      BY <3>1, <3>2, Remainder DEF RingAt
    <3>4. CASE t % W = here
      <4>1. t = now
        BY <1>1, <3>2, <3>4, SameSecond DEF here
      <4> QED
        BY <3>1, <3>2, <4>1
    <3>5. CASE t % W # here
      BY <1>9, <3>1, <3>2, <3>3, <3>5
    <3> QED
      BY <3>4, <3>5
  <2> QED
    BY <2>1, <2>2
<1>12. RingAt(new, W, more, now)
  <2>1. DOMAIN new = 0 .. W - 1
    BY DEF RingAt
  <2> QED
    BY <1>10, <1>11, <2>1 DEF RingAt
<1> QED
  BY <1>4, <1>5, <1>6, <1>7, <1>12 DEF more, here, n

-----------------------------------------------------------------------------
(* The windows.                                                              *)

Bucket == [sec : Nat, count : Nat]
StatsBucket == [sec : Nat, count : Nat, authors : SUBSET Authors, used : BOOLEAN]
StatsAt(ring_, feed, now) ==
  /\ ring_ \in [0 .. StatsWindow - 1 -> StatsBucket]
  /\ RingAt(ring_, StatsWindow, feed, now)
  /\ \A i \in 0 .. StatsWindow - 1 :
       /\ ring_[i].used <=> ring_[i].sec > 0
       /\ ring_[i].authors = {feed[j].by : j \in SaidIn(feed, ring_[i].sec)}

LEMMA StatsExact ==
  ASSUME StatsWindow \in Nat \ {0}, NEW ring_, NEW feed, NEW now, FeedAt(feed, now), StatsAt(ring_, feed, now),
         NEW late, late = LatelyIn(feed, now, StatsWindow)
  PROVE  StatsEmit(ring_, now) =
           IF late = {} THEN {} ELSE {[total |-> Cardinality(late), chatters |-> {feed[i].by : i \in late}]}
<1> DEFINE W == StatsWindow  J == Counted(ring_, now)
<1>1. W \in Nat \ {0}
  OBVIOUS
<1>2. RingAt(ring_, W, feed, now)
  BY DEF StatsAt
<1>3. /\ DOMAIN ring_ = 0 .. W - 1
      /\ \A i \in 0 .. W - 1 : ring_[i].sec \in Nat /\ ring_[i].sec <= now /\ (ring_[i].sec > 0 => SaidIn(feed, ring_[i].sec) # {})
  BY <1>2 DEF RingAt
<1>4. J = {i \in 0 .. W - 1 : ring_[i].sec > 0 /\ now - ring_[i].sec < W}
  BY <1>3 DEF Counted, InWindow, StatsAt
<1> HIDE DEF J, W
<1>5. /\ SumOf(Counts(ring_), J) = Cardinality(LatelyIn(feed, now, W))
      /\ UNION {SaidIn(feed, ring_[i].sec) : i \in J} = LatelyIn(feed, now, W)
  <2>1. J \in SUBSET (0 .. W - 1)
    BY <1>4
  <2>2. \A i \in J : now - ring_[i].sec < W
    BY <1>4, Zenon
  <2>3. \A i \in 0 .. W - 1 : now - ring_[i].sec < W /\ ring_[i].sec > 0 => i \in J
    BY <1>4, Zenon
  <2> QED
    BY <1>1, <1>2, <2>1, <2>2, <2>3, RingSum, Zenon
<1>6. late = LatelyIn(feed, now, W)
  BY DEF W
<1>7. J = {} <=> late = {}
  <2>1. \A i \in J : SaidIn(feed, ring_[i].sec) # {}
    BY <1>3, <1>4
  <2>2. J # {} => UNION {SaidIn(feed, ring_[i].sec) : i \in J} # {}
    BY <2>1
  <2>3. J = {} => UNION {SaidIn(feed, ring_[i].sec) : i \in J} = {}
    OBVIOUS
  <2> QED
    BY <1>5, <1>6, <2>2, <2>3
<1>8. UNION {ring_[i].authors : i \in J} = {feed[i].by : i \in late}
  <2>1. \A i \in J : ring_[i].authors = {feed[j].by : j \in SaidIn(feed, ring_[i].sec)}
    BY <1>4 DEF StatsAt, W
  <2>2. UNION {ring_[i].authors : i \in J} = {feed[j].by : j \in UNION {SaidIn(feed, ring_[i].sec) : i \in J}}
    BY <2>1
  <2> QED
    BY <1>5, <1>6, <2>2
<1>9. StatsEmit(ring_, now) =
        IF J = {} THEN {}
        ELSE {[total |-> SumOf(Counts(ring_), J), chatters |-> UNION {ring_[i].authors : i \in J}]}
  BY DEF StatsEmit, StatsSnapshot, J
<1> QED
  BY <1>5, <1>6, <1>7, <1>8, <1>9

-----------------------------------------------------------------------------
(* The newest elements at some positions.                                    *)

LEMMA MinOfTwo ==
  ASSUME NEW x \in Int, NEW y \in Int PROVE Min({x, y}) = IF x <= y THEN x ELSE y
<1> DEFINE S == {x, y}  m == IF x <= y THEN x ELSE y
<1>1. m \in S /\ \A z \in S : m <= z
  OBVIOUS
<1>2. \A u \in S : (\A z \in S : u <= z) => u = m
  OBVIOUS
<1> HIDE DEF S, m
<1>3. Min(S) = m
  BY <1>1, <1>2 DEF Min
<1> QED
  BY <1>3 DEF S, m

LEMMA MaxOfTwo ==
  ASSUME NEW x \in Int, NEW y \in Int PROVE Max({x, y}) = IF x <= y THEN y ELSE x
<1> DEFINE S == {x, y}  m == IF x <= y THEN y ELSE x
<1>1. m \in S /\ \A z \in S : z <= m
  OBVIOUS
<1>2. \A u \in S : (\A z \in S : z <= u) => u = m
  OBVIOUS
<1> HIDE DEF S, m
<1>3. Max(S) = m
  BY <1>1, <1>2 DEF Max
<1> QED
  BY <1>3 DEF S, m

Above(J, i) == {j \in J : j > i}
LEMMA FewerAbove ==
  ASSUME NEW J \in SUBSET Nat, IsFiniteSet(J), NEW i \in J, NEW m \in J, i < m
  PROVE  Cardinality(Above(J, m)) < Cardinality(Above(J, i)) /\ Cardinality(Above(J, i)) \in Nat
<1>1. Above(J, m) \in SUBSET J /\ Above(J, i) \in SUBSET J
  BY DEF Above
<1>2. IsFiniteSet(Above(J, m)) /\ IsFiniteSet(Above(J, i))
  BY <1>1, FS_Subset
<1>3. Cardinality(Above(J, m)) \in Nat /\ Cardinality(Above(J, i)) \in Nat
  BY <1>2, FS_CardinalityType
<1>4. Above(J, m) \cup {m} \in SUBSET Above(J, i) /\ m \notin Above(J, m)
  <2>1. \A j \in J : j \in Nat
    OBVIOUS
  <2>2. \A j \in J : j > m => j > i
    BY <2>1
  <2>3. m > i /\ ~(m > m)
    BY <2>1
  <2>4. \A j : j \in Above(J, m) => j \in Above(J, i)
    BY <2>2 DEF Above
  <2>5. m \in Above(J, i) /\ m \notin Above(J, m)
    BY <2>3 DEF Above
  <2> QED
    BY <2>4, <2>5
<1>5. Cardinality(Above(J, m) \cup {m}) = Cardinality(Above(J, m)) + 1
  BY <1>2, <1>4, FS_AddElement
<1>6. Cardinality(Above(J, m) \cup {m}) <= Cardinality(Above(J, i))
  BY <1>2, <1>4, FS_Subset
<1> QED
  BY <1>3, <1>5, <1>6

(* When the positions J reach down from r without a gap for long enough, the  *)
(* newest elements are the last ones.                                         *)
TopOf(J, r, c) == r \in Nat /\ c \in 0 .. r /\ J \in SUBSET (1 .. r) /\ (r - c + 1) .. r \subseteq J
Downwards(s, r, p) == [k \in 1 .. p |-> s[r - k + 1]]
LEMMA NewestTop ==
  ASSUME NEW s, NEW r, NEW c, NEW J, TopOf(J, r, c),
         NEW limit \in Nat, NEW p, p = Min({limit, Cardinality(J)}), p <= c
  PROVE  p \in Nat /\ NewestAt(s, J, limit) = Downwards(s, r, p)
<1>0. r \in Nat /\ c \in 0 .. r /\ J \in SUBSET (1 .. r) /\ (r - c + 1) .. r \subseteq J
  BY Zenon DEF TopOf
<1> USE <1>0
<1>1. IsFiniteSet(J) /\ Cardinality(J) \in Nat
  <2>1. IsFiniteSet(1 .. r)
    BY FS_Interval
  <2> QED
    BY <2>1, FS_Subset, FS_CardinalityType
<1>2. p \in Nat /\ p <= limit /\ p <= Cardinality(J)
  BY <1>1, MinOfTwo
<1>3. ASSUME NEW k \in 1 .. p PROVE (CHOOSE i \in J : Cardinality({j \in J : j > i}) = k - 1) = r - k + 1
  <2> DEFINE at_ == r - k + 1
  <2>1. k \in Int /\ k >= 1 /\ k <= c /\ c \in Int /\ c <= r
    BY <1>2
  <2>2. at_ \in Int /\ at_ \in (r - c + 1) .. r /\ at_ \in J
    BY <2>1
  <2>3. Above(J, at_) = (r - k + 2) .. r
    <3>1. \A j \in (r - k + 2) .. r : j \in (r - c + 1) .. r /\ j > at_
      BY <2>1
    <3>2. \A j \in J : j > at_ => j \in (r - k + 2) .. r
      BY <2>1
    <3> QED
      BY <3>1, <3>2 DEF Above
  <2>4. Cardinality(Above(J, at_)) = k - 1
    <3>1. Cardinality((r - k + 2) .. r) = IF r - k + 2 > r THEN 0 ELSE r - (r - k + 2) + 1
      BY <2>1, FS_Interval
    <3>2. (IF r - k + 2 > r THEN 0 ELSE r - (r - k + 2) + 1) = k - 1
      BY <2>1
    <3> QED
      BY <2>3, <3>1, <3>2
  <2> HIDE DEF at_
  <2>5. \A i \in J : Cardinality(Above(J, i)) = k - 1 => i = at_
    <3> TAKE i \in J
    <3> HAVE Cardinality(Above(J, i)) = k - 1
    <3>1. J \in SUBSET Nat /\ i \in Nat /\ at_ \in Nat
      BY <2>2
    <3>2. ~(i < at_)
      BY <1>1, <2>1, <2>2, <2>4, <3>1, FewerAbove
    <3>3. ~(at_ < i)
      BY <1>1, <2>1, <2>2, <2>4, <3>1, FewerAbove
    <3> QED
      BY <3>1, <3>2, <3>3
  <2>6. (CHOOSE i \in J : Cardinality(Above(J, i)) = k - 1) = at_
    BY <2>2, <2>4, <2>5
  <2> QED
    BY <2>6 DEF Above, at_
<1>4. NewestAt(s, J, limit) = [k \in 1 .. p |-> s[CHOOSE i \in J : Cardinality({j \in J : j > i}) = k - 1]]
  BY DEF NewestAt
<1> QED
  BY <1>2, <1>3, <1>4 DEF Downwards

-----------------------------------------------------------------------------
(* The scrollback: its entries are the last ones of the feed.                *)

Entries == [id : Nat, deleted : BOOLEAN]
Shown(i, deleted) == [id |-> i, deleted |-> i \in deleted]
Kept(n) == IF n <= ScrollCap THEN n ELSE ScrollCap
ScrollAt(buf, n, deleted) ==
  /\ deleted \in SUBSET (1 .. n)
  /\ buf \in Seq(Entries) /\ Len(buf) = Kept(n)
  /\ \A k \in 1 .. Kept(n) : buf[k] = Shown(n - Kept(n) + k, deleted)

LEMMA Appended ==
  ASSUME NEW S, NEW s \in Seq(S), NEW e \in S, NEW n, n = Len(s), NEW more, more = Append(s, e)
  PROVE  /\ more \in Seq(S) /\ Len(more) = n + 1 /\ more[n + 1] = e
         /\ n \in Nat /\ DOMAIN more = 1 .. n + 1
         /\ \A k \in 1 .. n : more[k] = s[k]
OBVIOUS

LEMMA Tailed ==
  ASSUME NEW S, NEW s \in Seq(S), NEW n \in Nat, n + 1 = Len(s), NEW less, less = SubSeq(s, 2, n + 1)
  PROVE  /\ less \in Seq(S) /\ Len(less) = n /\ DOMAIN less = 1 .. n
         /\ \A k \in 1 .. n : less[k] = s[k + 1]
OBVIOUS

LEMMA CardinalityUpTo == ASSUME NEW n \in Nat PROVE IsFiniteSet(1 .. n) /\ Cardinality(1 .. n) = n
<1>1. IsFiniteSet(1 .. n) /\ Cardinality(1 .. n) = IF 1 > n THEN 0 ELSE n - 1 + 1
  BY FS_Interval
<1> QED
  BY <1>1

LEMMA FunctionIsSeq ==
  ASSUME NEW n \in Nat, NEW S, NEW f \in [1 .. n -> S] PROVE f \in Seq(S) /\ Len(f) = n
OBVIOUS

LEMMA KeptNumber ==
  ASSUME ScrollCap \in Nat \ {0}, NEW n \in Nat
  PROVE  /\ ScrollCap \in Nat \ {0} /\ Kept(n) \in Nat /\ Kept(n) <= n
         /\ n < ScrollCap => Kept(n) = n /\ Kept(n + 1) = n + 1
         /\ n >= ScrollCap => Kept(n) = ScrollCap /\ Kept(n + 1) = ScrollCap
BY DEF Kept

LEMMA ScrollFacts ==
  ASSUME ScrollCap \in Nat \ {0}, NEW n \in Nat, NEW deleted, NEW buf, ScrollAt(buf, n, deleted)
  PROVE  /\ buf \in Seq(Entries) /\ Len(buf) = Kept(n) /\ DOMAIN buf = 1 .. Kept(n)
         /\ deleted \in SUBSET (1 .. n) /\ deleted \in SUBSET (1 .. n + 1) /\ n + 1 \notin deleted
<1>1. buf \in Seq(Entries) /\ Len(buf) = Kept(n) /\ deleted \in SUBSET (1 .. n)
  BY DEF ScrollAt
<1>3. 1 .. n \subseteq 1 .. n + 1 /\ n + 1 \notin 1 .. n
  OBVIOUS
<1>4. DOMAIN buf = 1 .. Kept(n)
  BY <1>1
<1> QED
  BY <1>1, <1>3, <1>4, Zenon

LEMMA ScrollEntry ==
  ASSUME NEW n \in Nat, NEW deleted, NEW buf, ScrollAt(buf, n, deleted), NEW k \in 1 .. Kept(n)
  PROVE  buf[k] = Shown(n - Kept(n) + k, deleted)
BY DEF ScrollAt

LEMMA ShownUndeleted ==
  ASSUME NEW i, NEW deleted, i \notin deleted PROVE Shown(i, deleted) = [id |-> i, deleted |-> FALSE]
<1>1. (i \in deleted) = FALSE
  OBVIOUS
<1> QED
  BY <1>1, Zenon DEF Shown

LEMMA ShownMarked ==
  ASSUME NEW i, NEW deleted, NEW id
  PROVE  /\ Shown(i, deleted).id = i
         /\ i = id => [id |-> id, deleted |-> TRUE] = Shown(i, deleted \cup {id})
         /\ i # id => Shown(i, deleted) = Shown(i, deleted \cup {id})
<1>1. i = id => (i \in deleted \cup {id}) = TRUE
  OBVIOUS
<1>2. i # id => (i \in deleted \cup {id}) = (i \in deleted)
  OBVIOUS
<1>3. Shown(i, deleted).id = i
  BY DEF Shown
<1>4. ASSUME i = id PROVE [id |-> id, deleted |-> TRUE] = Shown(i, deleted \cup {id})
  BY <1>1, <1>4, Zenon DEF Shown
<1>5. ASSUME i # id PROVE Shown(i, deleted) = Shown(i, deleted \cup {id})
  BY <1>2, <1>5, Zenon DEF Shown
<1> QED
  BY <1>3, <1>4, <1>5

LEMMA ShownType ==
  ASSUME NEW i \in Nat, NEW deleted PROVE Shown(i, deleted) \in Entries
<1>1. (i \in deleted) \in BOOLEAN
  OBVIOUS
<1> QED
  BY <1>1, Zenon DEF Shown, Entries

\* The last cap elements of s with e behind it.
Slid(s, e, cap) ==
  LET all == Append(s, e) IN IF Len(all) > cap THEN SubSeq(all, Len(all) - cap + 1, Len(all)) ELSE all
More(n, cap) == IF n < cap THEN n + 1 ELSE cap

IsSlid(new, S, s, e, cap) ==
  /\ new \in Seq(S) /\ Len(new) = More(Len(s), cap) /\ new[More(Len(s), cap)] = e
  /\ \A k \in 1 .. More(Len(s), cap) : k # More(Len(s), cap) => new[k] = s[Len(s) + k + 1 - More(Len(s), cap)]

LEMMA SlidKeeps ==
  ASSUME NEW S, NEW s \in Seq(S), NEW e \in S, NEW cap \in Nat \ {0}, Len(s) <= cap
  PROVE  IsSlid(Slid(s, e, cap), S, s, e, cap)
<1>1. PICK n : n = Len(s) /\ n <= cap
  OBVIOUS
<1>2. PICK all : all = Append(s, e)
  OBVIOUS
<1>3. PICK new : new = IF Len(all) > cap THEN SubSeq(all, Len(all) - cap + 1, Len(all)) ELSE all
  OBVIOUS
<1>4. PICK k1 : k1 = IF n < cap THEN n + 1 ELSE cap
  OBVIOUS
<1>5. new = Slid(s, e, cap) /\ k1 = More(Len(s), cap)
  BY <1>1, <1>2, <1>3, <1>4, Zenon DEF Slid, More
<1> USE <1>1, <1>2, <1>3, <1>4
<1>11. n \in Nat /\ k1 \in Nat /\ k1 >= 1
  OBVIOUS
<1>12. /\ all \in Seq(S) /\ Len(all) = n + 1 /\ all[n + 1] = e
      /\ \A k \in 1 .. n : all[k] = s[k]
  BY Appended
<1>13. ASSUME n < cap
      PROVE  /\ new \in Seq(S) /\ Len(new) = k1 /\ new[k1] = e
             /\ \A k \in 1 .. k1 : k # k1 => new[k] = s[n + k + 1 - k1]
  <2>1. k1 = n + 1 /\ ~(n + 1 > cap)
    BY <1>11, <1>13
  <2>2. new = all
    <3>1. ~(Len(all) > cap)
      BY <1>12, <2>1
    <3> QED
      BY <3>1
  <2>3. new \in Seq(S) /\ Len(new) = k1 /\ new[k1] = e
    BY <1>12, <2>1, <2>2
  <2>4. ASSUME NEW k \in 1 .. k1, k # k1 PROVE new[k] = s[n + k + 1 - k1]
    <3>1. k \in 1 .. n /\ n + k + 1 - k1 = k
      BY <1>11, <2>1, <2>4
    <3>2. new[k] = s[k]
      BY <1>12, <2>2, <3>1
    <3> QED
      BY <3>1, <3>2
  <2> QED
    BY <1>11, <2>3, <2>4
<1>14. ASSUME ~(n < cap)
      PROVE  /\ new \in Seq(S) /\ Len(new) = k1 /\ new[k1] = e
             /\ \A k \in 1 .. k1 : k # k1 => new[k] = s[n + k + 1 - k1]
  <2>1. n = cap /\ k1 = n
    BY <1>11, <1>14
  <2>2. new = SubSeq(all, 2, n + 1)
    <3>1. Len(all) > cap /\ Len(all) - cap + 1 = 2 /\ Len(all) = n + 1
      BY <1>12, <2>1
    <3> QED
      BY <3>1
  <2>3. new \in Seq(S) /\ Len(new) = n /\ \A k \in 1 .. n : new[k] = all[k + 1]
    <3>1. all \in Seq(S) /\ n \in Nat /\ n + 1 = Len(all)
      BY <1>11, <1>12
    <3>2. \A less : less = SubSeq(all, 2, n + 1) =>
            less \in Seq(S) /\ Len(less) = n /\ \A k \in 1 .. n : less[k] = all[k + 1]
      <4> TAKE less
      <4> HAVE less = SubSeq(all, 2, n + 1)
      <4> HIDE <2>2
      <4> QED
        BY <3>1, Tailed
    <3> QED
      BY <2>2, <3>2, Zenon
  <2>4. new \in Seq(S) /\ Len(new) = k1
    BY <2>1, <2>3
  <2>5. new[k1] = e
    BY <1>11, <1>12, <2>1, <2>3
  <2>6. ASSUME NEW k \in 1 .. k1, k # k1 PROVE new[k] = s[n + k + 1 - k1]
    <3>1. k \in 1 .. n /\ k + 1 \in 1 .. n /\ n + k + 1 - k1 = k + 1
      BY <1>11, <2>1, <2>6
    <3>2. new[k] = s[k + 1]
      BY <1>12, <2>3, <3>1
    <3> QED
      BY <3>1, <3>2
  <2> QED
    BY <1>11, <2>4, <2>5, <2>6
<1> HIDE <1>1, <1>2, <1>3, <1>4
<1>6. /\ new \in Seq(S) /\ Len(new) = k1 /\ new[k1] = e
      /\ \A k \in 1 .. k1 : k # k1 => new[k] = s[n + k + 1 - k1]
  BY <1>13, <1>14
<1> QED
  BY <1>1, <1>5, <1>6, Zenon DEF IsSlid

LEMMA Scrolls ==
  ASSUME NEW n \in Nat, NEW deleted \in SUBSET (1 .. n), NEW buf \in Seq(Entries), Len(buf) = Kept(n),
         \A k \in 1 .. Kept(n) : buf[k] = Shown(n - Kept(n) + k, deleted)
  PROVE  ScrollAt(buf, n, deleted)
BY Zenon DEF ScrollAt

LEMMA ScrollAdded ==
  ASSUME ScrollCap \in Nat \ {0}, NEW n \in Nat, NEW deleted, NEW buf, ScrollAt(buf, n, deleted),
         NEW new, new = ScrollAdd(buf, [id |-> n + 1, deleted |-> FALSE])
  PROVE  ScrollAt(new, n + 1, deleted)
<1>1. PICK m \in Entries : m = Shown(n + 1, deleted) /\ m = [id |-> n + 1, deleted |-> FALSE]
  <2>1. n + 1 \notin deleted
    BY ScrollFacts
  <2>2. Shown(n + 1, deleted) = [id |-> n + 1, deleted |-> FALSE]
    BY <2>1, ShownUndeleted, Zenon
  <2>3. n + 1 \in Nat
    OBVIOUS
  <2> QED
    BY <2>2, <2>3, ShownType, Zenon
<1>2. PICK k0 \in Nat : k0 = Kept(n) /\ k0 <= n
  BY KeptNumber
<1>3. ScrollCap \in Nat \ {0} /\ k0 <= ScrollCap
  BY <1>2, KeptNumber
<1>4. buf \in Seq(Entries) /\ k0 = Len(buf) /\ deleted \in SUBSET (1 .. n + 1)
  BY <1>2, ScrollFacts
<1>5. PICK k1 : k1 = More(k0, ScrollCap)
  OBVIOUS
<1>7. new = Slid(buf, m, ScrollCap)
  BY <1>1, Zenon DEF ScrollAdd, Slid
<1>9. k1 = Kept(n + 1) /\ k1 <= k0 + 1 /\ k1 \in Nat /\ k1 >= 1
  BY <1>2, <1>3, <1>5, KeptNumber DEF More
<1>8. /\ new \in Seq(Entries) /\ Len(new) = k1
      /\ new[k1] = m
      /\ \A k \in 1 .. k1 : k # k1 => new[k] = buf[k0 + k + 1 - k1]
  <2>1. Len(buf) <= ScrollCap /\ m \in Entries /\ buf \in Seq(Entries) /\ ScrollCap \in Nat \ {0}
    BY <1>1, <1>3, <1>4
  <2>2. IsSlid(new, Entries, buf, m, ScrollCap)
    BY <1>7, <2>1, SlidKeeps, Zenon
  <2> QED
    BY <1>4, <1>5, <2>2, Zenon DEF IsSlid
<1>10. \A k \in 1 .. k1 : new[k] = Shown((n + 1) - k1 + k, deleted)
  <2> TAKE k \in 1 .. k1
  <2>1. CASE k = k1
    <3>1. (n + 1) - k1 + k = n + 1
      BY <1>9, <2>1
    <3> QED
      BY <1>1, <1>8, <2>1, <3>1, Zenon
  <2>2. CASE k # k1
    <3>1. k0 + k + 1 - k1 \in 1 .. k0 /\ n - k0 + (k0 + k + 1 - k1) = (n + 1) - k1 + k
      BY <1>9, <2>2
    <3>2. buf[k0 + k + 1 - k1] = Shown(n - k0 + (k0 + k + 1 - k1), deleted)
      BY <1>2, <3>1, ScrollEntry
    <3> QED
      BY <1>8, <2>2, <3>1, <3>2, Zenon
  <2> QED
    BY <2>1, <2>2
<1>11. n + 1 \in Nat
  OBVIOUS
<1>12. /\ new \in Seq(Entries) /\ Len(new) = Kept(n + 1) /\ deleted \in SUBSET (1 .. n + 1)
       /\ \A k \in 1 .. Kept(n + 1) : new[k] = Shown((n + 1) - Kept(n + 1) + k, deleted)
  BY <1>4, <1>8, <1>9, <1>10, Zenon
<1> QED
  BY <1>12, Zenon DEF ScrollAt

LEMMA ScrollMarked ==
  ASSUME ScrollCap \in Nat \ {0}, NEW n \in Nat, NEW deleted, NEW buf, ScrollAt(buf, n, deleted), NEW id \in 1 .. n,
         NEW new, new = [i \in DOMAIN buf |-> IF buf[i].id = id THEN [id |-> id, deleted |-> TRUE] ELSE buf[i]]
  PROVE  ScrollAt(new, n, deleted \cup {id})
<1>2. PICK k0 \in Nat : k0 = Kept(n) /\ k0 <= n
  BY KeptNumber
<1>3. deleted \cup {id} \in SUBSET (1 .. n)
  <2>2. deleted \in SUBSET (1 .. n)
    BY ScrollFacts
  <2> QED
    BY <2>2
<1>4. DOMAIN buf = 1 .. k0
  BY <1>2, ScrollFacts
<1>5. \A k \in 1 .. k0 : new[k] = Shown(n - k0 + k, deleted \cup {id}) /\ new[k] \in Entries
  <2> TAKE k \in 1 .. k0
  <2>1. PICK j \in Nat : j = n - k0 + k
    BY <1>2
  <2>2. buf[k] = Shown(j, deleted)
    BY <1>2, <2>1, ScrollEntry
  <2>3. new[k] = IF buf[k].id = id THEN [id |-> id, deleted |-> TRUE] ELSE buf[k]
    BY <1>4, Zenon
  <2>4. new[k] = Shown(j, deleted \cup {id})
    <3>1. /\ Shown(j, deleted).id = j
          /\ j = id => [id |-> id, deleted |-> TRUE] = Shown(j, deleted \cup {id})
          /\ j # id => Shown(j, deleted) = Shown(j, deleted \cup {id})
      BY ShownMarked
    <3> QED
      BY <2>2, <2>3, <3>1, Zenon
  <2> QED
    BY <2>1, <2>4, ShownType, Zenon
<1>6. DOMAIN new = 1 .. k0
  BY <1>4, Zenon
<1>7. new \in Seq(Entries) /\ Len(new) = k0
  <2>1. new \in [1 .. k0 -> Entries]
    <3>1. new = [k \in 1 .. k0 |-> new[k]]
      BY <1>4, <1>6
    <3>2. \A k \in 1 .. k0 : new[k] \in Entries
      BY <1>5
    <3> QED
      BY <3>1, <3>2, Zenon
  <2> QED
    BY <2>1, FunctionIsSeq
<1> QED
  BY <1>2, <1>3, <1>5, <1>7, Zenon DEF ScrollAt

LEMMA Concatenated ==
  ASSUME NEW S, NEW q \in Nat, NEW p \in Nat, p <= q, NEW f \in [1 .. q -> S],
         NEW a, a = [k \in 1 .. p |-> f[k]], NEW b, b = [k \in 1 .. q - p |-> f[p + k]]
  PROVE  a \o b = f
<1>1. q - p \in Nat
  OBVIOUS
<1>2. a \in [1 .. p -> S]
  OBVIOUS
<1>3. b \in [1 .. q - p -> S]
  <2>1. \A k \in 1 .. q - p : p + k \in 1 .. q
    OBVIOUS
  <2> QED
    BY <2>1
<1>4. a \in Seq(S) /\ Len(a) = p /\ b \in Seq(S) /\ Len(b) = q - p
  BY <1>1, <1>2, <1>3, FunctionIsSeq
<1>5. /\ DOMAIN (a \o b) = 1 .. p + (q - p)
      /\ \A k \in 1 .. p + (q - p) : (a \o b)[k] = IF k <= p THEN a[k] ELSE b[k - p]
  BY <1>4
<1>6. p + (q - p) = q
  OBVIOUS
<1>7. \A k \in 1 .. q : (a \o b)[k] = f[k]
  <2> TAKE k \in 1 .. q
  <2>1. CASE k <= p
    BY <1>5, <1>6, <2>1
  <2>2. CASE ~(k <= p)
    <3>1. k - p \in 1 .. q - p /\ p + (k - p) = k
      BY <2>2
    <3>2. (a \o b)[k] = b[k - p]
      BY <1>5, <1>6, <2>2
    <3> QED
      BY <3>1, <3>2
  <2> QED
    BY <2>1, <2>2
<1>8. a \o b = [k \in 1 .. q |-> (a \o b)[k]]
  BY <1>4, <1>5, <1>6
<1> QED
  BY <1>7, <1>8

LEMMA ScrollPaged ==
  ASSUME ScrollCap \in Nat \ {0}, NEW n \in Nat, n = Len(avFeed), ScrollAt(avScroll, n, avDeleted)
  PROVE  ScrollbackPages
<1> DEFINE page1 == ScrollHistory(0, 2)
           page2 == IF page1 = <<>> THEN <<>> ELSE ScrollHistory(Last(page1).id, ScrollCap)
<1>1. PICK q \in Nat : q = Kept(n) /\ q <= n /\ q <= ScrollCap
  BY KeptNumber
<1>2. ScrollCap \in Nat \ {0}
  BY KeptNumber
<1>3. DOMAIN avScroll = 1 .. q /\ avScroll \in [1 .. q -> Entries]
  <2>1. avScroll \in Seq(Entries) /\ Len(avScroll) = q
    BY <1>1, ScrollFacts
  <2> QED
    BY <2>1
<1>4. \A k \in 1 .. q : avScroll[k] = Shown(n - q + k, avDeleted)
  BY <1>1, ScrollEntry
<1>5. \A k \in 1 .. q : avScroll[k].id = n - q + k
  BY <1>4, ShownMarked
<1>6. PICK p1 : p1 = IF 2 <= q THEN 2 ELSE q
  OBVIOUS
<1>7. p1 \in Nat /\ p1 <= q /\ (p1 = 0 <=> q = 0)
  BY <1>1, <1>6
<1>8. page1 = [k \in 1 .. p1 |-> avScroll[q - k + 1]]
  <2> DEFINE J == {i \in DOMAIN avScroll : 0 = 0 \/ avScroll[i].id < 0}
  <2>1. J = 1 .. q
    BY <1>3
  <2> HIDE DEF J
  <2>2. IsFiniteSet(J) /\ Cardinality(J) = q
    BY <2>1, CardinalityUpTo
  <2>3. p1 = Min({2, Cardinality(J)})
    BY <1>6, <2>2, MinOfTwo
  <2>4. q \in 0 .. q /\ J \in SUBSET (1 .. q) /\ (q - q + 1) .. q \subseteq J /\ p1 <= q
    BY <1>7, <2>1
  <2>5. NewestAt(avScroll, J, 2) = [k \in 1 .. p1 |-> avScroll[q - k + 1]]
    <3>1. q \in Nat /\ 2 \in Nat
      OBVIOUS
    <3>2. TopOf(J, q, q)
      BY <2>4, <3>1, Zenon DEF TopOf
    <3>3. NewestAt(avScroll, J, 2) = Downwards(avScroll, q, p1)
      BY <2>3, <2>4, <3>1, <3>2, NewestTop
    <3> QED
      BY <3>3, Zenon DEF Downwards
  <2> QED
    BY <2>5, Zenon DEF ScrollHistory, J
<1> HIDE DEF page1
<1>9. page1 \in [1 .. p1 -> Entries]
  <2>1. \A k \in 1 .. p1 : q - k + 1 \in 1 .. q
    BY <1>7
  <2> QED
    BY <1>3, <1>8, <2>1
<1>10. page1 \in Seq(Entries) /\ Len(page1) = p1
  BY <1>7, <1>9, FunctionIsSeq
<1>11. page2 = [k \in 1 .. q - p1 |-> avScroll[q - (p1 + k) + 1]]
  <2>1. CASE q = 0
    <3>1. p1 = 0 /\ 1 .. q - p1 = {}
      BY <1>7, <2>1
    <3>2. page1 = <<>>
      BY <1>10, <3>1
    <3>3. page2 = <<>>
      BY <3>2
    <3> QED
      BY <3>1, <3>3
  <2>2. CASE q # 0
    <3>1. p1 # 0 /\ page1 # <<>>
      BY <1>7, <1>10, <2>2
    <3>2. PICK r \in Nat : r = q - p1
      BY <1>7
    <3>3. PICK before : before = Last(page1).id
      OBVIOUS
    <3>4. before = n - p1 + 1 /\ before # 0
      <4>1. Last(page1) = page1[p1]
        BY <1>10 DEF Last
      <4>2. p1 \in 1 .. p1 /\ q - p1 + 1 \in 1 .. q
        BY <1>7, <3>1
      <4>3. page1[p1] = avScroll[q - p1 + 1]
        BY <1>8, <4>2
      <4>4. avScroll[q - p1 + 1].id = n - q + (q - p1 + 1)
        BY <1>5, <4>2
      <4>5. n - q + (q - p1 + 1) = n - p1 + 1 /\ n - p1 + 1 # 0
        BY <1>1, <1>7
      <4> QED
        BY <3>3, <4>1, <4>3, <4>4, <4>5
    <3> DEFINE J == {i \in DOMAIN avScroll : before = 0 \/ avScroll[i].id < before}
    <3>5. J = 1 .. r
      <4>1. \A i \in 1 .. q : avScroll[i].id < before <=> i \in 1 .. r
        <5> TAKE i \in 1 .. q
        <5>1. (n - q + i < n - p1 + 1) <=> i \in 1 .. r
          BY <3>2, <1>7
        <5> QED
          BY <1>5, <3>4, <5>1
      <4>2. 1 .. r \subseteq 1 .. q
        BY <1>7, <3>2
      <4>3. \A i : i \in J <=> i \in 1 .. q /\ avScroll[i].id < before
        BY <1>3, <3>4
      <4> QED
        BY <4>1, <4>2, <4>3
    <3> HIDE DEF J
    <3>6. Cardinality(J) = r
      BY <3>5, CardinalityUpTo
    <3>7. r = Min({ScrollCap, Cardinality(J)})
      <4>1. r <= ScrollCap
        BY <1>1, <1>2, <1>7, <3>2
      <4>2. Min({ScrollCap, r}) = IF ScrollCap <= r THEN ScrollCap ELSE r
        BY <1>2, MinOfTwo
      <4> QED
        BY <1>2, <3>6, <4>1, <4>2
    <3>8. r \in 0 .. r /\ J \in SUBSET (1 .. r) /\ (r - r + 1) .. r \subseteq J /\ r <= r
      BY <3>5
    <3>9. NewestAt(avScroll, J, ScrollCap) = [k \in 1 .. r |-> avScroll[r - k + 1]]
      <4>1. ScrollCap \in Nat
        BY <1>2
      <4>2. TopOf(J, r, r)
        BY <3>2, <3>8, Zenon DEF TopOf
      <4>3. NewestAt(avScroll, J, ScrollCap) = Downwards(avScroll, r, r)
        BY <3>7, <3>8, <4>1, <4>2, NewestTop
      <4> QED
        BY <4>3, Zenon DEF Downwards
    <3>10. page2 = NewestAt(avScroll, J, ScrollCap)
      BY <3>1, <3>3, Zenon DEF ScrollHistory, J
    <3>11. \A k \in 1 .. r : r - k + 1 = q - (p1 + k) + 1
      BY <1>7, <3>2
    <3> QED
      BY <3>2, <3>9, <3>10, <3>11
  <2> QED
    BY <2>1, <2>2
<1> HIDE DEF page2
<1>12. PICK f : f = [k \in 1 .. q |-> avScroll[q - k + 1]]
  OBVIOUS
<1>13. f \in [1 .. q -> Entries]
  <2>1. \A k \in 1 .. q : q - k + 1 \in 1 .. q
    OBVIOUS
  <2> QED
    BY <1>3, <1>12, <2>1
<1>14. page1 \o page2 = f
  <2>1. page1 = [k \in 1 .. p1 |-> f[k]]
    <3>1. \A k \in 1 .. p1 : k \in 1 .. q
      BY <1>7
    <3> QED
      BY <1>8, <1>12, <3>1
  <2>2. page2 = [k \in 1 .. q - p1 |-> f[p1 + k]]
    <3>1. \A k \in 1 .. q - p1 : p1 + k \in 1 .. q
      BY <1>7
    <3> QED
      BY <1>11, <1>12, <3>1
  <2> QED
    BY <1>7, <1>13, <2>1, <2>2, Concatenated
<1>15. f = [k \in 1 .. q |-> Shown(n - k + 1, avDeleted)]
  <2>1. ASSUME NEW k \in 1 .. q PROVE avScroll[q - k + 1] = Shown(n - k + 1, avDeleted)
    <3>1. q - k + 1 \in 1 .. q /\ n - q + (q - k + 1) = n - k + 1
      OBVIOUS
    <3> QED
      BY <1>4, <3>1
  <2> QED
    BY <1>12, <2>1
<1>16. q = Min({ScrollCap, n})
  <2>1. Min({ScrollCap, n}) = IF ScrollCap <= n THEN ScrollCap ELSE n
    BY <1>2, MinOfTwo
  <2> QED
    BY <1>1, <1>2, <2>1 DEF Kept
<1>17. page1 \o page2 = [k \in 1 .. Min({ScrollCap, Len(avFeed)}) |->
          [id |-> Len(avFeed) - k + 1, deleted |-> (Len(avFeed) - k + 1) \in avDeleted]]
  BY <1>14, <1>15, <1>16, Zenon DEF Shown
<1> QED
  BY <1>17, Zenon DEF ScrollbackPages, page1, page2

-----------------------------------------------------------------------------
(* The buckets of the rate and of the detector.                              *)

BucketRing(ring_, W, feed, now) == ring_ \in [0 .. W - 1 -> Bucket] /\ RingAt(ring_, W, feed, now)
Recorded(ring_, W, now) ==
  [ring_ EXCEPT ![now % W] = [sec |-> now, count |-> Fresh(@, now, [sec |-> now, count |-> 0]).count + 1]]

LEMMA NothingAtZero ==
  ASSUME NEW feed, NEW now, FeedAt(feed, now)
  PROVE  SaidIn(feed, 0) = {} /\ Cardinality(SaidIn(feed, 0)) = 0 /\ now \in Nat /\ now > 0 /\ DOMAIN feed = 1 .. Len(feed)
<1>1. SaidIn(feed, 0) = {}
  BY DEF FeedAt, SaidIn
<1>2. now \in Nat /\ now > 0 /\ DOMAIN feed = 1 .. Len(feed)
  BY DEF FeedAt
<1> QED
  BY <1>1, <1>2, FS_EmptySet

LEMMA EmptyRings ==
  ASSUME NEW W \in Nat \ {0}, NEW feed, NEW now, FeedAt(feed, now),
         \A j \in DOMAIN feed : ~(now - feed[j].at < W),
         NEW b, b.sec = 0, b.count = 0
  PROVE  RingAt(EmptyRing(W, b), W, feed, now)
<1> DEFINE ring_ == EmptyRing(W, b)
<1>1. DOMAIN ring_ = 0 .. W - 1 /\ \A i \in 0 .. W - 1 : ring_[i] = b
  BY DEF EmptyRing
<1>2. 0 <= now
  BY NothingAtZero
<1> HIDE DEF ring_
<1>3. \A i \in 0 .. W - 1 :
        /\ ring_[i].sec \in Nat /\ ring_[i].sec <= now
        /\ ring_[i].count = Cardinality(SaidIn(feed, ring_[i].sec))
        /\ ring_[i].sec > 0 => ring_[i].sec % W = i /\ SaidIn(feed, ring_[i].sec) # {}
  <2> TAKE i \in 0 .. W - 1
  <2>1. ring_[i].sec = 0 /\ ring_[i].count = 0
    BY <1>1
  <2>2. ~(0 > 0) /\ 0 \in Nat
    OBVIOUS
  <2> QED
    BY <1>2, <2>1, <2>2, NothingAtZero
<1> QED
  BY <1>1, <1>3 DEF RingAt, ring_

LEMMA EmptyBuckets ==
  ASSUME NEW W \in Nat \ {0}, NEW feed, NEW now, FeedAt(feed, now),
         \A j \in DOMAIN feed : ~(now - feed[j].at < W)
  PROVE  BucketRing(EmptyRing(W, [sec |-> 0, count |-> 0]), W, feed, now)
<1>1. PICK b : b = [sec |-> 0, count |-> 0]
  OBVIOUS
<1>4. b \in Bucket /\ b.sec = 0 /\ b.count = 0
  BY <1>1 DEF Bucket
<1>2. RingAt(EmptyRing(W, b), W, feed, now)
  BY <1>4, EmptyRings
<1>3. EmptyRing(W, b) \in [0 .. W - 1 -> Bucket]
  BY <1>4 DEF EmptyRing
<1> QED
  BY <1>1, <1>2, <1>3 DEF BucketRing

LEMMA BucketRecorded ==
  ASSUME NEW W \in Nat \ {0}, NEW feed, NEW now, FeedAt(feed, now), NEW old, BucketRing(old, W, feed, now),
         NEW m \in Messages, m.at = now
  PROVE  BucketRing(Recorded(old, W, now), W, Append(feed, m), now)
<1> DEFINE here == now % W  new == Recorded(old, W, now)
<1>1. old \in [0 .. W - 1 -> Bucket] /\ RingAt(old, W, feed, now)
  BY DEF BucketRing
<1>2. here \in 0 .. W - 1 /\ now \in Nat
  BY Remainder, NothingAtZero
<1>3. old[here] \in Bucket
  BY <1>1, <1>2
<1> HIDE DEF here
<1>4. PICK b : b = [sec |-> now, count |-> Fresh(old[here], now, [sec |-> now, count |-> 0]).count + 1]
  OBVIOUS
<1>5. b \in Bucket /\ b.sec = now /\ b.count = IF old[here].sec = now THEN old[here].count + 1 ELSE 1
  BY <1>2, <1>3, <1>4 DEF Fresh, Bucket
<1>6. new = [old EXCEPT ![here] = b]
  BY <1>4 DEF Recorded, here
<1> HIDE DEF new
<1>7. /\ new \in [0 .. W - 1 -> Bucket] /\ DOMAIN new = DOMAIN old /\ new[here] = b
      /\ \A i \in DOMAIN old : i # here => new[i] = old[i]
  BY <1>1, <1>2, <1>5, <1>6
<1>8. RingAt(new, W, Append(feed, m), now)
  BY <1>1, <1>5, <1>7, RingRecorded DEF here
<1> QED
  BY <1>7, <1>8 DEF BucketRing, new

LEMMA EmptyStats ==
  ASSUME StatsWindow \in Nat \ {0}, NEW feed, NEW now, FeedAt(feed, now), feed = <<>>
  PROVE  StatsAt(EmptyRing(StatsWindow, [sec |-> 0, count |-> 0, authors |-> {}, used |-> FALSE]), feed, now)
<1>1. PICK b \in StatsBucket : b = [sec |-> 0, count |-> 0, authors |-> {}, used |-> FALSE]
  BY Zenon DEF StatsBucket
<1>2. b.sec = 0 /\ b.count = 0 /\ b.authors = {} /\ b.used = FALSE
  BY <1>1, Zenon
<1>3. PICK ring_ : ring_ = EmptyRing(StatsWindow, b)
  OBVIOUS
<1>4. RingAt(ring_, StatsWindow, feed, now)
  BY <1>2, <1>3, EmptyRings
<1>5. ring_ \in [0 .. StatsWindow - 1 -> StatsBucket] /\ \A i \in 0 .. StatsWindow - 1 : ring_[i] = b
  BY <1>3 DEF EmptyRing
<1>6. {feed[j].by : j \in SaidIn(feed, 0)} = {}
  BY NothingAtZero
<1>7. \A i \in 0 .. StatsWindow - 1 :
        /\ ring_[i].used <=> ring_[i].sec > 0
        /\ ring_[i].authors = {feed[j].by : j \in SaidIn(feed, ring_[i].sec)}
  <2> TAKE i \in 0 .. StatsWindow - 1
  <2>1. ring_[i].sec = 0 /\ ring_[i].used = FALSE /\ ring_[i].authors = {}
    BY <1>2, <1>5, Zenon
  <2>2. ~(0 > 0)
    OBVIOUS
  <2> QED
    BY <1>6, <2>1, <2>2, Zenon
<1> QED
  BY <1>1, <1>3, <1>4, <1>5, <1>7, Zenon DEF StatsAt

LEMMA StatsRecorded ==
  ASSUME StatsWindow \in Nat \ {0}, NEW feed, NEW now, FeedAt(feed, now), NEW old, StatsAt(old, feed, now),
         NEW m \in Messages, m.at = now
  PROVE  StatsAt(StatsRecord(old, now, m.by), Append(feed, m), now)
<1> DEFINE W == StatsWindow  here == now % W  new == StatsRecord(old, now, m.by)  more == Append(feed, m)
           empty == [sec |-> now, count |-> 0, authors |-> {}, used |-> TRUE]
<1>1. /\ old \in [0 .. W - 1 -> StatsBucket] /\ RingAt(old, W, feed, now)
      /\ \A i \in 0 .. W - 1 :
           /\ old[i].used <=> old[i].sec > 0
           /\ old[i].authors = {feed[j].by : j \in SaidIn(feed, old[i].sec)}
  BY Zenon DEF StatsAt
<1>2. here \in 0 .. W - 1 /\ now \in Nat /\ now > 0
  BY Remainder, NothingAtZero
<1>3. PICK a \in Authors : a = m.by
  BY DEF Messages
<1> HIDE DEF here, W
<1>4. PICK f : f = Fresh(old[here], now, empty)
  OBVIOUS
<1>5. f.count \in Nat /\ f.count = (IF old[here].sec = now THEN old[here].count ELSE 0)
  <2>1. old[here].count \in Nat
    BY <1>1, <1>2 DEF StatsBucket
  <2>2. empty.count = 0
    BY Zenon
  <2> QED
    BY <1>4, <2>1, <2>2 DEF Fresh
<1>6. f.authors \in SUBSET Authors /\ f.authors = (IF old[here].sec = now THEN old[here].authors ELSE {})
  <2>1. old[here].authors \in SUBSET Authors
    BY <1>1, <1>2 DEF StatsBucket
  <2>2. empty.authors = {}
    BY Zenon
  <2> QED
    BY <1>4, <2>1, <2>2, Zenon DEF Fresh
<1>7. PICK b : b = [sec |-> now, count |-> f.count + 1, authors |-> f.authors \cup {a}, used |-> TRUE]
  OBVIOUS
<1>8. b \in StatsBucket /\ b.sec = now /\ b.count = f.count + 1 /\ b.authors = f.authors \cup {a} /\ b.used = TRUE
  <2>1. f.count + 1 \in Nat /\ f.authors \cup {a} \in SUBSET Authors /\ TRUE \in BOOLEAN
    BY <1>5, <1>6
  <2> QED
    BY <1>2, <1>7, <2>1, Zenon DEF StatsBucket
<1>9. new = [old EXCEPT ![here] = b]
  BY <1>3, <1>4, <1>7, Zenon DEF StatsRecord, here, W
<1> HIDE DEF new, empty
<1>10. /\ new \in [0 .. W - 1 -> StatsBucket] /\ DOMAIN new = DOMAIN old /\ new[here] = b
       /\ \A i \in DOMAIN old : i # here => new[i] = old[i]
  BY <1>1, <1>2, <1>8, <1>9, Zenon
<1>11. b.count = IF old[here].sec = now THEN old[here].count + 1 ELSE 1
  BY <1>5, <1>8
<1>12. /\ RingAt(new, W, more, now)
       /\ \A t \in Nat : t # now => SaidIn(more, t) = SaidIn(feed, t)
       /\ SaidIn(more, now) = SaidIn(feed, now) \cup {Len(feed) + 1}
       /\ old[here].sec # now => SaidIn(feed, now) = {}
  <2>1. new[here].sec = now /\ new[here].count = IF old[here].sec = now THEN old[here].count + 1 ELSE 1
    BY <1>8, <1>10, <1>11, Zenon
  <2>2. RingAt(old, W, feed, now) /\ W \in Nat \ {0}
    BY <1>1 DEF W
  <2>3. DOMAIN new = DOMAIN old /\ \A i \in DOMAIN old : i # here => new[i] = old[i]
    BY <1>10
  <2> QED
    BY <2>1, <2>2, <2>3, RingRecorded DEF here
<1>13. /\ feed \in Seq(Messages) /\ more[Len(feed) + 1] = m /\ \A j \in DOMAIN feed : more[j] = feed[j]
  BY DEF FeedAt
<1> HIDE DEF more
<1>14. \A i \in 0 .. W - 1 :
         /\ new[i].used <=> new[i].sec > 0
         /\ new[i].authors = {more[j].by : j \in SaidIn(more, new[i].sec)}
  <2> TAKE i \in 0 .. W - 1
  <2>1. CASE i = here
    <3>1. new[i] = b
      BY <1>10, <2>1
    <3>2. f.authors = {feed[j].by : j \in SaidIn(feed, now)}
      <4>1. CASE old[here].sec = now
        BY <1>1, <1>2, <1>6, <4>1
      <4>2. CASE old[here].sec # now
        BY <1>6, <1>12, <4>2
      <4> QED
        BY <4>1, <4>2
    <3>3. \A j \in SaidIn(feed, now) : more[j].by = feed[j].by
      BY <1>13 DEF SaidIn
    <3>4. b.authors = {more[j].by : j \in SaidIn(more, now)}
      BY <1>3, <1>8, <1>12, <1>13, <3>2, <3>3
    <3> QED
      BY <1>2, <1>8, <3>1, <3>4, Zenon
  <2>2. CASE i # here
    <3>1. new[i] = old[i]
      BY <1>1, <1>10, <2>2
    <3>2. old[i].sec \in Nat /\ old[i].sec # now
      <4>1. old[i].sec \in Nat /\ (old[i].sec > 0 => old[i].sec % W = i)
        BY <1>1 DEF RingAt
      <4> QED
        BY <1>2, <2>2, <4>1 DEF here
    <3>3. SaidIn(more, old[i].sec) = SaidIn(feed, old[i].sec)
      BY <1>12, <3>2
    <3>4. \A j \in SaidIn(feed, old[i].sec) : more[j].by = feed[j].by
      BY <1>13 DEF SaidIn
    <3>5. {more[j].by : j \in SaidIn(feed, old[i].sec)} = {feed[j].by : j \in SaidIn(feed, old[i].sec)}
      BY <3>4
    <3> QED
      BY <1>1, <3>1, <3>3, <3>5, Zenon
  <2> QED
    BY <2>1, <2>2
<1>15. new \in [0 .. W - 1 -> StatsBucket]
  BY <1>10, Zenon
<1> QED
  BY <1>12, <1>14, <1>15, Zenon DEF StatsAt, W, new, more

-----------------------------------------------------------------------------
(* The fields of the detector's state.                                       *)

SpikeFields == {"buckets", "lastSeen", "known", "baseline", "recent", "inSpike", "moment", "quiet", "cooldownUntil"}
MomentRecords == [id : Nat, started : Nat, ended : Nat, peak : Nat, excerpt : Seq(Nat)]
LEMMA NoSpikeFields == DOMAIN NoSpike = SpikeFields
BY DEF NoSpike, SpikeFields
IsRecorded(new, cs, now, m) ==
  /\ DOMAIN new = SpikeFields
  /\ new.buckets = Recorded(cs.buckets, MomentWindow, now)
  /\ new.lastSeen = now /\ new.known = TRUE
  /\ new.recent = (LET all == Append(cs.recent, m) IN IF Len(all) > ExcerptSize THEN Tail(all) ELSE all)
  /\ new.inSpike = cs.inSpike /\ new.moment = cs.moment /\ new.cooldownUntil = cs.cooldownUntil
LEMMA SpikeRecorded ==
  ASSUME NEW cs, DOMAIN cs = SpikeFields, NEW now, NEW m, NEW new, new = SpikeRecord(cs, now, m)
  PROVE  IsRecorded(new, cs, now, m)
<1>1. DOMAIN new = SpikeFields
  BY Zenon DEF SpikeRecord
<1>2. new.buckets = Recorded(cs.buckets, MomentWindow, now)
  BY Zenon DEF SpikeRecord, SpikeFields, Recorded
<1>3. new.lastSeen = now 
  BY Zenon DEF SpikeRecord, SpikeFields
<1>4. new.known = TRUE
  BY Zenon DEF SpikeRecord, SpikeFields
<1>5. new.recent = (LET all == Append(cs.recent, m) IN IF Len(all) > ExcerptSize THEN Tail(all) ELSE all)
  BY Zenon DEF SpikeRecord, SpikeFields
<1>6. new.inSpike = cs.inSpike /\ new.moment = cs.moment /\ new.cooldownUntil = cs.cooldownUntil
  BY Zenon DEF SpikeRecord, SpikeFields
<1> QED
  BY <1>1, <1>2, <1>3, <1>4, <1>5, <1>6, Zenon DEF IsRecorded

\* What AdvanceSpike makes of the moment.
Advanced(moment, rate, recent) ==
  LET peak == Max({moment.peak, rate}) IN
    [moment EXCEPT !.peak = peak,
                   !.excerpt = IF 10 * rate >= 9 * peak THEN RefreshExcerpt(@, recent) ELSE @]
IsAdvanced(new, cs, now, rate) ==
  /\ DOMAIN new = SpikeFields
  /\ new.buckets = cs.buckets /\ new.lastSeen = cs.lastSeen /\ new.known = cs.known /\ new.recent = cs.recent
  /\ new.moment = Advanced(cs.moment, rate, cs.recent)
  /\ \/ new.inSpike = TRUE /\ new.cooldownUntil = cs.cooldownUntil
     \/ new.inSpike = FALSE /\ new.cooldownUntil = now + Cooldown
LEMMA SpikeAdvanced ==
  ASSUME NEW cs, DOMAIN cs = SpikeFields, cs.inSpike = TRUE, NEW now, NEW rate, NEW new, new = AdvanceSpike(cs, now, rate)
  PROVE  IsAdvanced(new, cs, now, rate)
<1>1. PICK moment : moment = Advanced(cs.moment, rate, cs.recent)
  OBVIOUS
<1>2. PICK quiet : quiet = IF StillHigh(rate, cs.baseline) THEN 0 ELSE cs.quiet + 1
  OBVIOUS
<1>3. new = IF quiet < CloseQuiet THEN [cs EXCEPT !.moment = moment, !.quiet = quiet]
            ELSE [cs EXCEPT !.moment = moment, !.quiet = quiet, !.inSpike = FALSE, !.cooldownUntil = now + Cooldown]
  BY <1>1, <1>2, Zenon DEF AdvanceSpike, Advanced
<1>4. CASE quiet < CloseQuiet
  <2>1. new = [cs EXCEPT !.moment = moment, !.quiet = quiet]
    BY <1>3, <1>4, Zenon
  <2>2. DOMAIN new = SpikeFields /\ new.moment = moment /\ new.inSpike = cs.inSpike /\ new.cooldownUntil = cs.cooldownUntil
    BY <2>1, Zenon DEF SpikeFields
  <2>3. new.buckets = cs.buckets /\ new.lastSeen = cs.lastSeen /\ new.known = cs.known /\ new.recent = cs.recent
    BY <2>1, Zenon DEF SpikeFields
  <2> QED
    BY <1>1, <2>2, <2>3, Zenon DEF IsAdvanced
<1>5. CASE ~(quiet < CloseQuiet)
  <2>1. new = [cs EXCEPT !.moment = moment, !.quiet = quiet, !.inSpike = FALSE, !.cooldownUntil = now + Cooldown]
    BY <1>3, <1>5, Zenon
  <2>2. DOMAIN new = SpikeFields /\ new.moment = moment /\ new.inSpike = FALSE /\ new.cooldownUntil = now + Cooldown
    BY <2>1, Zenon DEF SpikeFields
  <2>3. new.buckets = cs.buckets /\ new.lastSeen = cs.lastSeen /\ new.known = cs.known /\ new.recent = cs.recent
    BY <2>1, Zenon DEF SpikeFields
  <2> QED
    BY <1>1, <2>2, <2>3, Zenon DEF IsAdvanced
<1> QED
  BY <1>4, <1>5, Zenon DEF IsAdvanced

IsRaised(new, moment, recent) ==
  /\ new \in MomentRecords /\ new.started = moment.started /\ new.peak >= moment.peak
  /\ new.excerpt = RefreshExcerpt(moment.excerpt, recent) \/ new.excerpt = moment.excerpt
LEMMA MomentAdvanced ==
  ASSUME NEW moment \in MomentRecords, NEW rate \in Nat, NEW recent, RefreshExcerpt(moment.excerpt, recent) \in Seq(Nat),
         NEW new, new = Advanced(moment, rate, recent)
  PROVE  IsRaised(new, moment, recent)
<1>1. PICK peak \in Nat : peak = Max({moment.peak, rate}) /\ peak >= moment.peak
  <2>1. moment.peak \in Nat
    BY DEF MomentRecords
  <2> QED
    BY <2>1, MaxOfTwo
<1>2. PICK ex \in Seq(Nat) : /\ ex = IF 10 * rate >= 9 * peak THEN RefreshExcerpt(moment.excerpt, recent) ELSE moment.excerpt
                             /\ ex = RefreshExcerpt(moment.excerpt, recent) \/ ex = moment.excerpt
  <2>1. moment.excerpt \in Seq(Nat)
    BY DEF MomentRecords
  <2> QED
    BY <2>1, Zenon
<1>3. new = [moment EXCEPT !.peak = peak, !.excerpt = ex]
  BY <1>1, <1>2, Zenon DEF Advanced
<1>4. new \in MomentRecords /\ new.started = moment.started /\ new.peak = peak /\ new.excerpt = ex
  BY <1>3, Zenon DEF MomentRecords
<1> QED
  BY <1>1, <1>2, <1>4 DEF IsRaised

LEMMA MomentEnded ==
  ASSUME NEW moment \in MomentRecords, NEW now \in Nat, NEW new, new = [moment EXCEPT !.ended = now]
  PROVE  new \in MomentRecords /\ new.started = moment.started /\ new.peak = moment.peak /\ new.ended = now
BY Zenon DEF MomentRecords

IsObserved(new, cs, now, rate) ==
  /\ DOMAIN new = SpikeFields
  /\ new.buckets = cs.buckets /\ new.lastSeen = cs.lastSeen /\ new.known = cs.known /\ new.recent = cs.recent
  /\ new.cooldownUntil = cs.cooldownUntil
  /\ \/ new.inSpike = FALSE
     \/ /\ new.inSpike = TRUE /\ now >= cs.cooldownUntil /\ rate >= MinSpike
        /\ new.moment = [id |-> Len(avMoments) + 1, started |-> now, ended |-> 0, peak |-> rate, excerpt |-> cs.recent]
LEMMA Observed ==
  ASSUME NEW cs, DOMAIN cs = SpikeFields, cs.inSpike = FALSE, NEW now, NEW rate, NEW new, new = Observe(cs, now, rate)
  PROVE  IsObserved(new, cs, now, rate)
<1>1. PICK baseline : baseline = Learned(cs.baseline, rate)
  OBVIOUS
<1>2. PICK moment : moment = [id |-> Len(avMoments) + 1, started |-> now, ended |-> 0, peak |-> rate, excerpt |-> cs.recent]
  OBVIOUS
<1>3. new = IF Opens(cs, now, rate, baseline) THEN [cs EXCEPT !.baseline = baseline, !.inSpike = TRUE, !.quiet = 0, !.moment = moment]
            ELSE [cs EXCEPT !.baseline = baseline]
  BY <1>1, <1>2, Zenon DEF Observe
<1>4. CASE Opens(cs, now, rate, baseline)
  <2>1. new = [cs EXCEPT !.baseline = baseline, !.inSpike = TRUE, !.quiet = 0, !.moment = moment]
    BY <1>3, <1>4, Zenon
  <2>2. DOMAIN new = SpikeFields /\ new.moment = moment /\ new.inSpike = TRUE /\ new.cooldownUntil = cs.cooldownUntil
    BY <2>1, Zenon DEF SpikeFields
  <2>3. new.buckets = cs.buckets /\ new.lastSeen = cs.lastSeen /\ new.known = cs.known /\ new.recent = cs.recent
    BY <2>1, Zenon DEF SpikeFields
  <2>4. now >= cs.cooldownUntil /\ rate >= MinSpike
    BY <1>4, Zenon DEF Opens
  <2> QED
    BY <1>2, <2>2, <2>3, <2>4, Zenon DEF IsObserved
<1>5. CASE ~Opens(cs, now, rate, baseline)
  <2>1. new = [cs EXCEPT !.baseline = baseline]
    BY <1>3, <1>5, Zenon
  <2>2. DOMAIN new = SpikeFields /\ new.moment = cs.moment /\ new.inSpike = cs.inSpike /\ new.cooldownUntil = cs.cooldownUntil
    BY <2>1, Zenon DEF SpikeFields
  <2>3. new.buckets = cs.buckets /\ new.lastSeen = cs.lastSeen /\ new.known = cs.known /\ new.recent = cs.recent
    BY <2>1, Zenon DEF SpikeFields
  <2> QED
    BY <2>2, <2>3, Zenon DEF IsObserved
<1> QED
  BY <1>4, <1>5, Zenon DEF IsObserved

-----------------------------------------------------------------------------
(* The share that is kept.                                                   *)

SharesOf(feed) == [i \in DOMAIN feed |-> feed[i].share]
SurgeIn(feed) == {i \in DOMAIN feed : \A j \in i .. Len(feed) : feed[j].share >= 0}
KeptIn(feed) == {i \in SurgeIn(feed) : feed[i].share > 0 /\ feed[i].kept}
\* The kept messages of the surge are what is due, but for the fraction kept back.
Balanced(feed, keep) == SumOf(SharesOf(feed), SurgeIn(feed)) = Cardinality(KeptIn(feed)) * Scale + keep
SharesAt(first, keep, feed, now) ==
  /\ first \in Nat /\ first <= now /\ (first = 0 <=> feed = <<>>)
  /\ keep \in Nat /\ keep < Scale
  /\ \A i \in DOMAIN feed : feed[i].share >= -1 /\ feed[i].share < Scale
  /\ Balanced(feed, keep)
  /\ \A i \in DOMAIN feed : feed[i].by \in Privileged => feed[i].kept

LEMMA ShareBound ==
  ASSUME NEW x \in Nat, NEW total \in Nat \ {0}, x < total, NEW s \in Nat \ {0}, NEW d, d = (x * s) \div total
  PROVE  d \in Nat /\ d < s
<1>1. PICK y \in Nat : y = x * s
  OBVIOUS
<1>2. d \in Nat /\ y = total * d + (y % total) /\ y % total \in Nat
  <2>1. y = total * (y \div total) + (y % total) /\ y \div total \in Nat /\ y % total \in 0 .. total - 1
    BY Remainder
  <2>2. d = y \div total
    BY <1>1
  <2> QED
    BY <2>1, <2>2
<1>3. total * d <= y
  <2>1. total * d \in Nat
    BY <1>2
  <2> QED
    BY <1>2, <2>1
<1>4. ASSUME d >= s PROVE FALSE
  <2>1. PICK e \in Nat : d = s + e
    <3>1. d - s \in Nat /\ d = s + (d - s)
      BY <1>2, <1>4
    <3> QED
      BY <3>1
  <2>2. total * d = total * s + total * e /\ total * e >= 0 /\ total * s \in Nat /\ total * e \in Nat
    BY <2>1
  <2>3. PICK c \in Nat : total = x + c /\ c >= 1
    <3>1. total - x \in Nat /\ total = x + (total - x) /\ total - x >= 1
      OBVIOUS
    <3> QED
      BY <3>1
  <2>4. total * s = x * s + c * s /\ c * s >= 1 /\ c * s \in Nat
    <3>1. c * s = s + (c - 1) * s /\ (c - 1) * s >= 0
      BY <2>3
    <3>2. total * s = x * s + c * s /\ c * s \in Nat /\ (c - 1) * s \in Nat
      BY <2>3
    <3> QED
      BY <3>1, <3>2
  <2> QED
    BY <1>1, <1>3, <2>2, <2>4
<1> QED
  BY <1>2, <1>4

LEMMA NoBlocks == ASSUME NEW f PROVE SumOf(f, {}) = 0
<1>1. UNION {{i} \X (1 .. f[i]) : i \in {}} = {}
  OBVIOUS
<1> QED
  BY <1>1, FS_EmptySet, Zenon DEF SumOf

LEMMA BlocksFinite ==
  ASSUME NEW feed \in Seq(Messages), NEW T \in SUBSET DOMAIN feed, NEW s \in Nat, \A i \in DOMAIN feed : feed[i].share < s
  PROVE  IsFiniteSet(Blocks(SharesOf(feed), T))
<1>1. Len(feed) \in Nat /\ DOMAIN feed = 1 .. Len(feed)
  OBVIOUS
<1>2. IsFiniteSet(1 .. Len(feed)) /\ IsFiniteSet(1 .. s)
  BY <1>1, CardinalityUpTo
<1>3. IsFiniteSet((1 .. Len(feed)) \X (1 .. s))
  BY <1>2, FS_Product, Zenon
<1>4. ASSUME NEW i \in T PROVE {i} \X (1 .. SharesOf(feed)[i]) \subseteq (1 .. Len(feed)) \X (1 .. s)
  <2>1. i \in 1 .. Len(feed) /\ feed[i].share < s /\ feed[i].share \in Int
    <3>1. i \in DOMAIN feed /\ feed[i] \in Messages
      OBVIOUS
    <3>2. feed[i].share \in Int
      BY <3>1, Zenon DEF Messages
    <3> QED
      BY <1>1, <3>1, <3>2, Zenon
  <2>2. SharesOf(feed)[i] = feed[i].share
    BY DEF SharesOf
  <2>3. 1 .. feed[i].share \subseteq 1 .. s
    BY <2>1
  <2> QED
    BY <2>1, <2>2, <2>3
<1>5. Blocks(SharesOf(feed), T) \subseteq (1 .. Len(feed)) \X (1 .. s)
  BY <1>4 DEF Blocks
<1> QED
  BY <1>3, <1>5, FS_Subset

(* A message under the threshold ends the surge; another one belongs to it.   *)
LEMMA SurgeAppended ==
  ASSUME NEW feed \in Seq(Messages), NEW m \in Messages, NEW n, n = Len(feed), NEW more, more = Append(feed, m)
  PROVE  /\ m.share < 0 => SurgeIn(more) = {}
         /\ m.share >= 0 => SurgeIn(more) = SurgeIn(feed) \cup {n + 1}
<1>1. /\ n \in Nat /\ DOMAIN feed = 1 .. n /\ DOMAIN more = 1 .. n + 1 /\ Len(more) = n + 1
      /\ more[n + 1] = m /\ \A k \in 1 .. n : more[k] = feed[k]
  BY Appended
<1>2. m.share \in Int
  BY DEF Messages
<1>3. \A i \in 1 .. n + 1 : n + 1 \in i .. n + 1
  BY <1>1
<1>4. ASSUME m.share < 0 PROVE SurgeIn(more) = {}
  <2>1. ~(m.share >= 0)
    BY <1>2, <1>4
  <2> QED
    BY <1>1, <1>3, <2>1 DEF SurgeIn
<1>5. ASSUME m.share >= 0 PROVE SurgeIn(more) = SurgeIn(feed) \cup {n + 1}
  <2>1. n + 1 \in SurgeIn(more)
    <3>1. \A j \in n + 1 .. n + 1 : j = n + 1
      BY <1>1
    <3>2. n + 1 \in 1 .. n + 1
      BY <1>1
    <3> QED
      BY <1>1, <1>5, <3>1, <3>2 DEF SurgeIn
  <2>2. ASSUME NEW i \in 1 .. n PROVE i \in SurgeIn(more) <=> i \in SurgeIn(feed)
    <3>1. \A j : j \in i .. n + 1 <=> j \in i .. n \/ j = n + 1
      BY <1>1
    <3>2. \A j \in i .. n : more[j] = feed[j]
      BY <1>1
    <3>3. i \in 1 .. n + 1
      BY <1>1
    <3>4. (\A j \in i .. n + 1 : more[j].share >= 0) <=> (\A j \in i .. n : feed[j].share >= 0)
      BY <1>1, <1>5, <3>1, <3>2
    <3> QED
      BY <1>1, <3>3, <3>4 DEF SurgeIn
  <2>3. SurgeIn(more) \subseteq 1 .. n + 1 /\ SurgeIn(feed) \subseteq 1 .. n
    BY <1>1 DEF SurgeIn
  <2>4. \A i \in 1 .. n + 1 : i \in 1 .. n \/ i = n + 1
    BY <1>1
  <2>5. n + 1 \in 1 .. n + 1 /\ 1 .. n \subseteq 1 .. n + 1
    BY <1>1
  <2> QED
    BY <2>1, <2>2, <2>3, <2>4
<1> QED
  BY <1>4, <1>5

\* Of a message beyond the threshold the share is added to the fraction kept back.
Added(share, kept, keep, keep1) ==
  /\ share \in Nat /\ share < Scale /\ keep1 \in Nat /\ keep1 < Scale
  /\ keep + share = (IF kept /\ share > 0 THEN Scale ELSE 0) + keep1

LEMMA SharesAppended ==
  ASSUME Scale \in Nat \ {0}, NEW feed \in Seq(Messages), NEW m \in Messages, NEW more, more = Append(feed, m),
         NEW first, NEW keep, NEW now \in Nat, SharesAt(first, keep, feed, now),
         NEW keep1, Added(m.share, m.kept, keep, keep1)
  PROVE  Balanced(more, keep1)
<1>0. /\ m.share \in Nat /\ m.share < Scale /\ keep1 \in Nat /\ keep1 < Scale
      /\ keep + m.share = (IF m.kept /\ m.share > 0 THEN Scale ELSE 0) + keep1
  BY Zenon DEF Added
<1> DEFINE n == Len(feed)  S == SurgeIn(feed)  K == Cardinality(KeptIn(feed))
<1>1. /\ n \in Nat /\ DOMAIN feed = 1 .. n /\ DOMAIN more = 1 .. n + 1
      /\ more[n + 1] = m /\ \A k \in 1 .. n : more[k] = feed[k]
      /\ more \in Seq(Messages)
  BY Appended
<1>2. SurgeIn(more) = S \cup {n + 1} /\ S \subseteq 1 .. n
  <2>1. SurgeIn(more) = S \cup {n + 1}
    <3>1. m.share >= 0
      BY <1>0
    <3> QED
      BY <3>1, SurgeAppended
  <2> QED
    BY <1>1, <2>1 DEF SurgeIn
<1>3. n + 1 \notin 1 .. n
  BY <1>1
<1> HIDE DEF n, S
<1>4. /\ \A i \in DOMAIN feed : feed[i].share < Scale
      /\ SumOf(SharesOf(feed), S) = K * Scale + keep /\ keep \in Nat
  BY DEF SharesAt, Balanced, S
<1>5. Blocks(SharesOf(more), S) = Blocks(SharesOf(feed), S)
  <2>1. \A i \in S : SharesOf(more)[i] = SharesOf(feed)[i]
    BY <1>1, <1>2 DEF SharesOf
  <2> QED
    BY <2>1 DEF Blocks
<1>6. IsFiniteSet(Blocks(SharesOf(more), S))
  <2>1. IsFiniteSet(Blocks(SharesOf(feed), S))
    BY <1>1, <1>2, <1>4, BlocksFinite
  <2> QED
    BY <1>5, <2>1
<1>7. SharesOf(more)[n + 1] = m.share /\ m.share \in Nat
  BY <1>0, <1>1 DEF SharesOf
<1>8. SumOf(SharesOf(more), S \cup {n + 1}) = SumOf(SharesOf(more), S) + m.share
  <2>1. PICK f : f = SharesOf(more)
    OBVIOUS
  <2>2. n + 1 \notin S
    BY <1>2, <1>3
  <2>3. SumOf(f, S \cup {n + 1}) = SumOf(f, S) + f[n + 1]
    BY <1>6, <1>7, <2>1, <2>2, SumExtended
  <2> QED
    BY <1>7, <2>1, <2>3, Zenon
<1>9. SumOf(SharesOf(more), S) = SumOf(SharesOf(feed), S)
  BY <1>5, SumIsBlocks, Zenon
<1>10. KeptIn(feed) \subseteq 1 .. n /\ IsFiniteSet(KeptIn(feed)) /\ K \in Nat
  <2>1. KeptIn(feed) \subseteq S
    BY DEF KeptIn, S
  <2>2. KeptIn(feed) \in SUBSET DOMAIN feed
    BY <1>1, <1>2, <2>1
  <2> QED
    BY <1>1, <2>2, PartsFinite
<1>11. \A i \in S : more[i] = feed[i]
  BY <1>1, <1>2
<1>12. KeptIn(more) = IF m.kept /\ m.share > 0 THEN KeptIn(feed) \cup {n + 1} ELSE KeptIn(feed)
  <2>1. \A i \in S : i \in KeptIn(more) <=> i \in KeptIn(feed)
    BY <1>2, <1>11, Zenon DEF KeptIn, S
  <2>2. n + 1 \in KeptIn(more) <=> (m.kept /\ m.share > 0)
    BY <1>1, <1>2, Zenon DEF KeptIn
  <2>3. KeptIn(more) \subseteq S \cup {n + 1} /\ KeptIn(feed) \subseteq S
    BY <1>2 DEF KeptIn, S
  <2>4. CASE m.kept /\ m.share > 0
    <3>1. n + 1 \in KeptIn(more)
      BY <2>2, <2>4, Zenon
    <3>2. KeptIn(more) = KeptIn(feed) \cup {n + 1}
      BY <2>1, <2>3, <3>1
    <3> QED
      BY <2>4, <3>2, Zenon
  <2>5. CASE ~(m.kept /\ m.share > 0)
    <3>1. n + 1 \notin KeptIn(more)
      BY <2>2, <2>5, Zenon
    <3>2. KeptIn(more) = KeptIn(feed)
      BY <1>2, <1>3, <2>1, <2>3, <3>1
    <3> QED
      BY <2>5, <3>2, Zenon
  <2> QED
    BY <2>4, <2>5, Zenon
<1> HIDE DEF K
<1>13. SumOf(SharesOf(more), SurgeIn(more)) = K * Scale + keep + m.share
  BY <1>2, <1>4, <1>8, <1>9, Zenon
<1>14. PICK ks \in Nat : ks = K * Scale
  BY <1>10
<1>17. PICK sh \in Nat : sh = m.share
  BY <1>7
<1>15. CASE m.kept /\ m.share > 0
  <2>1. keep + m.share = Scale + keep1
    BY <1>0, <1>15, Zenon
  <2>2. Cardinality(KeptIn(more)) = K + 1
    <3>1. KeptIn(more) = KeptIn(feed) \cup {n + 1}
      BY <1>12, <1>15, Zenon
    <3>2. n + 1 \notin KeptIn(feed)
      BY <1>3, <1>10
    <3> QED
      BY <1>10, <3>1, <3>2, FS_AddElement DEF K
  <2>3. (K + 1) * Scale = ks + Scale
    BY <1>10, <1>14
  <2>4. ks + keep + m.share = ks + Scale + keep1
    <3>1. keep \in Nat /\ keep1 \in Nat /\ keep + sh = Scale + keep1
      BY <1>0, <1>4, <1>17, <2>1, Zenon
    <3>2. ks + keep + sh = ks + Scale + keep1
      BY <3>1
    <3> QED
      BY <1>17, <3>2, Zenon
  <2> QED
    BY <1>13, <1>14, <2>2, <2>3, <2>4, Zenon DEF Balanced
<1>16. CASE ~(m.kept /\ m.share > 0)
  <2>1. keep + m.share = 0 + keep1
    BY <1>0, <1>16, Zenon
  <2>2. Cardinality(KeptIn(more)) = K
    BY <1>12, <1>16, Zenon DEF K
  <2>3. ks + keep + m.share = ks + keep1
    <3>1. keep \in Nat /\ keep1 \in Nat /\ keep + sh = 0 + keep1
      BY <1>0, <1>4, <1>17, <2>1, Zenon
    <3>2. ks + keep + sh = ks + keep1
      BY <3>1
    <3> QED
      BY <1>17, <3>2, Zenon
  <2> QED
    BY <1>13, <1>14, <2>2, <2>3, Zenon DEF Balanced
<1> QED
  BY <1>15, <1>16, Zenon

\* What Annotate may decide, with keep before it and keep1 after it.
Decided(share, kept, keep, keep1, by) ==
  /\ kept \in BOOLEAN /\ (by \in Privileged => kept)
  /\ \/ share = -1 /\ keep1 = 0
     \/ Added(share, kept, keep, keep1)

LEMMA AdmitFields == ASSUME NEW a, NEW b, NEW r, r = [kept |-> a, keep |-> b] PROVE r.kept = a /\ r.keep = b
BY Zenon
ShownRecord(a, b, c, d, e) == [rate |-> [buckets |-> a, first |-> b, keep |-> c], kept |-> d, share |-> e]
IsShown(r, a, b, c, d, e) == r.rate.buckets = a /\ r.rate.first = b /\ r.rate.keep = c /\ r.kept = d /\ r.share = e
LEMMA ShownFields ==
  ASSUME NEW a, NEW b, NEW c, NEW d, NEW e, NEW r, r = ShownRecord(a, b, c, d, e)
  PROVE  IsShown(r, a, b, c, d, e)
<1>1. r.rate = [buckets |-> a, first |-> b, keep |-> c]
  BY Zenon DEF ShownRecord
<1>2. r.kept = d /\ r.share = e
  BY Zenon DEF ShownRecord
<1>3. r.rate.buckets = a /\ r.rate.first = b /\ r.rate.keep = c
  <2>1. \A x : x = [buckets |-> a, first |-> b, keep |-> c] => x.buckets = a /\ x.first = b /\ x.keep = c
    <3> TAKE x
    <3> HAVE x = [buckets |-> a, first |-> b, keep |-> c]
    <3> QED
      BY Zenon
  <2> QED
    BY <1>1, <2>1, Zenon
<1> QED
  BY <1>2, <1>3, Zenon DEF IsShown

LEMMA AdmitDecides ==
  ASSUME Scale \in Nat \ {0}, NEW keep \in Nat, keep < Scale, NEW share \in Nat, share < Scale,
         NEW admit, admit = Admit(keep, share), NEW by, by \notin Privileged
  PROVE  Decided(share, admit.kept, keep, admit.keep, by)
<1>1. CASE keep + share >= Scale
  <2>1. PICK keep1 \in Nat : keep1 = keep + share - Scale /\ keep1 < Scale /\ keep + share = Scale + keep1 /\ share > 0
    <3>1. keep + share - Scale \in Nat /\ keep + share - Scale < Scale
          /\ keep + share = Scale + (keep + share - Scale) /\ share > 0
      BY <1>1
    <3> QED
      BY <3>1
  <2>2. (keep + share >= Scale) = TRUE
    BY <1>1
  <2>3. admit = [kept |-> TRUE, keep |-> keep1]
    BY <2>1, <2>2, Zenon DEF Admit
  <2>4. admit.kept = TRUE /\ admit.keep = keep1
    BY <2>3, AdmitFields, Zenon
  <2> QED
    BY <2>1, <2>4, Zenon DEF Decided, Added
<1>2. CASE ~(keep + share >= Scale)
  <2>1. PICK keep1 \in Nat : keep1 = keep + share /\ keep1 < Scale /\ keep + share = 0 + keep1
    BY <1>2
  <2>2. (keep + share >= Scale) = FALSE
    BY <1>2
  <2>3. admit = [kept |-> FALSE, keep |-> keep1]
    BY <2>1, <2>2, Zenon DEF Admit
  <2>4. admit.kept = FALSE /\ admit.keep = keep1
    BY <2>3, AdmitFields, Zenon
  <2> QED
    BY <2>1, <2>4, Zenon DEF Decided, Added
<1> QED
  BY <1>1, <1>2

LEMMA SpanNumber ==
  ASSUME RateWindow \in Nat \ {0}, NEW first \in Nat, NEW now \in Nat, first <= now
  PROVE  Span(first, now) \in Nat
<1>1. now - first + 1 \in Nat
  OBVIOUS
<1> QED
  BY <1>1, MinOfTwo DEF Span

LEMMA Annotated ==
  ASSUME RateWindow \in Nat \ {0}, Scale \in Nat \ {0}, RateThreshold \in Nat,
         NEW author \in Authors, FeedAt(avFeed, avNow), BucketRing(avRate.buckets, RateWindow, avFeed, avNow),
         SharesAt(avRate.first, avRate.keep, avFeed, avNow),
         NEW shown, shown = Annotate(author)
  PROVE  /\ shown.rate.buckets = Recorded(avRate.buckets, RateWindow, avNow)
         /\ shown.rate.first = IF avRate.first = 0 THEN avNow ELSE avRate.first
         /\ Decided(shown.share, shown.kept, avRate.keep, shown.rate.keep, author)
<1>1. PICK first : first = IF avRate.first = 0 THEN avNow ELSE avRate.first
  OBVIOUS
<1>2. PICK ring_ : ring_ = RateRecord(avRate.buckets, avNow)
  OBVIOUS
<1>3. ring_ = Recorded(avRate.buckets, RateWindow, avNow)
  BY <1>2, Zenon DEF RateRecord, Recorded
<1>4. avNow \in Nat /\ avNow > 0
  BY NothingAtZero
<1>5. first \in Nat /\ first <= avNow /\ avRate.keep \in Nat /\ avRate.keep < Scale
  BY <1>1, <1>4 DEF SharesAt
<1>6. PICK total \in Nat : total = Total(ring_, avNow, RateWindow)
  <2>1. PICK m \in Messages : m = [at |-> avNow, by |-> author, share |-> 0, kept |-> TRUE] /\ m.at = avNow
    <3>1. TRUE \in BOOLEAN /\ 0 \in Int
      OBVIOUS
    <3>2. [at |-> avNow, by |-> author, share |-> 0, kept |-> TRUE] \in Messages
      BY <1>4, <3>1, Zenon DEF Messages
    <3> QED
      BY <3>2, Zenon
  <2>2. PICK more : more = Append(avFeed, m)
    OBVIOUS
  <2>3. BucketRing(ring_, RateWindow, more, avNow)
    BY <1>3, <2>1, <2>2, BucketRecorded
  <2>4. RingAt(avRate.buckets, RateWindow, avFeed, avNow) /\ RingAt(ring_, RateWindow, more, avNow)
    BY <2>3 DEF BucketRing
  <2>5. FeedAt(more, avNow)
    <3>1. avFeed \in Seq(Messages) /\ avNow \in Nat \ {0} /\ \A j \in DOMAIN avFeed : avFeed[j].at \in 1 .. avNow
      BY DEF FeedAt
    <3>2. PICK n : n = Len(avFeed)
      OBVIOUS
    <3>3. /\ more \in Seq(Messages) /\ DOMAIN more = 1 .. n + 1 /\ more[n + 1] = m /\ n \in Nat
          /\ \A k \in 1 .. n : more[k] = avFeed[k]
      BY <2>2, <3>1, <3>2, Appended
    <3>4. DOMAIN avFeed = 1 .. n
      BY <3>1, <3>2
    <3>5. \A j \in DOMAIN more : more[j].at \in 1 .. avNow
      <4> TAKE j \in DOMAIN more
      <4>1. CASE j = n + 1
        BY <2>1, <3>1, <3>3, <4>1
      <4>2. CASE j # n + 1
        <5>1. j \in 1 .. n
          BY <3>3, <4>2
        <5> QED
          BY <3>1, <3>3, <3>4, <5>1
      <4> QED
        BY <4>1, <4>2
    <3> QED
      BY <3>1, <3>3, <3>5 DEF FeedAt
  <2>6. Total(ring_, avNow, RateWindow) = Cardinality(LatelyIn(more, avNow, RateWindow))
    BY <2>4, <2>5, RingTotal
  <2>7. Cardinality(LatelyIn(more, avNow, RateWindow)) \in Nat
    <3>1. more \in Seq(Messages) /\ LatelyIn(more, avNow, RateWindow) \in SUBSET DOMAIN more
      BY <2>5 DEF FeedAt, LatelyIn
    <3> QED
      BY <3>1, PartsFinite
  <2> QED
    BY <2>6, <2>7
<1>7. PICK due \in Nat : due = RateThreshold * Span(first, avNow)
  BY <1>4, <1>5, SpanNumber
<1>8. PICK calm \in BOOLEAN : calm = (RateThreshold = 0 \/ total <= due)
  OBVIOUS
<1>9. PICK share : share = (due * Scale) \div total
  OBVIOUS
<1>10. PICK admit : admit = Admit(avRate.keep, share)
  OBVIOUS
<1>11. shown = IF calm THEN [rate |-> [buckets |-> ring_, first |-> first, keep |-> 0], kept |-> TRUE, share |-> -1]
               ELSE IF IsPriority(author)
                 THEN [rate |-> [buckets |-> ring_, first |-> first, keep |-> avRate.keep], kept |-> TRUE, share |-> 0]
               ELSE [rate |-> [buckets |-> ring_, first |-> first, keep |-> admit.keep], kept |-> admit.kept, share |-> share]
  BY <1>1, <1>2, <1>6, <1>7, <1>8, <1>9, <1>10, Zenon DEF Annotate
<1>12. CASE calm
  <2>1. shown.rate.buckets = ring_ /\ shown.rate.first = first /\ shown.rate.keep = 0 /\ shown.kept = TRUE /\ shown.share = -1
    <3>1. shown = ShownRecord(ring_, first, 0, TRUE, -1)
      BY <1>11, <1>12, Zenon DEF ShownRecord
    <3>2. IsShown(shown, ring_, first, 0, TRUE, -1)
      BY <3>1, ShownFields, Zenon
    <3> QED
      BY <3>2, Zenon DEF IsShown
  <2>2. Decided(shown.share, shown.kept, avRate.keep, shown.rate.keep, author)
    BY <2>1, Zenon DEF Decided
  <2> QED
    BY <1>1, <1>3, <2>1, <2>2, Zenon
<1>13. CASE ~calm /\ IsPriority(author)
  <2>1. /\ shown.rate.buckets = ring_ /\ shown.rate.first = first /\ shown.rate.keep = avRate.keep
        /\ shown.kept = TRUE /\ shown.share = 0
    <3>1. shown = ShownRecord(ring_, first, avRate.keep, TRUE, 0)
      BY <1>11, <1>13, Zenon DEF ShownRecord
    <3>2. IsShown(shown, ring_, first, avRate.keep, TRUE, 0)
      BY <3>1, ShownFields, Zenon
    <3> QED
      BY <3>2, Zenon DEF IsShown
  <2>2. ~(0 > 0) /\ 0 \in Nat /\ 0 < Scale /\ avRate.keep + 0 = 0 + avRate.keep
    BY <1>5
  <2>3. Decided(shown.share, shown.kept, avRate.keep, shown.rate.keep, author)
    BY <1>5, <2>1, <2>2, Zenon DEF Decided, Added
  <2> QED
    BY <1>1, <1>3, <2>1, <2>3, Zenon
<1>14. CASE ~calm /\ ~IsPriority(author)
  <2>1. /\ shown.rate.buckets = ring_ /\ shown.rate.first = first /\ shown.rate.keep = admit.keep
        /\ shown.kept = admit.kept /\ shown.share = share
    <3>1. shown = ShownRecord(ring_, first, admit.keep, admit.kept, share)
      BY <1>11, <1>14, Zenon DEF ShownRecord
    <3>2. IsShown(shown, ring_, first, admit.keep, admit.kept, share)
      BY <3>1, ShownFields, Zenon
    <3> QED
      BY <3>2, Zenon DEF IsShown
  <2>2. due < total /\ total \in Nat \ {0}
    <3>1. ~(total <= due)
      BY <1>8, <1>14, Zenon
    <3> QED
      BY <3>1
  <2>3. share \in Nat /\ share < Scale
    BY <1>9, <2>2, ShareBound
  <2>4. author \notin Privileged
    BY <1>14, Zenon DEF IsPriority
  <2>5. Decided(share, admit.kept, avRate.keep, admit.keep, author)
    BY <1>5, <1>10, <2>3, <2>4, AdmitDecides
  <2> QED
    BY <1>1, <1>3, <2>1, <2>5, Zenon
<1> QED
  BY <1>12, <1>13, <1>14, Zenon

LEMMA SharesRecorded ==
  ASSUME Scale \in Nat \ {0}, NEW now, NEW feed, FeedAt(feed, now), NEW m \in Messages, NEW more, more = Append(feed, m),
         NEW first, NEW keep, SharesAt(first, keep, feed, now),
         NEW first1, first1 = (IF first = 0 THEN now ELSE first),
         NEW keep1, Decided(m.share, m.kept, keep, keep1, m.by)
  PROVE  SharesAt(first1, keep1, more, now)
<1> DEFINE n == Len(feed)
<1>1. feed \in Seq(Messages) /\ now \in Nat /\ now > 0
  BY NothingAtZero DEF FeedAt
<1>2. /\ n \in Nat /\ DOMAIN feed = 1 .. n /\ DOMAIN more = 1 .. n + 1
      /\ more[n + 1] = m /\ \A k \in 1 .. n : more[k] = feed[k]
      /\ more \in Seq(Messages) /\ Len(more) = n + 1
  BY <1>1, Appended
<1> HIDE DEF n
<1>3. first \in Nat /\ first <= now /\ keep \in Nat /\ keep < Scale
  BY DEF SharesAt
<1>4. first1 \in Nat /\ first1 <= now /\ first1 # 0
  BY <1>1, <1>3
<1>5. more # <<>>
  BY <1>2
<1>6. \A i \in DOMAIN feed : feed[i].share >= -1 /\ feed[i].share < Scale /\ (feed[i].by \in Privileged => feed[i].kept)
  BY Zenon DEF SharesAt
<1>7. m.share \in Int
  BY Zenon DEF Messages
<1>8. m.share >= -1 /\ m.share < Scale /\ keep1 \in Nat /\ keep1 < Scale
  <2>1. CASE m.share = -1 /\ keep1 = 0
    BY <2>1
  <2>2. CASE Added(m.share, m.kept, keep, keep1)
    <3>1. m.share \in Nat /\ m.share < Scale /\ keep1 \in Nat /\ keep1 < Scale
      BY <2>2, Zenon DEF Added
    <3> QED
      BY <3>1
  <2> QED
    BY <2>1, <2>2, Zenon DEF Decided
<1>9. \A i \in DOMAIN more : more[i].share >= -1 /\ more[i].share < Scale
  <2> TAKE i \in DOMAIN more
  <2>1. i \in 1 .. n \/ i = n + 1
    BY <1>2
  <2> QED
    BY <1>2, <1>6, <1>8, <2>1, Zenon
<1>10. \A i \in DOMAIN more : more[i].by \in Privileged => more[i].kept
  <2> TAKE i \in DOMAIN more
  <2>1. i \in 1 .. n \/ i = n + 1
    BY <1>2
  <2>2. m.by \in Privileged => m.kept
    BY Zenon DEF Decided
  <2> QED
    BY <1>2, <1>6, <2>1, <2>2, Zenon
<1>11. Balanced(more, keep1)
  <2>1. CASE m.share = -1 /\ keep1 = 0
    <3>1. SurgeIn(more) = {}
      <4>1. m.share < 0
        BY <2>1
      <4> QED
        BY <1>1, <4>1, SurgeAppended
    <3>2. KeptIn(more) = {}
      BY <3>1 DEF KeptIn
    <3>3. Cardinality(KeptIn(more)) = 0 /\ 0 * Scale + 0 = 0
      BY <3>2, FS_EmptySet
    <3> QED
      BY <2>1, <3>1, <3>3, NoBlocks, Zenon DEF Balanced
  <2>2. CASE Added(m.share, m.kept, keep, keep1)
    <3>1. feed \in Seq(Messages) /\ now \in Nat
      BY <1>1
    <3> QED
      BY <2>2, <3>1, SharesAppended, Zenon
  <2> QED
    BY <2>1, <2>2, Zenon DEF Decided
<1> QED
  BY <1>4, <1>5, <1>8, <1>9, <1>10, <1>11, Zenon DEF SharesAt

LEMMA SharesAdvance ==
  ASSUME NEW first, NEW keep, NEW feed, NEW now \in Nat, NEW later \in Nat, now <= later, SharesAt(first, keep, feed, now)
  PROVE  SharesAt(first, keep, feed, later)
<1>1. first \in Nat /\ first <= now
  BY Zenon DEF SharesAt
<1>2. first <= later
  BY <1>1
<1> QED
  BY <1>2, Zenon DEF SharesAt

LEMMA SharesExact ==
  ASSUME Scale \in Nat \ {0}, NEW first, NEW keep, NEW now, FeedAt(avFeed, now), SharesAt(first, keep, avFeed, now)
  PROVE  ShareExact
<1>1. SurgeIn(avFeed) = Surge
  BY Zenon DEF SurgeIn, Surge
<1>2. PICK due : due = SumOf([i \in DOMAIN avFeed |-> avFeed[i].share], Surge)
  OBVIOUS
<1>3. PICK k : k = Cardinality({i \in Surge : avFeed[i].share > 0 /\ avFeed[i].kept})
  OBVIOUS
<1>4. k \in Nat
  <2>1. avFeed \in Seq(Messages)
    BY DEF FeedAt
  <2>2. {i \in Surge : avFeed[i].share > 0 /\ avFeed[i].kept} \in SUBSET DOMAIN avFeed
    BY DEF Surge
  <2> QED
    BY <1>3, <2>1, <2>2, PartsFinite
<1>5. due = k * Scale + keep
  BY <1>1, <1>2, <1>3, Zenon DEF SharesAt, Balanced, SharesOf, KeptIn
<1>6. keep \in Nat /\ keep < Scale
  BY DEF SharesAt
<1>7. k * Scale <= due /\ due < (k + 1) * Scale
  <2>1. PICK y \in Nat : y = k * Scale
    BY <1>4
  <2>2. (k + 1) * Scale = y + Scale
    BY <1>4, <2>1
  <2> QED
    BY <1>5, <1>6, <2>1, <2>2
<1>8. \A i \in DOMAIN avFeed : avFeed[i].by \in Privileged => avFeed[i].kept
  BY Zenon DEF SharesAt
<1> QED
  BY <1>2, <1>3, <1>7, <1>8, Zenon DEF ShareExact

-----------------------------------------------------------------------------
(* The excerpt of a moment, from the newest messages.                        *)

Half == ExcerptSize \div 2
HeadLen(ex) == IF Half <= Len(ex) THEN Half ELSE Len(ex)
Top(ex, h) == IF h = 0 THEN 0 ELSE ex[h]
Rising(s) == \A i, j \in 1 .. Len(s) : i < j => s[i] < s[j]
(* Of m messages the r newest are at hand. What follows the first h messages  *)
(* of the excerpt is new: either there are enough newer messages to fill it,  *)
(* or every message at hand is newer or one of the h.                         *)
Placed(ex, h, r, m) ==
  \/ m - Top(ex, h) >= ExcerptSize - h /\ r >= ExcerptSize - h
  \/ \A v \in m - r + 1 .. m : v > Top(ex, h) \/ \E k \in 1 .. h : ex[k] = v
ExcerptAt(ex, r, m) ==
  /\ ex \in Seq(Nat) /\ Len(ex) <= ExcerptSize /\ Rising(ex)
  /\ \A k \in 1 .. Len(ex) : ex[k] >= 1 /\ ex[k] <= m
  /\ Placed(ex, HeadLen(ex), r, m)
RecentAt(recent, m) ==
  /\ recent \in Seq(Nat) /\ Len(recent) <= ExcerptSize /\ Len(recent) <= m
  /\ \A k \in 1 .. Len(recent) : recent[k] = m - Len(recent) + k

LEMMA HalfNumber == ASSUME ExcerptSize \in Nat \ {0} PROVE Half \in Nat /\ Half < ExcerptSize
BY DEF Half

LEMMA RecentSlides ==
  ASSUME ExcerptSize \in Nat \ {0}, NEW m \in Nat, NEW recent, RecentAt(recent, m),
         NEW new, new = (LET all == Append(recent, m + 1) IN IF Len(all) > ExcerptSize THEN Tail(all) ELSE all)
  PROVE  RecentAt(new, m + 1) /\ Len(new) >= Len(recent) /\ Len(new) <= Len(recent) + 1
<1>1. /\ recent \in Seq(Nat) /\ Len(recent) <= ExcerptSize /\ Len(recent) <= m
      /\ \A k \in 1 .. Len(recent) : recent[k] = m - Len(recent) + k
  BY Zenon DEF RecentAt
<1>2. PICK r \in Nat : r = Len(recent) /\ r <= ExcerptSize /\ r <= m
  BY <1>1
<1>3. new = Slid(recent, m + 1, ExcerptSize)
  <2>1. PICK all : all = Append(recent, m + 1)
    OBVIOUS
  <2>2. all \in Seq(Nat) /\ Len(all) = r + 1
    <3>1. m + 1 \in Nat
      OBVIOUS
    <3> QED
      BY <1>1, <1>2, <2>1, <3>1, Appended
  <2>3. CASE r + 1 > ExcerptSize
    <3>1. Tail(all) = SubSeq(all, 2, Len(all))
      BY <2>2
    <3>2. Len(all) > ExcerptSize /\ Len(all) - ExcerptSize + 1 = 2
      BY <1>2, <2>2, <2>3
    <3> QED
      BY <2>1, <3>1, <3>2, Zenon DEF Slid
  <2>4. CASE ~(r + 1 > ExcerptSize)
    <3>1. ~(Len(all) > ExcerptSize)
      BY <2>2, <2>4
    <3> QED
      BY <2>1, <3>1, Zenon DEF Slid
  <2> QED
    BY <2>3, <2>4
<1>4. IsSlid(new, Nat, recent, m + 1, ExcerptSize)
  <2>1. m + 1 \in Nat
    OBVIOUS
  <2> QED
    BY <1>1, <1>3, <2>1, SlidKeeps, Zenon
<1>5. PICK k1 : k1 = More(r, ExcerptSize)
  OBVIOUS
<1>6. k1 \in Nat /\ k1 >= 1 /\ k1 >= r /\ k1 <= r + 1 /\ k1 <= ExcerptSize
  BY <1>2, <1>5 DEF More
<1>7. /\ new \in Seq(Nat) /\ Len(new) = k1 /\ new[k1] = m + 1
      /\ \A k \in 1 .. k1 : k # k1 => new[k] = recent[r + k + 1 - k1]
  BY <1>2, <1>4, <1>5, Zenon DEF IsSlid
<1>8. \A k \in 1 .. k1 : new[k] = (m + 1) - k1 + k
  <2> TAKE k \in 1 .. k1
  <2>1. CASE k = k1
    BY <1>6, <1>7, <2>1
  <2>2. CASE k # k1
    <3>1. r + k + 1 - k1 \in 1 .. r /\ m - r + (r + k + 1 - k1) = (m + 1) - k1 + k
      BY <1>2, <1>6, <2>2
    <3>2. recent[r + k + 1 - k1] = m - r + (r + k + 1 - k1)
      BY <1>1, <1>2, <3>1, Zenon
    <3> QED
      BY <1>7, <2>2, <3>1, <3>2, Zenon
  <2> QED
    BY <2>1, <2>2
<1>9. k1 <= m + 1
  BY <1>2, <1>6
<1>10. RecentAt(new, m + 1)
  BY <1>6, <1>7, <1>8, <1>9, Zenon DEF RecentAt
<1> QED
  BY <1>2, <1>6, <1>7, <1>10, Zenon

LEMMA TopBound ==
  ASSUME ExcerptSize \in Nat \ {0}, NEW ex \in Seq(Nat), NEW m \in Nat, \A k \in 1 .. Len(ex) : ex[k] >= 1 /\ ex[k] <= m,
         NEW h, h = HeadLen(ex)
  PROVE  h \in Nat /\ h <= Len(ex) /\ h <= Half /\ Top(ex, h) \in Nat /\ Top(ex, h) <= m
<1>1. Half \in Nat /\ Len(ex) \in Nat
  BY HalfNumber
<1>2. h \in Nat /\ h <= Len(ex) /\ h <= Half
  BY <1>1 DEF HeadLen
<1>3. CASE h = 0
  BY <1>2, <1>3 DEF Top
<1>4. CASE h # 0
  <2>1. h \in 1 .. Len(ex)
    BY <1>1, <1>2, <1>4
  <2>2. ex[h] \in Nat /\ ex[h] <= m
    BY <2>1
  <2> QED
    BY <1>2, <1>4, <2>2 DEF Top
<1> QED
  BY <1>3, <1>4

LEMMA ExcerptKept ==
  ASSUME ExcerptSize \in Nat \ {0}, NEW m \in Nat, NEW r \in Nat, NEW r1 \in Nat, r <= r1, r1 <= r + 1,
         NEW ex, ExcerptAt(ex, r, m)
  PROVE  ExcerptAt(ex, r1, m + 1)
<1>1. /\ ex \in Seq(Nat) /\ Len(ex) <= ExcerptSize /\ Rising(ex)
      /\ \A k \in 1 .. Len(ex) : ex[k] >= 1 /\ ex[k] <= m
      /\ Placed(ex, HeadLen(ex), r, m)
  BY Zenon DEF ExcerptAt
<1>2. PICK h : h = HeadLen(ex)
  OBVIOUS
<1>3. h \in Nat /\ h <= Half /\ Top(ex, h) \in Nat /\ Top(ex, h) <= m
  BY <1>1, <1>2, TopBound
<1>4. PICK t \in Nat : t = Top(ex, h) /\ t <= m
  BY <1>3
<1>5. \A k \in 1 .. Len(ex) : ex[k] >= 1 /\ ex[k] <= m + 1
  BY <1>1
<1>6. Placed(ex, h, r1, m + 1)
  <2>1. CASE m - t >= ExcerptSize - h /\ r >= ExcerptSize - h
    <3>1. m + 1 - t >= ExcerptSize - h /\ r1 >= ExcerptSize - h
      BY <1>3, <1>4, <2>1
    <3>2. (m + 1) - t >= ExcerptSize - h /\ r1 >= ExcerptSize - h
      BY <3>1
    <3> QED
      BY <1>4, <3>2, Zenon DEF Placed
  <2>2. CASE \A v \in m - r + 1 .. m : v > t \/ \E k \in 1 .. h : ex[k] = v
    <3>1. \A v \in (m + 1) - r1 + 1 .. m + 1 : v > t \/ \E k \in 1 .. h : ex[k] = v
      <4> TAKE v \in (m + 1) - r1 + 1 .. m + 1
      <4>1. CASE v = m + 1
        BY <1>4, <4>1
      <4>2. CASE v # m + 1
        <5>1. v \in m - r + 1 .. m
          BY <4>2
        <5> QED
          BY <2>2, <5>1, Zenon
      <4> QED
        BY <4>1, <4>2
    <3> QED
      BY <1>4, <3>1, Zenon DEF Placed
  <2> QED
    BY <1>1, <1>2, <1>4, <2>1, <2>2, Zenon DEF Placed
<1> QED
  BY <1>1, <1>2, <1>5, <1>6, Zenon DEF ExcerptAt

LEMMA ExcerptOpens ==
  ASSUME ExcerptSize \in Nat \ {0}, NEW m \in Nat, NEW recent, RecentAt(recent, m)
  PROVE  ExcerptAt(recent, Len(recent), m)
<1>1. /\ recent \in Seq(Nat) /\ Len(recent) <= ExcerptSize /\ Len(recent) <= m
      /\ \A k \in 1 .. Len(recent) : recent[k] = m - Len(recent) + k
  BY Zenon DEF RecentAt
<1>2. PICK r \in Nat : r = Len(recent) /\ r <= ExcerptSize /\ r <= m
  BY <1>1
<1>3. \A k \in 1 .. r : recent[k] = m - r + k
  BY <1>1, <1>2, Zenon
<1>4. \A k \in 1 .. r : recent[k] >= 1 /\ recent[k] <= m
  BY <1>2, <1>3
<1>5. \A i, j \in 1 .. r : i < j => recent[i] < recent[j]
  <2> TAKE i, j \in 1 .. r
  <2> HAVE i < j
  <2>1. m - r + i < m - r + j
    BY <1>2
  <2> QED
    BY <1>3, <2>1
<1>6. PICK h : h = HeadLen(recent)
  OBVIOUS
<1>7. h \in Nat /\ h <= r
  BY <1>1, <1>2, <1>4, <1>6, TopBound
<1>8. \A v \in m - r + 1 .. m : v > Top(recent, h) \/ \E k \in 1 .. h : recent[k] = v
  <2> TAKE v \in m - r + 1 .. m
  <2>1. PICK k \in 1 .. r : v = m - r + k
    <3>1. v - (m - r) \in 1 .. r /\ v = m - r + (v - (m - r))
      BY <1>2
    <3> QED
      BY <3>1
  <2>2. recent[k] = v
    BY <1>3, <2>1
  <2>3. CASE k <= h
    <3>1. k \in 1 .. h
      BY <1>7, <2>3
    <3> QED
      BY <2>2, <3>1
  <2>4. CASE ~(k <= h) /\ h = 0
    BY <1>2, <2>1, <2>4 DEF Top
  <2>5. CASE ~(k <= h) /\ h # 0
    <3>1. h \in 1 .. r
      BY <1>7, <2>5
    <3>2. recent[h] = m - r + h
      BY <1>3, <3>1
    <3> QED
      BY <1>2, <1>7, <2>1, <2>5, <3>2 DEF Top
  <2> QED
    BY <2>3, <2>4, <2>5
<1>9. Placed(recent, h, r, m)
  BY <1>8, Zenon DEF Placed
<1> QED
  BY <1>1, <1>2, <1>4, <1>5, <1>6, <1>9, Zenon DEF ExcerptAt, Rising

Fills(ex, h, p, r, m) ==
  p = ExcerptSize - h \/ \A v \in m - r + 1 .. m : v >= m - p + 1 \/ \E k \in 1 .. h : ex[k] = v
Blend(new, ex, h, p, r, m) ==
  /\ new \in Seq(Nat) /\ Len(new) = h + p
  /\ p \in Nat /\ p <= ExcerptSize - h /\ p <= r /\ p <= m - Top(ex, h)
  /\ \A k \in 1 .. h : new[k] = ex[k]
  /\ \A k \in 1 .. p : new[h + k] = m - p + k
\* The head of the excerpt, followed by the newest p messages, is an excerpt.
LEMMA Blended ==
  ASSUME ExcerptSize \in Nat \ {0}, NEW m \in Nat, NEW r \in Nat, r <= m, NEW ex, ExcerptAt(ex, r, m),
         NEW h, h = HeadLen(ex), NEW p, Fills(ex, h, p, r, m), NEW new, Blend(new, ex, h, p, r, m)
  PROVE  ExcerptAt(new, r, m)
<1>0. PICK t : t = Top(ex, h)
  OBVIOUS
<1>12. p \in Nat /\ p <= ExcerptSize - h /\ p <= r /\ p <= m - t
  BY <1>0, Zenon DEF Blend
<1>13. p = ExcerptSize - h \/ \A v \in m - r + 1 .. m : v >= m - p + 1 \/ \E k \in 1 .. h : ex[k] = v
  BY Zenon DEF Fills
<1>14. new \in Seq(Nat) /\ Len(new) = h + p
  BY Zenon DEF Blend
<1>15. \A k \in 1 .. h : new[k] = ex[k]
  BY Zenon DEF Blend
<1>16. \A k \in 1 .. p : new[h + k] = m - p + k
  BY Zenon DEF Blend
<1>1. /\ ex \in Seq(Nat) /\ Len(ex) <= ExcerptSize /\ Rising(ex)
      /\ \A k \in 1 .. Len(ex) : ex[k] >= 1 /\ ex[k] <= m
      /\ Placed(ex, h, r, m)
  BY Zenon DEF ExcerptAt
<1>2. h \in Nat /\ h <= Len(ex) /\ h <= Half /\ t \in Nat /\ t <= m /\ Len(ex) \in Nat
  <2>1. h \in Nat /\ h <= Len(ex) /\ h <= Half /\ Top(ex, h) \in Nat /\ Top(ex, h) <= m
    BY <1>1, TopBound
  <2>2. Len(ex) \in Nat
    BY <1>1
  <2> QED
    BY <1>0, <2>1, <2>2, Zenon
<1>3. Half \in Nat /\ Half < ExcerptSize
  BY HalfNumber
<1>4. \A k \in 1 .. h : ex[k] \in Nat /\ ex[k] >= 1 /\ ex[k] <= m /\ ex[k] <= t
  <2> TAKE k \in 1 .. h
  <2>1. k \in 1 .. Len(ex) /\ h \in 1 .. Len(ex)
    BY <1>2
  <2>2. ex[k] \in Nat /\ ex[k] >= 1 /\ ex[k] <= m
    BY <1>1, <2>1
  <2>3. t = ex[h]
    <3>1. h # 0
      BY <1>2
    <3> QED
      BY <1>0, <3>1 DEF Top
  <2>4. CASE k = h
    BY <1>2, <2>2, <2>3, <2>4
  <2>5. CASE k < h
    <3>1. ex[k] < ex[h]
      BY <1>1, <2>1, <2>5 DEF Rising
    <3> QED
      BY <1>2, <2>2, <2>3, <3>1
  <2> QED
    BY <1>2, <2>2, <2>4, <2>5
<1>5. \A k \in 1 .. h + p : \/ k \in 1 .. h /\ new[k] = ex[k]
                            \/ k > h /\ k - h \in 1 .. p /\ new[k] = m - p + (k - h)
  <2> TAKE k \in 1 .. h + p
  <2>1. CASE k <= h
    <3>1. k \in 1 .. h
      BY <1>2, <1>12, <2>1
    <3> QED
      BY <1>15, <3>1
  <2>2. CASE ~(k <= h)
    <3>1. k > h /\ k - h \in 1 .. p /\ h + (k - h) = k
      BY <1>2, <1>12, <2>2
    <3>2. new[h + (k - h)] = m - p + (k - h)
      BY <1>16, <3>1
    <3> QED
      BY <3>1, <3>2
  <2> QED
    BY <2>1, <2>2
<1>6. \A k \in 1 .. h + p : new[k] >= 1 /\ new[k] <= m
  <2> TAKE k \in 1 .. h + p
  <2>1. CASE k \in 1 .. h /\ new[k] = ex[k]
    BY <1>4, <2>1
  <2>2. CASE k > h /\ k - h \in 1 .. p /\ new[k] = m - p + (k - h)
    BY <1>2, <1>12, <2>2
  <2> QED
    BY <1>5, <2>1, <2>2
<1>7. \A i, j \in 1 .. h + p : i < j => new[i] < new[j]
  <2> TAKE i, j \in 1 .. h + p
  <2> HAVE i < j
  <2>1. CASE i > h /\ i - h \in 1 .. p /\ new[i] = m - p + (i - h)
    <3>1. j > h
      BY <1>2, <1>12, <2>1
    <3>2. new[j] = m - p + (j - h)
      BY <1>2, <1>5, <3>1
    <3> QED
      BY <1>2, <1>12, <2>1, <3>1, <3>2
  <2>2. CASE i \in 1 .. h /\ new[i] = ex[i]
    <3>1. CASE j \in 1 .. h /\ new[j] = ex[j]
      <4>1. i \in 1 .. Len(ex) /\ j \in 1 .. Len(ex)
        BY <1>2, <2>2, <3>1
      <4>2. ex[i] < ex[j]
        BY <1>1, <4>1 DEF Rising
      <4> QED
        BY <2>2, <3>1, <4>2
    <3>2. CASE j > h /\ j - h \in 1 .. p /\ new[j] = m - p + (j - h)
      <4>1. ex[i] \in Nat /\ ex[i] <= t
        BY <1>4, <2>2
      <4>2. t < m - p + (j - h)
        BY <1>2, <1>12, <3>2
      <4>3. new[i] < new[j]
        <5>1. PICK a \in Nat : a = ex[i] /\ a <= t
          BY <4>1
        <5>2. PICK b \in Int : b = m - p + (j - h)
          BY <1>2, <1>12, <3>2
        <5>3. a < b
          BY <1>2, <4>2, <5>1, <5>2
        <5> QED
          BY <2>2, <3>2, <5>1, <5>2, <5>3, Zenon
      <4> QED
        BY <4>3
    <3> QED
      BY <1>5, <3>1, <3>2
  <2> QED
    BY <1>5, <2>1, <2>2
<1>8. PICK h1 : h1 = HeadLen(new)
  OBVIOUS
<1>9. /\ h1 \in Nat /\ h <= h1 /\ h1 <= h + p /\ h1 <= Half
      /\ h1 = (IF Half <= h + p THEN Half ELSE h + p)
      /\ h = (IF Half <= Len(ex) THEN Half ELSE Len(ex))
  <2>1. h1 = (IF Half <= h + p THEN Half ELSE h + p)
    BY <1>8, <1>14, Zenon DEF HeadLen
  <2>2. h = (IF Half <= Len(ex) THEN Half ELSE Len(ex))
    BY Zenon DEF HeadLen
  <2> QED
    BY <1>2, <1>3, <1>12, <2>1, <2>2
<1>10. Placed(new, h1, r, m)
  <2>1. CASE h1 = h
    <3>1. Top(new, h1) = t
      <4>1. CASE h = 0
        BY <1>0, <2>1, <4>1 DEF Top
      <4>2. CASE h # 0
        <5>1. h \in 1 .. h
          BY <1>2, <4>2
        <5>2. new[h] = ex[h]
          BY <1>15, <5>1
        <5> QED
          BY <1>0, <2>1, <4>2, <5>2, Zenon DEF Top
      <4> QED
        BY <4>1, <4>2
    <3>2. CASE m - t >= ExcerptSize - h /\ r >= ExcerptSize - h
      BY <2>1, <3>1, <3>2, Zenon DEF Placed
    <3>3. CASE \A v \in m - r + 1 .. m : v > t \/ \E k \in 1 .. h : ex[k] = v
      <4>1. \A v \in m - r + 1 .. m : v > t \/ \E k \in 1 .. h : new[k] = v
        <5> TAKE v \in m - r + 1 .. m
        <5>1. v > t \/ \E k \in 1 .. h : ex[k] = v
          BY <3>3
        <5> QED
          BY <1>15, <5>1, Zenon
      <4> QED
        BY <2>1, <3>1, <4>1, Zenon DEF Placed
    <3> QED
      BY <1>0, <1>1, <3>2, <3>3, Zenon DEF Placed
  <2>2. CASE h1 # h
    <3>1. h1 > h /\ h1 - h \in 1 .. p /\ h1 # 0 /\ h1 \in 1 .. h + p
      BY <1>2, <1>9, <1>12, <2>2
    <3>2. PICK t1 : t1 = Top(new, h1)
      OBVIOUS
    <3>3. t1 = m - p + (h1 - h)
      <4>1. t1 = new[h1]
        BY <3>1, <3>2, Zenon DEF Top
      <4>2. h + (h1 - h) = h1
        BY <1>2, <1>9
      <4>3. new[h + (h1 - h)] = m - p + (h1 - h)
        BY <1>16, <3>1
      <4> QED
        BY <4>1, <4>2, <4>3
    <3>4. CASE p = ExcerptSize - h
      <4>1. m - t1 >= ExcerptSize - h1 /\ r >= ExcerptSize - h1
        <5>1. h \in Nat /\ h1 \in Nat /\ p \in Nat /\ p <= r /\ h1 > h
          BY <1>2, <1>9, <1>12, <3>1, Zenon
        <5>2. PICK e \in Nat : e = ExcerptSize
          OBVIOUS
        <5>3. p = e - h
          BY <3>4, <5>2
        <5>4. m - t1 >= e - h1 /\ r >= e - h1
          BY <3>3, <5>1, <5>3
        <5> QED
          BY <5>2, <5>4, Zenon
      <4> QED
        BY <3>2, <4>1, Zenon DEF Placed
    <3>5. CASE \A v \in m - r + 1 .. m : v >= m - p + 1 \/ \E k \in 1 .. h : ex[k] = v
      <4>1. \A v \in m - r + 1 .. m : v > t1 \/ \E k \in 1 .. h1 : new[k] = v
        <5> TAKE v \in m - r + 1 .. m
        <5>1. CASE \E k \in 1 .. h : ex[k] = v
          <6>1. PICK k \in 1 .. h : ex[k] = v
            BY <5>1
          <6>2. k \in 1 .. h1 /\ new[k] = v
            BY <1>2, <1>9, <1>15, <6>1
          <6> QED
            BY <6>2
        <5>2. CASE v >= m - p + 1 /\ ~(v > t1)
          <6>0. h \in Nat /\ h1 \in Nat /\ p \in Nat /\ h1 > h /\ v \in Int /\ v <= m
            <7>1. v \in Int /\ v <= m
              OBVIOUS
            <7> QED
              BY <1>2, <1>9, <1>12, <3>1, <7>1, Zenon
          <6>1. PICK k \in Int : k = v - (m - p)
            BY <6>0
          <6>2. k \in 1 .. p /\ h + k \in 1 .. h1 /\ m - p + k = v
            BY <3>3, <5>2, <6>0, <6>1
          <6>3. new[h + k] = v
            BY <1>16, <6>2
          <6> QED
            BY <6>2, <6>3
        <5> QED
          BY <3>5, <5>1, <5>2
      <4> QED
        BY <3>2, <4>1, Zenon DEF Placed
    <3> QED
      BY <1>13, <3>4, <3>5
  <2> QED
    BY <2>1, <2>2
<1>11. Len(new) <= ExcerptSize
  BY <1>2, <1>12, <1>14
<1> QED
  BY <1>6, <1>7, <1>8, <1>10, <1>11, <1>14, Zenon DEF ExcerptAt, Rising

\* The positions of recent messages that are not in the head reach down far enough.
LEMMA OthersTop ==
  ASSUME NEW m \in Nat, NEW r \in Nat, r <= m, NEW recent \in Seq(Nat), r = Len(recent),
         \A k \in 1 .. r : recent[k] = m - r + k,
         NEW head \in Seq(Nat), NEW t \in Nat, t <= m, \A k \in 1 .. Len(head) : head[k] <= t,
         NEW J, J = {i \in DOMAIN recent : ~Contains(head, recent[i])},
         NEW c, c = IF r <= m - t THEN r ELSE m - t
  PROVE  TopOf(J, r, c)
<1>1. c \in 0 .. r /\ c <= m - t /\ c \in Nat
  OBVIOUS
<1>2. J \in SUBSET (1 .. r)
  OBVIOUS
<1>3. ASSUME NEW i \in (r - c + 1) .. r PROVE i \in J
  <2>1. i \in 1 .. r /\ i > r - c
    BY <1>1, <1>3
  <2>2. recent[i] = m - r + i /\ m - r + i > t
    BY <1>1, <2>1
  <2>3. \A k \in 1 .. Len(head) : head[k] # recent[i]
    <3> TAKE k \in 1 .. Len(head)
    <3>1. head[k] \in Nat /\ head[k] <= t
      OBVIOUS
    <3>2. m - r + i \in Int
      BY <2>1
    <3> QED
      BY <2>2, <3>1, <3>2
  <2>4. ~Contains(head, recent[i])
    BY <2>3, Zenon DEF Contains
  <2>5. i \in DOMAIN recent
    BY <2>1
  <2> QED
    BY <2>4, <2>5
<1> QED
  BY <1>1, <1>2, <1>3, Zenon DEF TopOf

\* The newest p messages in their order.
LastOnes(tail, p, m) == tail \in Seq(Nat) /\ Len(tail) = p /\ \A k \in 1 .. p : tail[k] = m - p + k
LEMMA NewestInOrder ==
  ASSUME NEW m \in Nat, NEW recent, RecentAt(recent, m), NEW r, r = Len(recent),
         NEW p \in Nat, p <= r, NEW down, down = Downwards(recent, r, p), NEW tail, tail = Reverse(down)
  PROVE  LastOnes(tail, p, m)
<1>0. r \in Nat /\ r <= m /\ \A k \in 1 .. r : recent[k] = m - r + k
  <2>1. recent \in Seq(Nat) /\ r <= m /\ \A k \in 1 .. r : recent[k] = m - r + k
    BY Zenon DEF RecentAt
  <2> QED
    BY <2>1
<1>1. \A k \in 1 .. p : down[k] = m - k + 1 /\ down[k] \in Nat
  <2> TAKE k \in 1 .. p
  <2>1. r - k + 1 \in 1 .. r /\ m - r + (r - k + 1) = m - k + 1 /\ m - k + 1 \in Nat
    BY <1>0
  <2>2. down[k] = recent[r - k + 1]
    BY Zenon DEF Downwards
  <2> QED
    BY <1>0, <2>1, <2>2
<1>2. down \in [1 .. p -> Nat]
  <2>1. down = [k \in 1 .. p |-> down[k]]
    BY DEF Downwards
  <2> QED
    BY <1>1, <2>1, Zenon
<1>3. down \in Seq(Nat) /\ Len(down) = p
  BY <1>2, FunctionIsSeq
<1>4. tail = [i \in 1 .. p |-> down[(p - i) + 1]]
  BY <1>3, Zenon DEF Reverse
<1>5. \A k \in 1 .. p : tail[k] = m - p + k /\ tail[k] \in Nat
  <2> TAKE k \in 1 .. p
  <2>1. (p - k) + 1 \in 1 .. p /\ m - ((p - k) + 1) + 1 = m - p + k
    OBVIOUS
  <2>2. tail[k] = down[(p - k) + 1]
    BY <1>4, Zenon
  <2> QED
    BY <1>1, <2>1, <2>2
<1>6. tail \in [1 .. p -> Nat]
  <2>1. tail = [k \in 1 .. p |-> tail[k]]
    BY <1>4
  <2> QED
    BY <1>5, <2>1, Zenon
<1> QED
  <2>1. tail \in Seq(Nat) /\ Len(tail) = p
    BY <1>6, FunctionIsSeq
  <2> QED
    BY <1>5, <2>1, Zenon DEF LastOnes

LEMMA HeadOfSequence ==
  ASSUME NEW S, NEW s \in Seq(S), NEW h \in Nat, h <= Len(s), NEW head, head = SubSeq(s, 1, h)
  PROVE  head \in Seq(S) /\ Len(head) = h /\ \A k \in 1 .. h : head[k] = s[k]
OBVIOUS

AreParts(new, S, a, b) ==
  /\ new \in Seq(S) /\ Len(new) = Len(a) + Len(b)
  /\ \A k \in 1 .. Len(a) : new[k] = a[k]
  /\ \A k \in 1 .. Len(b) : new[Len(a) + k] = b[k]
LEMMA TwoParts ==
  ASSUME NEW S, NEW a \in Seq(S), NEW b \in Seq(S)
  PROVE  AreParts(a \o b, S, a, b)
<1>0. PICK h, p, new : h = Len(a) /\ p = Len(b) /\ new = a \o b
  OBVIOUS
<1> USE <1>0
<1>1. h \in Nat /\ p \in Nat
  OBVIOUS
<1>2. new \in Seq(S) /\ Len(new) = h + p
  OBVIOUS
<1>3. \A k \in 1 .. h : new[k] = a[k]
  BY <1>1
<1>4. ASSUME NEW k \in 1 .. p PROVE new[h + k] = b[k]
  <2>1. h + k \in 1 .. h + p /\ ~(h + k <= h) /\ (h + k) - h = k
    BY <1>1
  <2> QED
    BY <1>1, <2>1
<1> QED
  BY <1>2, <1>3, <1>4, Zenon DEF AreParts

LEMMA ExcerptRefreshed ==
  ASSUME ExcerptSize \in Nat \ {0}, NEW m \in Nat, NEW recent, RecentAt(recent, m),
         NEW ex, ExcerptAt(ex, Len(recent), m), NEW new, new = RefreshExcerpt(ex, recent)
  PROVE  ExcerptAt(new, Len(recent), m)
<1>1. PICK r : r = Len(recent)
  OBVIOUS
<1>2. recent \in Seq(Nat) /\ r <= ExcerptSize /\ r <= m /\ \A k \in 1 .. r : recent[k] = m - r + k
  BY <1>1, Zenon DEF RecentAt
<1>3. r \in Nat /\ DOMAIN recent = 1 .. r
  BY <1>1, <1>2
<1>4. /\ ex \in Seq(Nat) /\ Len(ex) <= ExcerptSize /\ Rising(ex)
      /\ \A k \in 1 .. Len(ex) : ex[k] >= 1 /\ ex[k] <= m
      /\ Placed(ex, HeadLen(ex), r, m)
  BY <1>1, Zenon DEF ExcerptAt
<1>5. PICK h : h = HeadLen(ex)
  OBVIOUS
<1>6. PICK t : t = Top(ex, h)
  OBVIOUS
<1>7. h \in Nat /\ h <= Len(ex) /\ h <= Half /\ t \in Nat /\ t <= m
  <2>1. h \in Nat /\ h <= Len(ex) /\ h <= Half /\ Top(ex, h) \in Nat /\ Top(ex, h) <= m
    BY <1>4, <1>5, TopBound
  <2> QED
    BY <1>6, <2>1, Zenon
<1>8. Len(ex) \in Nat /\ Half \in Nat /\ Half < ExcerptSize
  BY <1>4, HalfNumber
<1>9. h = Min({Half, Len(ex)})
  <2>1. Min({Half, Len(ex)}) = IF Half <= Len(ex) THEN Half ELSE Len(ex)
    BY <1>8, MinOfTwo
  <2> QED
    BY <1>5, <2>1, Zenon DEF HeadLen
<1>10. PICK head : head = SubSeq(ex, 1, h)
  OBVIOUS
<1>11. head \in Seq(Nat) /\ Len(head) = h /\ \A k \in 1 .. h : head[k] = ex[k]
  BY <1>4, <1>7, <1>10, HeadOfSequence
<1>12. \A k \in 1 .. Len(head) : head[k] <= t
  <2> TAKE k \in 1 .. Len(head)
  <2>1. k \in 1 .. h /\ k \in 1 .. Len(ex) /\ h \in 1 .. Len(ex) /\ h # 0
    BY <1>7, <1>8, <1>11
  <2>2. head[k] = ex[k] /\ t = ex[h] /\ ex[k] \in Nat
    BY <1>4, <1>6, <1>11, <2>1 DEF Top
  <2>3. CASE k = h
    BY <1>7, <2>2, <2>3
  <2>4. CASE k < h
    <3>1. ex[k] < ex[h]
      BY <1>4, <2>1, <2>4 DEF Rising
    <3> QED
      BY <1>7, <2>2, <3>1
  <2> QED
    BY <1>7, <2>1, <2>3, <2>4
<1>13. PICK J : J = {i \in DOMAIN recent : ~Contains(head, recent[i])}
  OBVIOUS
<1>14. PICK c : c = IF r <= m - t THEN r ELSE m - t
  OBVIOUS
<1>15. TopOf(J, r, c)
  BY <1>1, <1>2, <1>3, <1>7, <1>11, <1>12, <1>13, <1>14, OthersTop
<1>16. J \in SUBSET (1 .. r) /\ IsFiniteSet(J) /\ Cardinality(J) \in Nat /\ Cardinality(J) <= r
  <2>1. J \in SUBSET (1 .. r)
    BY <1>15, Zenon DEF TopOf
  <2>2. IsFiniteSet(1 .. r) /\ Cardinality(1 .. r) = r
    BY <1>3, CardinalityUpTo
  <2> QED
    BY <2>1, <2>2, FS_Subset, FS_CardinalityType
<1>17. PICK e : e = ExcerptSize - h
  OBVIOUS
<1>18. e \in Nat
  BY <1>7, <1>8, <1>17
<1>19. PICK p : p = Min({e, Cardinality(J)})
  OBVIOUS
<1>20. p \in Nat /\ p <= e /\ p <= Cardinality(J) /\ (p = e \/ p = Cardinality(J))
  BY <1>16, <1>18, <1>19, MinOfTwo
<1>22. p <= c
  <2>1. CASE m - t >= ExcerptSize - h /\ r >= ExcerptSize - h
    BY <1>3, <1>7, <1>14, <1>17, <1>20, <2>1
  <2>2. CASE \A v \in m - r + 1 .. m : v > t \/ \E k \in 1 .. h : ex[k] = v
    <3>1. J \subseteq r - c + 1 .. r
      <4> SUFFICES ASSUME NEW i \in J PROVE i \in r - c + 1 .. r
        OBVIOUS
      <4>1. i \in 1 .. r /\ recent[i] = m - r + i
        BY <1>2, <1>16
      <4>2. m - r + i \in m - r + 1 .. m
        BY <1>2, <1>3, <4>1
      <4>3. recent[i] > t \/ \E k \in 1 .. h : ex[k] = recent[i]
        BY <2>2, <4>1, <4>2
      <4>4. ~Contains(head, recent[i])
        BY <1>13
      <4>5. \A k \in 1 .. h : head[k] # recent[i]
        BY <1>11, <4>4, Zenon DEF Contains
      <4>6. recent[i] > t
        BY <1>11, <4>3, <4>5
      <4> QED
        BY <1>2, <1>3, <1>7, <1>14, <4>1, <4>6
    <3>2. IsFiniteSet(r - c + 1 .. r) /\ Cardinality(r - c + 1 .. r) = c
      <4>1. c \in Nat /\ c <= r
        BY <1>2, <1>3, <1>7, <1>14
      <4>2. IsFiniteSet(r - c + 1 .. r) /\ Cardinality(r - c + 1 .. r) = IF r - c + 1 > r THEN 0 ELSE r - (r - c + 1) + 1
        <5>1. r - c + 1 \in Int /\ r \in Int
          BY <1>3, <4>1
        <5> QED
          BY <5>1, FS_Interval
      <4>3. (IF r - c + 1 > r THEN 0 ELSE r - (r - c + 1) + 1) = c
        BY <1>3, <4>1
      <4> QED
        BY <4>2, <4>3
    <3>3. Cardinality(J) <= c
      BY <3>1, <3>2, FS_Subset
    <3> QED
      <4>1. c \in Int
        BY <1>2, <1>3, <1>7, <1>14
      <4> QED
        BY <1>16, <1>20, <3>3, <4>1
  <2> QED
    BY <1>4, <1>5, <1>6, <2>1, <2>2, Zenon DEF Placed
<1>23. p <= r /\ p <= m - t
  BY <1>2, <1>3, <1>7, <1>14, <1>20, <1>22
<1>24. PICK down : down = NewestAt(recent, J, e)
  OBVIOUS
<1>25. down = Downwards(recent, r, p)
  BY <1>15, <1>18, <1>19, <1>22, <1>24, NewestTop
<1>26. PICK tail : tail = Reverse(down)
  OBVIOUS
<1>27. tail \in Seq(Nat) /\ Len(tail) = p /\ \A k \in 1 .. p : tail[k] = m - p + k
  <2>1. LastOnes(tail, p, m)
    BY <1>1, <1>20, <1>23, <1>25, <1>26, NewestInOrder
  <2> QED
    BY <2>1, Zenon DEF LastOnes
<1>28. new = head \o tail
  <2>1. Half = ExcerptSize \div 2
    BY DEF Half
  <2>2. new = SubSeq(ex, 1, Min({Half, Len(ex)}))
              \o Reverse(NewestAt(recent, {i \in DOMAIN recent : ~Contains(SubSeq(ex, 1, Min({Half, Len(ex)})), recent[i])},
                                  ExcerptSize - Len(SubSeq(ex, 1, Min({Half, Len(ex)})))))
    BY <2>1, Zenon DEF RefreshExcerpt
  <2> QED
    BY <1>9, <1>10, <1>11, <1>13, <1>17, <1>24, <1>26, <2>2, Zenon
<1>29. /\ new \in Seq(Nat) /\ Len(new) = h + p
       /\ \A k \in 1 .. h : new[k] = head[k]
       /\ \A k \in 1 .. p : new[h + k] = tail[k]
  <2>1. AreParts(new, Nat, head, tail)
    BY <1>11, <1>27, <1>28, TwoParts, Zenon
  <2> QED
    BY <1>11, <1>27, <2>1, Zenon DEF AreParts
<1>30. Blend(new, ex, h, p, r, m)
  BY <1>6, <1>11, <1>17, <1>20, <1>23, <1>27, <1>29, Zenon DEF Blend
<1>31. Fills(ex, h, p, r, m)
  <2>1. CASE p = e
    BY <1>17, <2>1, Zenon DEF Fills
  <2>2. CASE p = Cardinality(J)
    <3>1. r - p + 1 .. r \in SUBSET J
      <4>1. c \in Int /\ \A i \in r - p + 1 .. r : i \in (r - c + 1) .. r
        BY <1>2, <1>3, <1>7, <1>14, <1>20, <1>22
      <4> QED
        BY <1>15, <4>1 DEF TopOf
    <3>2. IsFiniteSet(r - p + 1 .. r) /\ Cardinality(r - p + 1 .. r) = p
      <4>2. IsFiniteSet(r - p + 1 .. r) /\ Cardinality(r - p + 1 .. r) = IF r - p + 1 > r THEN 0 ELSE r - (r - p + 1) + 1
        <5>1. r - p + 1 \in Int /\ r \in Int
          BY <1>3, <1>20
        <5> QED
          BY <5>1, FS_Interval
      <4>3. (IF r - p + 1 > r THEN 0 ELSE r - (r - p + 1) + 1) = p
        BY <1>3, <1>20, <1>23
      <4> QED
        BY <4>2, <4>3
    <3>3. r - p + 1 .. r = J
      BY <1>16, <2>2, <3>1, <3>2, FS_Subset
    <3>4. \A v \in m - r + 1 .. m : v >= m - p + 1 \/ \E k \in 1 .. h : ex[k] = v
      <4> TAKE v \in m - r + 1 .. m
      <4>1. PICK i \in 1 .. r : v = m - r + i
        <5>1. v - (m - r) \in 1 .. r /\ v = m - r + (v - (m - r))
          BY <1>2, <1>3
        <5> QED
          BY <5>1
      <4>2. recent[i] = v
        BY <1>2, <4>1
      <4>3. CASE i \in J
        <5>1. i \in r - p + 1 .. r
          BY <3>3, <4>3
        <5> QED
          BY <1>3, <1>20, <4>1, <5>1
      <4>4. CASE i \notin J
        <5>1. Contains(head, v)
          BY <1>3, <1>13, <4>2, <4>4
        <5>2. PICK k \in 1 .. h : head[k] = v
          BY <1>11, <5>1, Zenon DEF Contains
        <5> QED
          BY <1>11, <5>2, Zenon
      <4> QED
        BY <4>3, <4>4
    <3> QED
      BY <3>4, Zenon DEF Fills
  <2> QED
    BY <1>20, <2>1, <2>2
<1>32. ExcerptAt(ex, r, m)
  BY <1>1, Zenon
<1>33. ExcerptAt(new, r, m)
  BY <1>2, <1>3, <1>5, <1>30, <1>31, <1>32, Blended
<1> QED
  BY <1>1, <1>33, Zenon

-----------------------------------------------------------------------------
(* The moments and the cooldown between them, of any feed at any time.       *)

ResumedIn(feed, t) == \E i \in 1 .. Len(feed) - 1 : feed[i + 1].at = t /\ t - feed[i].at > IdleTimeout
ApartIn(feed, ended, started) ==
  started >= ended + Cooldown \/ \E t \in ended .. started : ResumedIn(feed, t)
Silent(feed, now) == Len(feed) > 0 /\ now - feed[Len(feed)].at > IdleTimeout
\* After a moment that ended then the detector is cooling down, unless the
\* channel was dropped since, or is about to resume after it was dropped.
Cooled(known, until, ended, feed, now) ==
  \/ until >= ended + Cooldown
  \/ \E t \in ended .. now : ResumedIn(feed, t)
  \/ known = FALSE /\ Silent(feed, now)
OpenAt(moment, r, m, now) ==
  /\ moment \in MomentRecords /\ moment.started <= now /\ moment.peak >= MinSpike
  /\ ExcerptAt(moment.excerpt, r, m)
SpikeAt(cs, feed, now) ==
  /\ DOMAIN cs = SpikeFields
  /\ BucketRing(cs.buckets, MomentWindow, feed, now)
  /\ cs.known \in BOOLEAN /\ cs.inSpike \in BOOLEAN
  /\ cs.lastSeen \in Nat /\ cs.cooldownUntil \in Nat
  /\ cs.known = TRUE => Len(feed) > 0 /\ \A j \in DOMAIN feed : feed[j].at <= cs.lastSeen
  /\ RecentAt(cs.recent, Len(feed))
  /\ cs.inSpike = TRUE => OpenAt(cs.moment, Len(cs.recent), Len(feed), now)
MomentsAt(cs, moments, feed, now) ==
  /\ moments \in Seq(MomentRecords)
  /\ \A i \in DOMAIN moments : moments[i].peak >= MinSpike /\ moments[i].ended <= now
  /\ \A i \in 1 .. Len(moments) - 1 : ApartIn(feed, moments[i].ended, moments[i + 1].started)
  /\ Len(moments) > 0 => Cooled(cs.known, cs.cooldownUntil, moments[Len(moments)].ended, feed, now)
  /\ Len(moments) > 0 /\ cs.inSpike = TRUE => ApartIn(feed, moments[Len(moments)].ended, cs.moment.started)

(* A silence stays in the feed when messages follow.                         *)
LEMMA ResumedStays ==
  ASSUME NEW feed \in Seq(Messages), NEW m \in Messages, NEW t, ResumedIn(feed, t)
  PROVE  ResumedIn(Append(feed, m), t)
<1>1. PICK i \in 1 .. Len(feed) - 1 : feed[i + 1].at = t /\ t - feed[i].at > IdleTimeout
  BY DEF ResumedIn
<1>2. PICK more : more = Append(feed, m)
  OBVIOUS
<1>3. PICK n \in Nat : n = Len(feed)
  OBVIOUS
<1>4. Len(more) = n + 1 /\ \A k \in 1 .. n : more[k] = feed[k]
  BY <1>2, <1>3, Appended
<1>5. i \in 1 .. n /\ i + 1 \in 1 .. n /\ i \in 1 .. (n + 1) - 1
  BY <1>3
<1>6. more[i] = feed[i] /\ more[i + 1] = feed[i + 1]
  BY <1>4, <1>5, Zenon
<1> QED
  BY <1>1, <1>2, <1>4, <1>5, <1>6, Zenon DEF ResumedIn

(* Two moments that are apart stay so.                                       *)
LEMMA ApartStays ==
  ASSUME NEW feed \in Seq(Messages), NEW m \in Messages, NEW e, NEW s, ApartIn(feed, e, s)
  PROVE  ApartIn(Append(feed, m), e, s)
BY ResumedStays, Zenon DEF ApartIn

(* The message that ends a silence is a resumption.                          *)
LEMMA SilenceEnds ==
  ASSUME NEW now \in Nat, NEW feed \in Seq(Messages), NEW m \in Messages, m.at = now, Silent(feed, now)
  PROVE  ResumedIn(Append(feed, m), now)
<1>1. PICK n \in Nat : n = Len(feed) /\ n > 0
  BY DEF Silent
<1>2. PICK more : more = Append(feed, m)
  OBVIOUS
<1>3. Len(more) = n + 1 /\ (\A k \in 1 .. n : more[k] = feed[k]) /\ more[n + 1] = m
  BY <1>1, <1>2, Appended
<1>4. n \in 1 .. n /\ n \in 1 .. (n + 1) - 1
  BY <1>1
<1>5. now - feed[n].at > IdleTimeout
  BY <1>1, Zenon DEF Silent
<1> QED
  BY <1>2, <1>3, <1>4, <1>5, Zenon DEF ResumedIn

(* What cools down keeps cooling down as time passes and messages come.      *)
LEMMA CooledLater ==
  ASSUME IdleTimeout \in Nat, NEW known, NEW until, NEW ended \in Nat, NEW now \in Nat, NEW later \in Nat, now <= later,
         NEW feed \in Seq(Messages), Cooled(known, until, ended, feed, now)
  PROVE  Cooled(known, until, ended, feed, later)
<1>1. CASE until >= ended + Cooldown
  BY <1>1, Zenon DEF Cooled
<1>2. CASE \E t \in ended .. now : ResumedIn(feed, t)
  <2>1. PICK t \in ended .. now : ResumedIn(feed, t)
    BY <1>2
  <2>2. t \in ended .. later
    OBVIOUS
  <2> QED
    BY <2>1, <2>2, Zenon DEF Cooled
<1>3. CASE known = FALSE /\ Silent(feed, now)
  <2>1. PICK n \in Nat : n = Len(feed) /\ n > 0
    BY <1>3 DEF Silent
  <2>2. feed[n] \in Messages
    BY <2>1
  <2>3. PICK a \in Nat : a = feed[n].at
    BY <2>2, Zenon DEF Messages
  <2>4. now - a > IdleTimeout
    BY <1>3, <2>1, <2>3, Zenon DEF Silent
  <2>5. later - a > IdleTimeout
    BY <2>4
  <2> QED
    BY <1>3, <2>1, <2>3, <2>5, Zenon DEF Silent, Cooled
<1> QED
  BY <1>1, <1>2, <1>3, Zenon DEF Cooled

LEMMA CooledReceives ==
  ASSUME NEW known, NEW until, NEW ended \in Nat, NEW now \in Nat, ended <= now,
         NEW feed \in Seq(Messages), NEW m \in Messages, m.at = now, Cooled(known, until, ended, feed, now)
  PROVE  Cooled(TRUE, until, ended, Append(feed, m), now)
<1>1. CASE until >= ended + Cooldown
  BY <1>1, Zenon DEF Cooled
<1>2. CASE \E t \in ended .. now : ResumedIn(feed, t)
  BY <1>2, ResumedStays, Zenon DEF Cooled
<1>3. CASE known = FALSE /\ Silent(feed, now)
  <2>1. now \in ended .. now
    OBVIOUS
  <2> QED
    BY <1>3, <2>1, SilenceEnds, Zenon DEF Cooled
<1> QED
  BY <1>1, <1>2, <1>3, Zenon DEF Cooled

(* The state of a channel of which nothing is kept.                          *)
LEMMA NoSpikeAt ==
  ASSUME MomentWindow \in Nat \ {0}, ExcerptSize \in Nat \ {0}, NEW feed, NEW now, FeedAt(feed, now),
         \A j \in DOMAIN feed : ~(now - feed[j].at < MomentWindow)
  PROVE  SpikeAt(NoSpike, feed, now)
<1>1. PICK ring_ : ring_ = EmptyRing(MomentWindow, [sec |-> 0, count |-> 0])
  OBVIOUS
<1>2. BucketRing(ring_, MomentWindow, feed, now)
  BY <1>1, EmptyBuckets
<1>3. NoSpike.buckets = ring_
  BY <1>1, Zenon DEF NoSpike
<1>4. NoSpike.known = FALSE /\ NoSpike.inSpike = FALSE /\ NoSpike.lastSeen = 0 /\ NoSpike.cooldownUntil = 0
      /\ NoSpike.recent = <<>>
  BY Zenon DEF NoSpike
<1>5. RecentAt(<<>>, Len(feed))
  BY DEF RecentAt, FeedAt
<1>6. 0 \in Nat /\ TRUE \in BOOLEAN /\ FALSE \in BOOLEAN /\ TRUE # FALSE
  OBVIOUS
<1> QED
  BY <1>2, <1>3, <1>4, <1>5, <1>6, NoSpikeFields, Zenon DEF SpikeAt

LEMMA OpenLater ==
  ASSUME NEW moment, NEW r, NEW m, NEW now \in Nat, NEW later \in Nat, now <= later, OpenAt(moment, r, m, now)
  PROVE  OpenAt(moment, r, m, later)
<1>1. moment.started <= now /\ moment \in MomentRecords
  BY Zenon DEF OpenAt
<1>2. moment.started \in Nat
  BY <1>1, Zenon DEF MomentRecords
<1>3. moment.started <= later
  BY <1>1, <1>2
<1> QED
  BY <1>3, Zenon DEF OpenAt

LEMMA SpikeLater ==
  ASSUME MomentWindow \in Nat \ {0}, NEW cs, NEW feed, NEW now \in Nat, NEW later \in Nat, now <= later,
         FeedAt(feed, now), SpikeAt(cs, feed, now)
  PROVE  SpikeAt(cs, feed, later)
<1>1. BucketRing(cs.buckets, MomentWindow, feed, later)
  <2>1. BucketRing(cs.buckets, MomentWindow, feed, now)
    BY Zenon DEF SpikeAt
  <2>2. RingAt(cs.buckets, MomentWindow, feed, later)
    BY <2>1, RingAdvances DEF BucketRing
  <2> QED
    BY <2>1, <2>2, Zenon DEF BucketRing
<1>2. cs.inSpike = TRUE => OpenAt(cs.moment, Len(cs.recent), Len(feed), later)
  BY OpenLater, Zenon DEF SpikeAt
<1> QED
  BY <1>1, <1>2, Zenon DEF SpikeAt

LEMMA SpikeReceives ==
  ASSUME MomentWindow \in Nat \ {0}, ExcerptSize \in Nat \ {0}, NEW cs, NEW feed, NEW now, FeedAt(feed, now),
         SpikeAt(cs, feed, now), NEW m \in Messages, m.at = now,
         NEW new, new = SpikeRecord(cs, now, Len(feed) + 1)
  PROVE  SpikeAt(new, Append(feed, m), now)
<1>1. PICK more : more = Append(feed, m)
  OBVIOUS
<1>2. PICK n \in Nat : n = Len(feed)
  BY DEF FeedAt
<1>3. /\ feed \in Seq(Messages) /\ now \in Nat
      /\ \A j \in DOMAIN feed : feed[j].at <= now
  BY DEF FeedAt
<1>4. /\ Len(more) = n + 1 /\ DOMAIN more = 1 .. n + 1 /\ more[n + 1] = m
      /\ \A k \in 1 .. n : more[k] = feed[k]
  BY <1>1, <1>2, <1>3, Appended
<1>5. DOMAIN cs = SpikeFields
  BY Zenon DEF SpikeAt
<1>6. /\ DOMAIN new = SpikeFields
      /\ new.buckets = Recorded(cs.buckets, MomentWindow, now)
      /\ new.lastSeen = now /\ new.known = TRUE
      /\ new.recent = (LET all == Append(cs.recent, n + 1) IN IF Len(all) > ExcerptSize THEN Tail(all) ELSE all)
      /\ new.inSpike = cs.inSpike /\ new.moment = cs.moment /\ new.cooldownUntil = cs.cooldownUntil
  <2>1. IsRecorded(new, cs, now, n + 1)
    BY <1>2, <1>5, SpikeRecorded
  <2> QED
    BY <2>1, Zenon DEF IsRecorded
<1>7. BucketRing(new.buckets, MomentWindow, more, now)
  <2>1. BucketRing(cs.buckets, MomentWindow, feed, now)
    BY Zenon DEF SpikeAt
  <2>2. BucketRing(Recorded(cs.buckets, MomentWindow, now), MomentWindow, more, now)
    BY <1>1, <2>1, BucketRecorded
  <2> QED
    BY <1>6, <2>2, Zenon
<1>8. RecentAt(cs.recent, n)
  BY <1>2, Zenon DEF SpikeAt
<1>9. PICK recent1 : recent1 = new.recent
  OBVIOUS
<1>10. RecentAt(recent1, n + 1) /\ Len(recent1) >= Len(cs.recent) /\ Len(recent1) <= Len(cs.recent) + 1
  BY <1>6, <1>8, <1>9, RecentSlides
<1>11. Len(recent1) \in Nat /\ Len(cs.recent) \in Nat
  <2>1. recent1 \in Seq(Nat) /\ cs.recent \in Seq(Nat)
    BY <1>8, <1>10, Zenon DEF RecentAt
  <2> QED
    BY <2>1
<1>12. new.inSpike = TRUE => OpenAt(new.moment, Len(recent1), n + 1, now)
  <2> HAVE new.inSpike = TRUE
  <2>1. OpenAt(cs.moment, Len(cs.recent), n, now)
    BY <1>2, <1>6, Zenon DEF SpikeAt
  <2>2. PICK r \in Nat, r1 \in Nat : r = Len(cs.recent) /\ r1 = Len(recent1) /\ r <= r1 /\ r1 <= r + 1
    BY <1>10, <1>11
  <2>3. PICK ex : ex = cs.moment.excerpt
    OBVIOUS
  <2>4. ExcerptAt(ex, r, n)
    BY <2>1, <2>2, <2>3, Zenon DEF OpenAt
  <2>5. ExcerptAt(ex, r1, n + 1)
    BY <2>2, <2>4, ExcerptKept
  <2> QED
    BY <1>6, <2>1, <2>2, <2>3, <2>5, Zenon DEF OpenAt
<1>13. n + 1 > 0 /\ \A j \in DOMAIN more : more[j].at <= now
  <2>1. \A j \in 1 .. n + 1 : j \in 1 .. n \/ j = n + 1
    BY OneMore
  <2>2. DOMAIN feed = 1 .. n /\ m.at <= now /\ n + 1 > 0
    BY <1>2, <1>3
  <2> QED
    BY <1>3, <1>4, <2>1, <2>2, Zenon
<1>14. cs.inSpike \in BOOLEAN /\ cs.cooldownUntil \in Nat
  BY Zenon DEF SpikeAt
<1>15. SpikeAt(new, more, now)
  <2>1. TRUE \in BOOLEAN
    OBVIOUS
  <2> QED
    BY <2>1, <1>3, <1>4, <1>6, <1>7, <1>9, <1>10, <1>12, <1>13, <1>14, Zenon DEF SpikeAt
<1> QED
  BY <1>1, <1>15, Zenon

(* A tick within a moment.                                                   *)
Risen(new, cs, feed, now) ==
  /\ SpikeAt(new, feed, now) /\ new.known = cs.known
  /\ OpenAt(new.moment, Len(cs.recent), Len(feed), now) /\ new.moment.started = cs.moment.started
  /\ \/ new.inSpike = TRUE /\ new.cooldownUntil = cs.cooldownUntil
     \/ new.inSpike = FALSE /\ new.cooldownUntil = now + Cooldown
LEMMA SpikeAdvances ==
  ASSUME ExcerptSize \in Nat \ {0}, MinSpike \in Nat, Cooldown \in Nat,
         NEW cs, NEW feed, NEW now \in Nat, FeedAt(feed, now), SpikeAt(cs, feed, now), cs.inSpike = TRUE,
         NEW rate \in Nat, NEW new, new = AdvanceSpike(cs, now, rate)
  PROVE  Risen(new, cs, feed, now)
<1>1. DOMAIN cs = SpikeFields
  BY Zenon DEF SpikeAt
<1>2. /\ DOMAIN new = SpikeFields
      /\ new.buckets = cs.buckets /\ new.lastSeen = cs.lastSeen /\ new.known = cs.known /\ new.recent = cs.recent
      /\ new.moment = Advanced(cs.moment, rate, cs.recent)
      /\ \/ new.inSpike = TRUE /\ new.cooldownUntil = cs.cooldownUntil
         \/ new.inSpike = FALSE /\ new.cooldownUntil = now + Cooldown
  <2>1. IsAdvanced(new, cs, now, rate)
    BY <1>1, SpikeAdvanced
  <2> QED
    BY <2>1, Zenon DEF IsAdvanced
<1>3. PICK m \in Nat : m = Len(feed)
  BY DEF FeedAt
<1>4. PICK recent : recent = cs.recent
  OBVIOUS
<1>5. PICK moment : moment = cs.moment
  OBVIOUS
<1>6. RecentAt(recent, m)
  BY <1>3, <1>4, Zenon DEF SpikeAt
<1>7. OpenAt(moment, Len(recent), m, now)
  BY <1>3, <1>4, <1>5, Zenon DEF SpikeAt
<1>8. moment \in MomentRecords /\ moment.started <= now /\ moment.peak >= MinSpike /\ ExcerptAt(moment.excerpt, Len(recent), m)
  BY <1>7, Zenon DEF OpenAt
<1>9. ExcerptAt(RefreshExcerpt(moment.excerpt, recent), Len(recent), m)
  BY <1>6, <1>8, ExcerptRefreshed
<1>10. RefreshExcerpt(moment.excerpt, recent) \in Seq(Nat)
  BY <1>9, Zenon DEF ExcerptAt
<1>11. PICK moment1 : moment1 = Advanced(moment, rate, recent)
  OBVIOUS
<1>12. /\ moment1 \in MomentRecords /\ moment1.started = moment.started /\ moment1.peak >= moment.peak
       /\ moment1.excerpt = RefreshExcerpt(moment.excerpt, recent) \/ moment1.excerpt = moment.excerpt
  <2>1. IsRaised(moment1, moment, recent)
    BY <1>8, <1>10, <1>11, MomentAdvanced
  <2> QED
    BY <2>1, Zenon DEF IsRaised
<1>13. moment1.peak \in Nat /\ moment.peak \in Nat
  BY <1>8, <1>12, Zenon DEF MomentRecords
<1>14. moment1.peak >= MinSpike
  BY <1>8, <1>12, <1>13
<1>15. OpenAt(moment1, Len(recent), m, now)
  BY <1>8, <1>9, <1>12, <1>14, Zenon DEF OpenAt
<1>16. new.inSpike \in BOOLEAN /\ new.cooldownUntil \in Nat
  <2>1. TRUE \in BOOLEAN /\ FALSE \in BOOLEAN /\ now + Cooldown \in Nat
    OBVIOUS
  <2>2. cs.cooldownUntil \in Nat
    BY Zenon DEF SpikeAt
  <2> QED
    BY <1>2, <2>1, <2>2, Zenon
<1>17. SpikeAt(new, feed, now)
  BY <1>2, <1>3, <1>4, <1>5, <1>11, <1>15, <1>16, Zenon DEF SpikeAt
<1> QED
  BY <1>2, <1>3, <1>4, <1>5, <1>11, <1>12, <1>15, <1>17, Zenon DEF Risen

(* A tick outside of a moment.                                               *)
Watched(new, cs, feed, now) ==
  /\ SpikeAt(new, feed, now) /\ new.known = cs.known /\ new.cooldownUntil = cs.cooldownUntil
  /\ new.inSpike = TRUE => new.moment.started = now /\ now >= cs.cooldownUntil
LEMMA SpikeObserves ==
  ASSUME ExcerptSize \in Nat \ {0}, avMoments \in Seq(MomentRecords),
         NEW cs, NEW feed, NEW now \in Nat, FeedAt(feed, now), SpikeAt(cs, feed, now), cs.inSpike = FALSE,
         NEW rate \in Nat, NEW new, new = Observe(cs, now, rate)
  PROVE  Watched(new, cs, feed, now)
<1>1. DOMAIN cs = SpikeFields
  BY Zenon DEF SpikeAt
<1>2. /\ DOMAIN new = SpikeFields
      /\ new.buckets = cs.buckets /\ new.lastSeen = cs.lastSeen /\ new.known = cs.known /\ new.recent = cs.recent
      /\ new.cooldownUntil = cs.cooldownUntil
      /\ \/ new.inSpike = FALSE
         \/ /\ new.inSpike = TRUE /\ now >= cs.cooldownUntil /\ rate >= MinSpike
            /\ new.moment = [id |-> Len(avMoments) + 1, started |-> now, ended |-> 0, peak |-> rate, excerpt |-> cs.recent]
  <2>1. IsObserved(new, cs, now, rate)
    BY <1>1, Observed
  <2> QED
    BY <2>1, Zenon DEF IsObserved
<1>3. TRUE \in BOOLEAN /\ FALSE \in BOOLEAN /\ TRUE # FALSE
  OBVIOUS
<1>4. CASE new.inSpike = FALSE
  <2>1. SpikeAt(new, feed, now)
    BY <1>2, <1>3, <1>4, Zenon DEF SpikeAt
  <2> QED
    BY <1>2, <1>3, <1>4, <2>1, Zenon DEF Watched
<1>5. CASE /\ new.inSpike = TRUE /\ now >= cs.cooldownUntil /\ rate >= MinSpike
           /\ new.moment = [id |-> Len(avMoments) + 1, started |-> now, ended |-> 0, peak |-> rate, excerpt |-> cs.recent]
  <2>1. PICK m \in Nat : m = Len(feed)
    BY DEF FeedAt
  <2>2. RecentAt(cs.recent, m)
    BY <2>1, Zenon DEF SpikeAt
  <2>3. PICK recent \in Seq(Nat) : recent = cs.recent
    BY <2>2, Zenon DEF RecentAt
  <2>4. ExcerptAt(recent, Len(recent), m)
    BY <2>2, <2>3, ExcerptOpens
  <2>5. PICK moment : moment = [id |-> Len(avMoments) + 1, started |-> now, ended |-> 0, peak |-> rate, excerpt |-> recent]
    OBVIOUS
  <2>6. PICK id \in Nat : id = Len(avMoments) + 1
    OBVIOUS
  <2>7. 0 \in Nat /\ now <= now
    OBVIOUS
  <2>8. moment \in MomentRecords /\ moment.started = now /\ moment.peak = rate /\ moment.excerpt = recent
    BY <2>5, <2>6, <2>7, Zenon DEF MomentRecords
  <2>9. OpenAt(moment, Len(recent), m, now)
    BY <1>5, <2>4, <2>7, <2>8, Zenon DEF OpenAt
  <2>10. SpikeAt(new, feed, now)
    BY <1>2, <1>3, <1>5, <2>1, <2>3, <2>5, <2>9, Zenon DEF SpikeAt
  <2> QED
    BY <1>2, <1>5, <2>3, <2>5, <2>8, <2>10, Zenon DEF Watched
<1> QED
  BY <1>2, <1>4, <1>5, Zenon DEF Watched

LEMMA MomentFields ==
  ASSUME NEW moments \in Seq(MomentRecords), NEW i \in DOMAIN moments
  PROVE  moments[i] \in MomentRecords /\ moments[i].ended \in Nat /\ moments[i].started \in Nat /\ moments[i].peak \in Nat
<1>1. moments[i] \in MomentRecords
  OBVIOUS
<1> QED
  BY <1>1, Zenon DEF MomentRecords

LEMMA MomentsLater ==
  ASSUME IdleTimeout \in Nat, NEW cs, NEW moments, NEW feed \in Seq(Messages), NEW now \in Nat, NEW later \in Nat, now <= later,
         MomentsAt(cs, moments, feed, now)
  PROVE  MomentsAt(cs, moments, feed, later)
<1>1. PICK n \in Nat : n = Len(moments)
  BY DEF MomentsAt
<1>2. moments \in Seq(MomentRecords) /\ DOMAIN moments = 1 .. n
  BY <1>1 DEF MomentsAt
<1>3. \A i \in DOMAIN moments : moments[i].peak >= MinSpike /\ moments[i].ended <= now
  BY Zenon DEF MomentsAt
<1>4. \A i \in DOMAIN moments : moments[i].peak >= MinSpike /\ moments[i].ended <= later
  <2> TAKE i \in DOMAIN moments
  <2>1. moments[i].ended \in Nat
    BY <1>2, MomentFields, Zenon
  <2>2. moments[i].peak >= MinSpike /\ moments[i].ended <= now
    BY <1>3
  <2> QED
    BY <2>1, <2>2
<1>5. n > 0 => Cooled(cs.known, cs.cooldownUntil, moments[n].ended, feed, later)
  <2> HAVE n > 0
  <2>1. n \in DOMAIN moments
    BY <1>2
  <2>2. moments[n].ended \in Nat
    BY <1>2, <2>1, MomentFields, Zenon
  <2>3. Cooled(cs.known, cs.cooldownUntil, moments[n].ended, feed, now)
    BY <1>1, Zenon DEF MomentsAt
  <2> QED
    BY <2>2, <2>3, CooledLater
<1> QED
  BY <1>1, <1>2, <1>4, <1>5, Zenon DEF MomentsAt

LEMMA MomentsReceive ==
  ASSUME NEW cs, NEW moments, NEW feed \in Seq(Messages), NEW now \in Nat, MomentsAt(cs, moments, feed, now),
         NEW m \in Messages, m.at = now, NEW new, new.known = TRUE, new.inSpike = cs.inSpike,
         new.moment = cs.moment, new.cooldownUntil = cs.cooldownUntil
  PROVE  MomentsAt(new, moments, Append(feed, m), now)
<1>1. PICK n \in Nat : n = Len(moments)
  BY DEF MomentsAt
<1>2. moments \in Seq(MomentRecords) /\ DOMAIN moments = 1 .. n
  BY <1>1 DEF MomentsAt
<1>3. \A i \in 1 .. n - 1 : ApartIn(Append(feed, m), moments[i].ended, moments[i + 1].started)
  BY <1>1, ApartStays, Zenon DEF MomentsAt
<1>4. n > 0 => Cooled(TRUE, cs.cooldownUntil, moments[n].ended, Append(feed, m), now)
  <2> HAVE n > 0
  <2>1. n \in DOMAIN moments
    BY <1>2
  <2>2. moments[n].ended \in Nat
    BY <1>2, <2>1, MomentFields, Zenon
  <2>3. Cooled(cs.known, cs.cooldownUntil, moments[n].ended, feed, now) /\ moments[n].ended <= now
    BY <1>1, <2>1, Zenon DEF MomentsAt
  <2> QED
    BY <2>2, <2>3, CooledReceives
<1>5. n > 0 /\ new.inSpike = TRUE => ApartIn(Append(feed, m), moments[n].ended, new.moment.started)
  BY <1>1, ApartStays, Zenon DEF MomentsAt
<1>6. \A i \in DOMAIN moments : moments[i].peak >= MinSpike /\ moments[i].ended <= now
  BY Zenon DEF MomentsAt
<1> QED
  BY <1>1, <1>2, <1>3, <1>4, <1>5, <1>6, Zenon DEF MomentsAt

(* The state of a silent channel is dropped, its cooldown with it.            *)
LEMMA MomentsDropped ==
  ASSUME NEW cs, NEW moments, NEW feed, NEW now, MomentsAt(cs, moments, feed, now), Silent(feed, now)
  PROVE  MomentsAt(NoSpike, moments, feed, now)
<1>1. NoSpike.known = FALSE /\ NoSpike.inSpike = FALSE /\ TRUE # FALSE
  BY Zenon DEF NoSpike
<1>2. Len(moments) > 0 => Cooled(NoSpike.known, NoSpike.cooldownUntil, moments[Len(moments)].ended, feed, now)
  BY <1>1, Zenon DEF Cooled
<1> QED
  BY <1>1, <1>2, Zenon DEF MomentsAt

(* A moment begins after the cooldown of the last one.                       *)
LEMMA MomentsWatched ==
  ASSUME Cooldown \in Nat, NEW cs, NEW moments, NEW feed \in Seq(Messages), NEW now \in Nat, MomentsAt(cs, moments, feed, now),
         SpikeAt(cs, feed, now), cs.known = TRUE, NEW new, Watched(new, cs, feed, now)
  PROVE  MomentsAt(new, moments, feed, now)
<1>1. PICK n \in Nat : n = Len(moments)
  BY DEF MomentsAt
<1>2. moments \in Seq(MomentRecords) /\ DOMAIN moments = 1 .. n
  BY <1>1 DEF MomentsAt
<1>3. new.known = TRUE /\ new.cooldownUntil = cs.cooldownUntil
  BY Zenon DEF Watched
<1>4. n > 0 /\ new.inSpike = TRUE => ApartIn(feed, moments[n].ended, new.moment.started)
  <2> HAVE n > 0 /\ new.inSpike = TRUE
  <2>1. new.moment.started = now /\ now >= cs.cooldownUntil
    BY Zenon DEF Watched
  <2>2. n \in DOMAIN moments
    BY <1>2
  <2>3. PICK e \in Nat : e = moments[n].ended
    BY <1>2, <2>2, MomentFields, Zenon
  <2>4. Cooled(TRUE, cs.cooldownUntil, e, feed, now)
    BY <1>1, <2>3, Zenon DEF MomentsAt
  <2>5. PICK until \in Nat : until = cs.cooldownUntil
    BY Zenon DEF SpikeAt
  <2>6. CASE until >= e + Cooldown
    <3>1. now >= e + Cooldown
      BY <2>1, <2>5, <2>6
    <3> QED
      BY <2>1, <2>3, <3>1, Zenon DEF ApartIn
  <2>7. CASE \E t \in e .. now : ResumedIn(feed, t)
    BY <2>1, <2>3, <2>7, Zenon DEF ApartIn
  <2> QED
    BY <2>4, <2>5, <2>6, <2>7, Zenon DEF Cooled
<1> QED
  BY <1>1, <1>3, <1>4, Zenon DEF MomentsAt

(* A moment goes on, or ends and begins a cooldown.                          *)
LEMMA MomentsRisen ==
  ASSUME Cooldown \in Nat, NEW cs, NEW moments, NEW feed \in Seq(Messages), NEW now \in Nat, MomentsAt(cs, moments, feed, now),
         SpikeAt(cs, feed, now), cs.inSpike = TRUE, NEW new, Risen(new, cs, feed, now)
  PROVE  MomentsAt(new, moments, feed, now)
<1>1. PICK n \in Nat : n = Len(moments)
  BY DEF MomentsAt
<1>2. moments \in Seq(MomentRecords) /\ DOMAIN moments = 1 .. n
  BY <1>1 DEF MomentsAt
<1>3. n > 0 => Cooled(new.known, new.cooldownUntil, moments[n].ended, feed, now)
  <2> HAVE n > 0
  <2>1. n \in DOMAIN moments
    BY <1>2
  <2>2. PICK e \in Nat : e = moments[n].ended /\ e <= now
    <3>1. moments[n].ended <= now
      BY <2>1, Zenon DEF MomentsAt
    <3> QED
      BY <1>2, <2>1, <3>1, MomentFields, Zenon
  <2>3. now + Cooldown >= e + Cooldown
    BY <2>2
  <2>4. Cooled(cs.known, cs.cooldownUntil, e, feed, now)
    BY <1>1, <2>2, Zenon DEF MomentsAt
  <2>5. CASE new.cooldownUntil = now + Cooldown
    BY <2>2, <2>3, <2>5, Zenon DEF Cooled
  <2>6. CASE new.cooldownUntil = cs.cooldownUntil
    BY <2>2, <2>4, <2>6, Zenon DEF Risen
  <2> QED
    BY <2>5, <2>6, Zenon DEF Risen
<1>4. n > 0 /\ new.inSpike = TRUE => ApartIn(feed, moments[n].ended, new.moment.started)
  BY <1>1, Zenon DEF MomentsAt, Risen
<1> QED
  BY <1>1, <1>3, <1>4, Zenon DEF MomentsAt

(* The moment that ended joins the others.                                   *)
LEMMA MomentsAppended ==
  ASSUME Cooldown \in Nat, NEW cs, NEW moments, NEW feed \in Seq(Messages), NEW now \in Nat, MomentsAt(cs, moments, feed, now),
         SpikeAt(cs, feed, now), cs.inSpike = TRUE, NEW new, Risen(new, cs, feed, now), new.inSpike = FALSE,
         NEW more, more = Append(moments, [new.moment EXCEPT !.ended = now])
  PROVE  MomentsAt(new, more, feed, now)
<1>1. PICK n \in Nat : n = Len(moments)
  BY DEF MomentsAt
<1>2. moments \in Seq(MomentRecords) /\ DOMAIN moments = 1 .. n
  BY <1>1 DEF MomentsAt
<1>3. PICK m : m = [new.moment EXCEPT !.ended = now]
  OBVIOUS
<1>4. new.moment \in MomentRecords /\ new.moment.peak >= MinSpike /\ new.moment.started = cs.moment.started
  BY Zenon DEF Risen, OpenAt
<1>5. m \in MomentRecords /\ m.started = cs.moment.started /\ m.peak >= MinSpike /\ m.ended = now
  <2>1. m \in MomentRecords /\ m.started = new.moment.started /\ m.peak = new.moment.peak /\ m.ended = now
    BY <1>3, <1>4, MomentEnded
  <2> QED
    BY <1>4, <2>1
<1>6. /\ more \in Seq(MomentRecords) /\ Len(more) = n + 1 /\ more[n + 1] = m /\ DOMAIN more = 1 .. n + 1
      /\ \A k \in 1 .. n : more[k] = moments[k]
  BY <1>1, <1>2, <1>3, <1>5, Appended
<1>7. \A i \in DOMAIN moments : moments[i].peak >= MinSpike /\ moments[i].ended <= now
  BY Zenon DEF MomentsAt
<1>8. \A i \in 1 .. n - 1 : ApartIn(feed, moments[i].ended, moments[i + 1].started)
  BY <1>1, Zenon DEF MomentsAt
<1>9. n > 0 => ApartIn(feed, moments[n].ended, cs.moment.started)
  BY <1>1, Zenon DEF MomentsAt
<1>10. \A i \in DOMAIN more : more[i].peak >= MinSpike /\ more[i].ended <= now
  <2> TAKE i \in DOMAIN more
  <2>1. i \in 1 .. n \/ i = n + 1
    BY <1>6
  <2>2. now <= now
    OBVIOUS
  <2> QED
    BY <1>2, <1>5, <1>6, <1>7, <2>1, <2>2, Zenon
<1>11. \A i \in 1 .. (n + 1) - 1 : ApartIn(feed, more[i].ended, more[i + 1].started)
  <2> TAKE i \in 1 .. (n + 1) - 1
  <2>1. CASE i \in 1 .. n - 1
    <3>1. i \in 1 .. n /\ i + 1 \in 1 .. n
      BY <2>1
    <3> QED
      BY <1>6, <1>8, <2>1, <3>1, Zenon
  <2>2. CASE i = n
    <3>1. n \in 1 .. n /\ n > 0
      BY <2>2
    <3> QED
      BY <1>5, <1>6, <1>9, <2>2, <3>1, Zenon
  <2>3. i \in 1 .. n - 1 \/ i = n
    OBVIOUS
  <2> QED
    BY <2>1, <2>2, <2>3, Zenon
<1>12. Cooled(new.known, new.cooldownUntil, more[n + 1].ended, feed, now)
  <2>1. new.cooldownUntil = now + Cooldown /\ TRUE # FALSE
    BY Zenon DEF Risen
  <2>2. now + Cooldown >= now + Cooldown
    OBVIOUS
  <2> QED
    BY <1>5, <1>6, <2>1, <2>2, Zenon DEF Cooled
<1>13. TRUE # FALSE
  OBVIOUS
<1> QED
  BY <1>6, <1>10, <1>11, <1>12, <1>13, Zenon DEF MomentsAt

(* The moments of the channel, and the one that is open, make sense.         *)
LEMMA MomentsHold ==
  ASSUME ExcerptSize \in Nat \ {0}, NEW now, SpikeAt(avSpike, avFeed, now), MomentsAt(avSpike, avMoments, avFeed, now)
  PROVE  MomentsSound
<1>1. \A m1, m2 : ApartIn(avFeed, m1.ended, m2.started) => Apart(m1, m2)
  BY Zenon DEF ApartIn, ResumedIn, Apart, Resumed
<1>2. PICK n \in Nat : n = Len(avMoments)
  BY DEF MomentsAt
<1>3. avMoments \in Seq(MomentRecords) /\ DOMAIN avMoments = 1 .. n
  BY <1>2 DEF MomentsAt
<1>4. ASSUME avSpike.inSpike = TRUE PROVE Ascending(avSpike.moment.excerpt) /\ Len(avSpike.moment.excerpt) <= ExcerptSize
  <2>1. PICK ex : ex = avSpike.moment.excerpt
    OBVIOUS
  <2>2. ExcerptAt(ex, Len(avSpike.recent), Len(avFeed))
    BY <1>4, <2>1, Zenon DEF SpikeAt, OpenAt
  <2>3. ex \in Seq(Nat) /\ Len(ex) <= ExcerptSize /\ Rising(ex)
    BY <2>2, Zenon DEF ExcerptAt
  <2>4. \A i \in 1 .. Len(ex) - 1 : i \in 1 .. Len(ex) /\ i + 1 \in 1 .. Len(ex) /\ i < i + 1
    BY <2>3
  <2>5. Ascending(ex)
    BY <2>3, <2>4, Zenon DEF Rising, Ascending
  <2> QED
    BY <2>1, <2>3, <2>5, Zenon
<1>5. \A i \in DOMAIN avMoments : avMoments[i].peak >= MinSpike
  BY Zenon DEF MomentsAt
<1>6. \A i \in 1 .. Len(avMoments) - 1 : Apart(avMoments[i], avMoments[i + 1])
  BY <1>1, Zenon DEF MomentsAt
<1>7. ASSUME avSpike.inSpike = TRUE, avMoments # <<>> PROVE Apart(Last(avMoments), avSpike.moment)
  <2>1. n > 0
    BY <1>2, <1>3, <1>7
  <2>2. Last(avMoments) = avMoments[n]
    BY <1>2 DEF Last
  <2> QED
    BY <1>1, <1>2, <1>7, <2>1, <2>2, Zenon DEF MomentsAt
<1>8. avSpike.inSpike => avSpike.inSpike = TRUE
  BY Zenon DEF SpikeAt
<1> QED
  BY <1>4, <1>5, <1>6, <1>7, <1>8, Zenon DEF MomentsSound

-----------------------------------------------------------------------------
(* The views of a channel.                                                   *)

LEMMA ViewNumbers ==
  /\ StatsWindow \in Nat \ {0} /\ RateWindow \in Nat \ {0} /\ MomentWindow \in Nat \ {0} /\ ScrollCap \in Nat \ {0}
  /\ ExcerptSize \in Nat \ {0} /\ Scale \in Nat \ {0} /\ MinSpike \in Nat /\ Cooldown \in Nat /\ IdleTimeout \in Nat
  /\ RateThreshold \in Nat /\ MomentWindow <= IdleTimeout /\ Privileged \subseteq Authors
BY ActivityConstants

RingsInv ==
  /\ BucketRing(avRate.buckets, RateWindow, avFeed, avNow)
  /\ StatsAt(avStats, avFeed, avNow)
ScrollInv == ScrollAt(avScroll, Len(avFeed), avDeleted)
SharesInv == SharesAt(avRate.first, avRate.keep, avFeed, avNow)
DetectorInv == SpikeAt(avSpike, avFeed, avNow) /\ MomentsAt(avSpike, avMoments, avFeed, avNow)
ActivityInv == FeedAt(avFeed, avNow) /\ RingsInv /\ ScrollInv /\ SharesInv /\ DetectorInv

LEMMA WindowsHold == ASSUME ActivityInv PROVE WindowsExact
<1>1. FeedAt(avFeed, avNow) /\ StatsAt(avStats, avFeed, avNow)
  BY Zenon DEF ActivityInv, RingsInv
<1>2. RingAt(avRate.buckets, RateWindow, avFeed, avNow)
  BY Zenon DEF ActivityInv, RingsInv, BucketRing
<1>3. RingAt(avSpike.buckets, MomentWindow, avFeed, avNow)
  BY Zenon DEF ActivityInv, DetectorInv, SpikeAt, BucketRing
<1>4. \A W : Lately(W) = LatelyIn(avFeed, avNow, W)
  BY Zenon DEF Lately, LatelyIn
<1>5. PICK late : late = Lately(StatsWindow)
  OBVIOUS
<1>6. StatsEmit(avStats, avNow) =
        IF late = {} THEN {} ELSE {[total |-> Cardinality(late), chatters |-> {avFeed[i].by : i \in late}]}
  BY <1>1, <1>4, <1>5, ViewNumbers, StatsExact
<1>7. Total(avRate.buckets, avNow, RateWindow) = Cardinality(Lately(RateWindow))
  BY <1>1, <1>2, <1>4, ViewNumbers, RingTotal
<1>8. Total(avSpike.buckets, avNow, MomentWindow) = Cardinality(Lately(MomentWindow))
  BY <1>1, <1>3, <1>4, ViewNumbers, RingTotal
<1> QED
  BY <1>5, <1>6, <1>7, <1>8, Zenon DEF WindowsExact

LEMMA ViewsExact == ASSUME ActivityInv PROVE ActivityExact
<1>1. FeedAt(avFeed, avNow) /\ ScrollInv /\ SharesInv /\ DetectorInv
  BY Zenon DEF ActivityInv
<1>2. WindowsExact
  BY WindowsHold
<1>3. ShareExact
  BY <1>1, ViewNumbers, SharesExact DEF SharesInv
<1>4. MomentsSound
  BY <1>1, ViewNumbers, MomentsHold, Zenon DEF DetectorInv
<1>5. ScrollbackPages
  <2>1. PICK n \in Nat : n = Len(avFeed)
    BY <1>1 DEF FeedAt
  <2> QED
    BY <1>1, <2>1, ViewNumbers, ScrollPaged DEF ScrollInv
<1> QED
  BY <1>2, <1>3, <1>4, <1>5, Zenon DEF ActivityExact

LEMMA EmptyScroll == ASSUME ScrollCap \in Nat \ {0} PROVE ScrollAt(<<>>, 0, {})
<1>1. Kept(0) = 0
  BY DEF Kept
<1> QED
  BY <1>1 DEF ScrollAt

LEMMA EmptyShares == ASSUME Scale \in Nat \ {0}, NEW now \in Nat PROVE SharesAt(0, 0, <<>>, now)
<1>1. SurgeIn(<<>>) = {}
  BY DEF SurgeIn
<1>2. KeptIn(<<>>) = {}
  BY <1>1 DEF KeptIn
<1>3. SumOf(SharesOf(<<>>), SurgeIn(<<>>)) = 0 /\ Cardinality(KeptIn(<<>>)) = 0
  BY <1>1, <1>2, NoBlocks, FS_EmptySet
<1>4. 0 * Scale + 0 = 0
  OBVIOUS
<1>5. Balanced(<<>>, 0)
  BY <1>3, <1>4, Zenon DEF Balanced
<1> QED
  BY <1>5 DEF SharesAt

LEMMA ViewsInit == ActivityInit => ActivityInv
<1> SUFFICES ASSUME ActivityInit PROVE ActivityInv
  OBVIOUS
<1>1. /\ avNow = 1 /\ avFeed = <<>> /\ avDeleted = {} /\ avMoments = <<>> /\ avScroll = <<>> /\ avSpike = NoSpike
      /\ avRate.buckets = EmptyRing(RateWindow, [sec |-> 0, count |-> 0]) /\ avRate.first = 0 /\ avRate.keep = 0
      /\ avStats = EmptyRing(StatsWindow, [sec |-> 0, count |-> 0, authors |-> {}, used |-> FALSE])
  BY Zenon DEF ActivityInit
<1>2. FeedAt(avFeed, avNow)
  BY <1>1 DEF FeedAt
<1>3. \A W : \A j \in DOMAIN avFeed : ~(avNow - avFeed[j].at < W)
  BY <1>1
<1>4. BucketRing(avRate.buckets, RateWindow, avFeed, avNow)
  <2>1. BucketRing(EmptyRing(RateWindow, [sec |-> 0, count |-> 0]), RateWindow, avFeed, avNow)
    BY <1>2, <1>3, ViewNumbers, EmptyBuckets
  <2> QED
    BY <1>1, <2>1, Zenon
<1>5. StatsAt(avStats, avFeed, avNow)
  <2>1. StatsAt(EmptyRing(StatsWindow, [sec |-> 0, count |-> 0, authors |-> {}, used |-> FALSE]), avFeed, avNow)
    BY <1>1, <1>2, ViewNumbers, EmptyStats
  <2> QED
    BY <1>1, <2>1, Zenon
<1>6. ScrollInv
  <2>1. Len(avFeed) = 0
    BY <1>1
  <2> QED
    BY <1>1, <2>1, EmptyScroll, ViewNumbers DEF ScrollInv
<1>7. SharesInv
  <2>1. avNow \in Nat
    BY <1>1
  <2>2. SharesAt(0, 0, <<>>, avNow)
    BY <2>1, EmptyShares, ViewNumbers
  <2> QED
    BY <1>1, <2>2, Zenon DEF SharesInv
<1>8. SpikeAt(avSpike, avFeed, avNow)
  <2>1. SpikeAt(NoSpike, avFeed, avNow)
    BY <1>2, <1>3, ViewNumbers, NoSpikeAt
  <2> QED
    BY <1>1, <2>1, Zenon
<1>9. MomentsAt(avSpike, avMoments, avFeed, avNow)
  <2>1. <<>> \in Seq(MomentRecords) /\ Len(<<>>) = 0 /\ DOMAIN <<>> = {} /\ ~(0 > 0) /\ 1 .. 0 - 1 = {}
    OBVIOUS
  <2> QED
    BY <1>1, <2>1, Zenon DEF MomentsAt
<1> QED
  BY <1>2, <1>4, <1>5, <1>6, <1>7, <1>8, <1>9, Zenon DEF ActivityInv, RingsInv, DetectorInv

LEMMA ViewsUnchanged == ActivityInv /\ UNCHANGED avVars => ActivityInv'
BY Zenon DEF ActivityInv, RingsInv, ScrollInv, SharesInv, DetectorInv, avVars

(* Time passes.                                                              *)
LEMMA ViewsClock == ActivityInv /\ ClockAdvances => ActivityInv'
<1> SUFFICES ASSUME ActivityInv, ClockAdvances PROVE ActivityInv'
  OBVIOUS
<1>1. /\ FeedAt(avFeed, avNow) /\ BucketRing(avRate.buckets, RateWindow, avFeed, avNow) /\ StatsAt(avStats, avFeed, avNow)
      /\ SharesInv /\ ScrollInv /\ SpikeAt(avSpike, avFeed, avNow) /\ MomentsAt(avSpike, avMoments, avFeed, avNow)
  BY Zenon DEF ActivityInv, RingsInv, DetectorInv
<1>2. /\ avNow' = avNow + 1
      /\ UNCHANGED <<avSeen, avRate, avStats, avSpike, avScroll, avTicked, avFeed, avDeleted, avMoments>>
  BY Zenon DEF ClockAdvances
<1>3. PICK now \in Nat, later \in Nat : now = avNow /\ later = avNow + 1 /\ now <= later
  BY <1>1 DEF FeedAt
<1>4. FeedAt(avFeed, later)
  BY <1>1, <1>3, ViewNumbers, RingAdvances DEF BucketRing
<1>5. BucketRing(avRate.buckets, RateWindow, avFeed, later)
  <2>1. RingAt(avRate.buckets, RateWindow, avFeed, later)
    BY <1>1, <1>3, ViewNumbers, RingAdvances DEF BucketRing
  <2> QED
    BY <1>1, <2>1, Zenon DEF BucketRing
<1>6. StatsAt(avStats, avFeed, later)
  <2>1. RingAt(avStats, StatsWindow, avFeed, later)
    BY <1>1, <1>3, ViewNumbers, RingAdvances DEF StatsAt
  <2> QED
    BY <1>1, <2>1, Zenon DEF StatsAt
<1>7. SharesAt(avRate.first, avRate.keep, avFeed, later)
  BY <1>1, <1>3, SharesAdvance DEF SharesInv
<1>8. SpikeAt(avSpike, avFeed, later)
  BY <1>1, <1>3, ViewNumbers, SpikeLater
<1>9. MomentsAt(avSpike, avMoments, avFeed, later)
  <2>1. avFeed \in Seq(Messages)
    BY <1>1, Zenon DEF FeedAt
  <2> QED
    BY <1>1, <1>3, <2>1, ViewNumbers, MomentsLater
<1> QED
  BY <1>1, <1>2, <1>3, <1>4, <1>5, <1>6, <1>7, <1>8, <1>9, Zenon
    DEF ActivityInv, RingsInv, ScrollInv, SharesInv, DetectorInv

(* A message is marked as deleted in the scrollback.                         *)
LEMMA ViewsMarked == ASSUME ActivityInv, NEW id \in 1 .. Len(avFeed), MarkDeleted(id) PROVE ActivityInv'
<1>1. FeedAt(avFeed, avNow) /\ RingsInv /\ SharesInv /\ DetectorInv /\ ScrollAt(avScroll, Len(avFeed), avDeleted)
  BY Zenon DEF ActivityInv, ScrollInv
<1>2. /\ avDeleted' = avDeleted \cup {id}
      /\ avScroll' = [i \in DOMAIN avScroll |-> IF avScroll[i].id = id THEN [id |-> id, deleted |-> TRUE] ELSE avScroll[i]]
      /\ UNCHANGED <<avNow, avSeen, avRate, avStats, avSpike, avTicked, avFeed, avMoments>>
  BY Zenon DEF MarkDeleted
<1>3. PICK n \in Nat : n = Len(avFeed)
  BY <1>1 DEF FeedAt
<1>4. PICK new : new = [i \in DOMAIN avScroll |-> IF avScroll[i].id = id THEN [id |-> id, deleted |-> TRUE] ELSE avScroll[i]]
  OBVIOUS
<1>5. id \in 1 .. n /\ ScrollAt(avScroll, n, avDeleted)
  BY <1>1, <1>3
<1>6. ScrollAt(new, n, avDeleted \cup {id})
  BY <1>4, <1>5, ViewNumbers, ScrollMarked
<1> QED
  BY <1>1, <1>2, <1>3, <1>4, <1>6, Zenon DEF ActivityInv, RingsInv, ScrollInv, SharesInv, DetectorInv

(* A message comes.                                                          *)
LEMMA ViewsReceive == ASSUME ActivityInv, NEW author \in Authors, Receive(author) PROVE ActivityInv'
<1>1. /\ FeedAt(avFeed, avNow) /\ BucketRing(avRate.buckets, RateWindow, avFeed, avNow) /\ StatsAt(avStats, avFeed, avNow)
      /\ SharesAt(avRate.first, avRate.keep, avFeed, avNow) /\ ScrollAt(avScroll, Len(avFeed), avDeleted)
      /\ SpikeAt(avSpike, avFeed, avNow) /\ MomentsAt(avSpike, avMoments, avFeed, avNow)
  BY Zenon DEF ActivityInv, RingsInv, SharesInv, ScrollInv, DetectorInv
<1>2. PICK shown : shown = Annotate(author)
  OBVIOUS
<1>3. /\ avRate' = shown.rate
      /\ avStats' = StatsRecord(avStats, avNow, author)
      /\ avSpike' = SpikeRecord(avSpike, avNow, Len(avFeed) + 1)
      /\ avScroll' = ScrollAdd(avScroll, [id |-> Len(avFeed) + 1, deleted |-> FALSE])
      /\ avFeed' = Append(avFeed, [at |-> avNow, by |-> author, share |-> shown.share, kept |-> shown.kept])
      /\ UNCHANGED <<avNow, avTicked, avDeleted, avMoments>>
  BY <1>2, Zenon DEF Receive
<1>4. PICK n \in Nat : n = Len(avFeed)
  BY <1>1 DEF FeedAt
<1>5. avNow \in Nat /\ avNow > 0 /\ avFeed \in Seq(Messages)
  BY <1>1 DEF FeedAt
<1>6. PICK m : m = [at |-> avNow, by |-> author, share |-> shown.share, kept |-> shown.kept]
  OBVIOUS
<1>7. m.at = avNow /\ m.by = author /\ m.share = shown.share /\ m.kept = shown.kept
  BY <1>6, Zenon
<1>9. /\ shown.rate.buckets = Recorded(avRate.buckets, RateWindow, avNow)
      /\ shown.rate.first = IF avRate.first = 0 THEN avNow ELSE avRate.first
      /\ Decided(shown.share, shown.kept, avRate.keep, shown.rate.keep, author)
  BY <1>1, <1>2, ViewNumbers, Annotated
<1>10. shown.share \in Int /\ shown.kept \in BOOLEAN
  <2>1. CASE shown.share = -1
    <3>1. -1 \in Int
      OBVIOUS
    <3> QED
      BY <1>9, <2>1, <3>1, Zenon DEF Decided
  <2>2. CASE Added(shown.share, shown.kept, avRate.keep, shown.rate.keep)
    <3>1. shown.share \in Nat /\ Nat \subseteq Int
      BY <2>2 DEF Added
    <3> QED
      BY <1>9, <3>1, Zenon DEF Decided
  <2> QED
    BY <1>9, <2>1, <2>2, Zenon DEF Decided
<1>11. m \in Messages
  BY <1>5, <1>6, <1>10, Zenon DEF Messages
<1>12. PICK more : more = Append(avFeed, m)
  OBVIOUS
<1>13. Len(more) = n + 1
  BY <1>4, <1>5, <1>11, <1>12, Appended
<1>14. BucketRing(shown.rate.buckets, RateWindow, more, avNow) /\ FeedAt(more, avNow)
  <2>1. BucketRing(Recorded(avRate.buckets, RateWindow, avNow), RateWindow, more, avNow)
    BY <1>1, <1>7, <1>11, <1>12, ViewNumbers, BucketRecorded
  <2>2. FeedAt(more, avNow)
    <3>1. \A j \in DOMAIN more : more[j].at \in 1 .. avNow
      <4>1. DOMAIN more = 1 .. n + 1 /\ more[n + 1] = m /\ \A k \in 1 .. n : more[k] = avFeed[k]
        BY <1>4, <1>5, <1>11, <1>12, Appended
      <4>2. \A j \in 1 .. n + 1 : j \in 1 .. n \/ j = n + 1
        BY OneMore
      <4>3. m.at \in 1 .. avNow
        BY <1>5, <1>7
      <4>4. \A j \in 1 .. n : avFeed[j].at \in 1 .. avNow
        BY <1>1, <1>4 DEF FeedAt
      <4> QED
        BY <4>1, <4>2, <4>3, <4>4, Zenon
    <3>2. more \in Seq(Messages)
      BY <1>4, <1>5, <1>11, <1>12, Appended
    <3>3. avNow \in Nat \ {0}
      BY <1>5
    <3> QED
      BY <3>1, <3>2, <3>3, Zenon DEF FeedAt
  <2> QED
    BY <1>9, <2>1, <2>2, Zenon
<1>15. PICK stats : stats = StatsRecord(avStats, avNow, author)
  OBVIOUS
<1>16. StatsAt(stats, more, avNow)
  BY <1>1, <1>7, <1>11, <1>12, <1>15, ViewNumbers, StatsRecorded
<1>17. SharesAt(shown.rate.first, shown.rate.keep, more, avNow)
  <2>1. PICK keep1 : keep1 = shown.rate.keep
    OBVIOUS
  <2>2. PICK first1 : first1 = IF avRate.first = 0 THEN avNow ELSE avRate.first
    OBVIOUS
  <2>3. PICK first, keep : first = avRate.first /\ keep = avRate.keep
    OBVIOUS
  <2>4. Decided(m.share, m.kept, keep, keep1, m.by)
    BY <1>7, <1>9, <2>1, <2>3, Zenon
  <2>5. SharesAt(first, keep, avFeed, avNow) /\ first1 = IF first = 0 THEN avNow ELSE first
    BY <1>1, <2>2, <2>3, Zenon
  <2>6. FeedAt(avFeed, avNow) /\ Scale \in Nat \ {0}
    BY <1>1, ViewNumbers
  <2>7. SharesAt(first1, keep1, more, avNow)
    BY <1>11, <1>12, <2>4, <2>5, <2>6, SharesRecorded
  <2> QED
    BY <1>9, <2>1, <2>2, <2>7, Zenon
<1>18. PICK buf : buf = ScrollAdd(avScroll, [id |-> n + 1, deleted |-> FALSE])
  OBVIOUS
<1>19. ScrollAt(buf, n + 1, avDeleted)
  BY <1>1, <1>4, <1>18, ViewNumbers, ScrollAdded
<1>20. PICK spike : spike = SpikeRecord(avSpike, avNow, n + 1)
  OBVIOUS
<1>21. SpikeAt(spike, more, avNow)
  BY <1>1, <1>4, <1>7, <1>11, <1>12, <1>20, ViewNumbers, SpikeReceives
<1>22. MomentsAt(spike, avMoments, more, avNow)
  <2>1. DOMAIN avSpike = SpikeFields
    BY <1>1, Zenon DEF SpikeAt
  <2>2. IsRecorded(spike, avSpike, avNow, n + 1)
    BY <1>20, <2>1, SpikeRecorded
  <2>3. spike.known = TRUE /\ spike.inSpike = avSpike.inSpike /\ spike.moment = avSpike.moment
        /\ spike.cooldownUntil = avSpike.cooldownUntil
    BY <2>2, Zenon DEF IsRecorded
  <2> QED
    BY <1>1, <1>5, <1>7, <1>11, <1>12, <2>3, MomentsReceive
<1>23. /\ avFeed' = more /\ avNow' = avNow /\ avRate' = shown.rate /\ avStats' = stats /\ avScroll' = buf
       /\ avSpike' = spike /\ avMoments' = avMoments /\ avDeleted' = avDeleted /\ Len(avFeed') = n + 1
  BY <1>3, <1>4, <1>6, <1>12, <1>13, <1>15, <1>18, <1>20, Zenon
<1> QED
  BY <1>14, <1>16, <1>17, <1>19, <1>21, <1>22, <1>23, Zenon
    DEF ActivityInv, RingsInv, ScrollInv, SharesInv, DetectorInv

(* A tick of the detector.                                                   *)
LEMMA ViewsTick == ASSUME ActivityInv, DetectorTick PROVE ActivityInv'
<1>1. /\ FeedAt(avFeed, avNow) /\ RingsInv /\ SharesInv /\ ScrollInv
      /\ SpikeAt(avSpike, avFeed, avNow) /\ MomentsAt(avSpike, avMoments, avFeed, avNow)
  BY Zenon DEF ActivityInv, DetectorInv
<1>2. avNow \in Nat /\ avFeed \in Seq(Messages)
  BY <1>1 DEF FeedAt
<1>3. PICK rate : rate = Total(avSpike.buckets, avNow, MomentWindow)
  OBVIOUS
<1>4. rate \in Nat
  <2>1. RingAt(avSpike.buckets, MomentWindow, avFeed, avNow)
    BY <1>1, Zenon DEF SpikeAt, BucketRing
  <2>2. rate = Cardinality(LatelyIn(avFeed, avNow, MomentWindow))
    BY <1>1, <1>3, <2>1, ViewNumbers, RingTotal
  <2>3. LatelyIn(avFeed, avNow, MomentWindow) \in SUBSET DOMAIN avFeed
    BY Zenon DEF LatelyIn
  <2> QED
    BY <1>2, <2>2, <2>3, PartsFinite
<1>5. PICK next : next = IF avSpike.inSpike THEN AdvanceSpike(avSpike, avNow, rate) ELSE Observe(avSpike, avNow, rate)
  OBVIOUS
<1>6. /\ avSpike.known
      /\ IF avNow - avSpike.lastSeen > IdleTimeout
           THEN avSpike' = NoSpike /\ UNCHANGED avMoments
           ELSE /\ avSpike' = next
                /\ avMoments' = IF (avSpike.inSpike /\ ~next.inSpike) /\ avNow - avSpike.moment.started >= MinDuration
                                  THEN Append(avMoments, [next.moment EXCEPT !.ended = avNow]) ELSE avMoments
      /\ UNCHANGED <<avNow, avSeen, avRate, avStats, avScroll, avFeed, avDeleted>>
  BY <1>3, <1>5, Zenon DEF DetectorTick
<1>7. avSpike.known = TRUE /\ avSpike.inSpike \in BOOLEAN
  BY <1>1, <1>6, Zenon DEF SpikeAt
<1>8. RingsInv' /\ SharesInv' /\ ScrollInv' /\ FeedAt(avFeed, avNow)' /\ avFeed' = avFeed /\ avNow' = avNow
  BY <1>1, <1>6, Zenon DEF RingsInv, SharesInv, ScrollInv
<1> SUFFICES SpikeAt(avSpike', avFeed, avNow) /\ MomentsAt(avSpike', avMoments', avFeed, avNow)
  BY <1>8, Zenon DEF ActivityInv, DetectorInv
<1>9. CASE avNow - avSpike.lastSeen > IdleTimeout
  <2>1. Len(avFeed) > 0 /\ (\A j \in DOMAIN avFeed : avFeed[j].at <= avSpike.lastSeen) /\ avSpike.lastSeen \in Nat
    BY <1>1, <1>7, Zenon DEF SpikeAt
  <2>2. \A j \in DOMAIN avFeed : avNow - avFeed[j].at > IdleTimeout
    <3> TAKE j \in DOMAIN avFeed
    <3>1. avFeed[j].at \in Nat /\ avFeed[j].at <= avSpike.lastSeen
      BY <1>1, <2>1 DEF FeedAt
    <3> QED
      BY <1>2, <1>9, <2>1, <3>1, ViewNumbers
  <2>3. Silent(avFeed, avNow)
    <3>1. Len(avFeed) \in DOMAIN avFeed
      BY <1>2, <2>1
    <3> QED
      BY <2>1, <2>2, <3>1, Zenon DEF Silent
  <2>4. \A j \in DOMAIN avFeed : ~(avNow - avFeed[j].at < MomentWindow)
    <3> TAKE j \in DOMAIN avFeed
    <3>1. avFeed[j].at \in Nat /\ avNow - avFeed[j].at > IdleTimeout
      BY <1>1, <2>2 DEF FeedAt
    <3> QED
      BY <1>2, <3>1, ViewNumbers
  <2>5. SpikeAt(NoSpike, avFeed, avNow)
    BY <1>1, <2>4, ViewNumbers, NoSpikeAt
  <2>6. MomentsAt(NoSpike, avMoments, avFeed, avNow)
    BY <1>1, <2>3, MomentsDropped
  <2> QED
    BY <1>6, <1>9, <2>5, <2>6, Zenon
<1>10. CASE ~(avNow - avSpike.lastSeen > IdleTimeout) /\ avSpike.inSpike = FALSE
  <2>1. next = Observe(avSpike, avNow, rate) /\ avSpike' = next /\ avMoments' = avMoments
    BY <1>5, <1>6, <1>10, Zenon
  <2>2. avMoments \in Seq(MomentRecords)
    BY <1>1, Zenon DEF MomentsAt
  <2>3. Watched(next, avSpike, avFeed, avNow)
    BY <1>1, <1>2, <1>4, <1>10, <2>1, <2>2, ViewNumbers, SpikeObserves
  <2>4. MomentsAt(next, avMoments, avFeed, avNow)
    BY <1>1, <1>2, <1>7, <2>3, ViewNumbers, MomentsWatched
  <2> QED
    BY <2>1, <2>3, <2>4, Zenon DEF Watched
<1>11. CASE ~(avNow - avSpike.lastSeen > IdleTimeout) /\ avSpike.inSpike = TRUE
  <2>1. next = AdvanceSpike(avSpike, avNow, rate) /\ avSpike' = next
    BY <1>5, <1>6, <1>11, Zenon
  <2>2. Risen(next, avSpike, avFeed, avNow)
    BY <1>1, <1>2, <1>4, <1>11, <2>1, ViewNumbers, SpikeAdvances
  <2>3. SpikeAt(next, avFeed, avNow)
    BY <2>2, Zenon DEF Risen
  <2>4. CASE avMoments' = avMoments
    <3>1. MomentsAt(next, avMoments, avFeed, avNow)
      BY <1>1, <1>2, <1>11, <2>2, ViewNumbers, MomentsRisen
    <3> QED
      BY <2>1, <2>3, <2>4, <3>1, Zenon
  <2>5. CASE ~next.inSpike /\ avMoments' = Append(avMoments, [next.moment EXCEPT !.ended = avNow])
    <3>1. next.inSpike = FALSE
      BY <2>3, <2>5, Zenon DEF SpikeAt
    <3>2. PICK more : more = Append(avMoments, [next.moment EXCEPT !.ended = avNow])
      OBVIOUS
    <3>3. MomentsAt(next, more, avFeed, avNow)
      BY <1>1, <1>2, <1>11, <2>2, <3>1, <3>2, ViewNumbers, MomentsAppended
    <3> QED
      BY <2>1, <2>3, <2>5, <3>2, <3>3, Zenon
  <2> QED
    BY <1>6, <1>11, <2>4, <2>5, Zenon
<1> QED
  BY <1>7, <1>9, <1>10, <1>11, Zenon

(* What the views show of a feed is what the feed was: the counts are those of *)
(* exactly the window (channelRate, channelStats, channelState), the share of  *)
(* a surge that is kept is the configured one (Stage.Annotate), two moments    *)
(* are a cooldown apart and their excerpts in order (Detector.tick), and the   *)
(* pages of the scrollback have no gap and no repeat (Ring.History), whatever  *)
(* the windows and the limits, the messages and the pauses between them.       *)
THEOREM ActivityHolds == ActivitySpec => []ActivityExact
<1>1. ActivityInv /\ [ViewsNext \/ MomentsNext]_avVars => ActivityInv'
  <2> SUFFICES ASSUME ActivityInv, [ViewsNext \/ MomentsNext]_avVars PROVE ActivityInv'
    OBVIOUS
  <2>1. CASE ViewsNext
    <3>1. Privileged \subseteq Authors
      BY ViewNumbers
    <3> QED
      BY <2>1, ViewsReceive, ViewsMarked, ViewsClock, Zenon DEF ViewsNext
  <2>2. CASE MomentsNext
    <3>1. \A a \in Privileged : a \in Authors
      BY ViewNumbers
    <3> QED
      BY <2>2, <3>1, ViewsReceive, ViewsTick, ViewsClock, Zenon DEF MomentsNext
  <2>3. CASE UNCHANGED avVars
    BY <2>3, ViewsUnchanged, Zenon
  <2> QED
    BY <2>1, <2>2, <2>3, Zenon
<1> QED
  BY <1>1, ViewsInit, ViewsExact, PTL DEF ActivitySpec

-----------------------------------------------------------------------------
(* The runner.                                                               *)

USE SizesAssumption

-----------------------------------------------------------------------------
(* Type correctness.  A step of a goroutine changes the variables of one or two
   groups; the others are typed because they are unchanged.                    *)

LEMMA TypeFrame ==
  /\ UNCHANGED ingestVars => (TypeIngest => TypeIngest')
  /\ UNCHANGED dispVars => (TypeDispatch => TypeDispatch')
  /\ UNCHANGED sinkVars => (TypeRings => TypeRings')
  /\ UNCHANGED workerVars => (TypeWorkers => TypeWorkers')
  /\ UNCHANGED closeVars => (TypeClose => TypeClose')
BY DEF TypeIngest, TypeDispatch, TypeRings, TypeWorkers, TypeClose,
       ingestVars, dispVars, sinkVars, workerVars, closeVars

LEMMA TypeCaller ==
  ASSUME TypeOK, NEW c \in Callers, CallerStep(c) PROVE TypeOK'
<1>1. UNCHANGED dispVars /\ UNCHANGED sinkVars /\ UNCHANGED workerVars /\ UNCHANGED closeVars
  BY DEF CallerStep, SubmitCall, SubmitSend, SubmitQuit, ForwarderExit
<1>2. TypeIngest'
  <2>1. CASE SubmitSend(c)
    BY <2>1 DEF TypeOK, TypeIngest, SubmitSend
  <2>2. CASE SubmitQuit(c)
    BY <2>2 DEF TypeOK, TypeIngest, SubmitQuit
  <2>3. CASE SubmitCall(c) \/ ForwarderExit(c)
    BY <2>3 DEF TypeOK, TypeIngest, SubmitCall, ForwarderExit
  <2> QED
    BY <2>1, <2>2, <2>3 DEF CallerStep
<1> QED
  BY <1>1, <1>2, TypeFrame DEF TypeOK

LEMMA TypeDispatcher ==
  ASSUME TypeOK, DispatcherStep PROVE TypeOK'
<1> USE DEF TypeOK
<1>1. UNCHANGED workerVars /\ UNCHANGED closeVars
  BY DEF DispatcherStep, DispatchRecv, DispatchQuit, DispatchExit, StageDrop, FanOut,
         PushSend, PushFull, PushDropOldest, PushRacedEmpty
<1>2. TypeIngest'
  <2>1. CASE DispatchRecv
    BY <2>1 DEF DispatchRecv, TypeIngest
  <2>2. CASE UNCHANGED ingestVars
    BY <2>2, TypeFrame
  <2> QED
    BY <2>1, <2>2 DEF DispatcherStep, DispatchQuit, DispatchExit, StageDrop, FanOut,
       PushSend, PushFull, PushDropOldest, PushRacedEmpty
<1>3. TypeRings'
  <2>1. CASE PushSend
    BY <2>1 DEF PushSend, TypeRings, TypeDispatch
  <2>2. CASE PushDropOldest
    BY <2>2 DEF PushDropOldest, TypeRings, TypeDispatch
  <2>3. CASE UNCHANGED sinkVars
    BY <2>3, TypeFrame
  <2> QED
    BY <2>1, <2>2, <2>3 DEF DispatcherStep, DispatchRecv, DispatchQuit, DispatchExit,
       StageDrop, FanOut, PushFull, PushRacedEmpty
<1>4. TypeDispatch'
  <2> USE DEF TypeDispatch
  <2>1. CASE DispatchRecv
    <3>1. Head(in) \in Nat
      BY <2>1 DEF DispatchRecv, TypeIngest
    <3> QED
      BY <2>1, <3>1 DEF DispatchRecv
  <2>2. CASE FanOut
    BY <2>2 DEF FanOut, Sinks
  <2>3. CASE PushSend
    BY <2>3 DEF PushSend, AfterPush, Sinks
  <2>4. CASE DispatchQuit \/ DispatchExit \/ StageDrop \/ PushFull \/ PushDropOldest
             \/ PushRacedEmpty
    BY <2>4 DEF DispatchQuit, DispatchExit, StageDrop, PushFull, PushDropOldest,
                PushRacedEmpty
  <2> QED
    BY <2>1, <2>2, <2>3, <2>4 DEF DispatcherStep
<1> QED
  BY <1>1, <1>2, <1>3, <1>4, TypeFrame

LEMMA TypeWorker ==
  ASSUME TypeOK, NEW s \in Sinks, WorkerStep(s) PROVE TypeOK'
<1>1. UNCHANGED ingestVars /\ UNCHANGED dispVars /\ UNCHANGED closeVars
  BY DEF WorkerStep, WorkerRecv, ConsumeReturn, WorkerQuit, WorkerExit
<1>2. TypeRings'
  <2>1. CASE WorkerRecv(s)
    BY <2>1 DEF TypeOK, TypeRings, WorkerRecv
  <2>2. CASE UNCHANGED sinkVars
    BY <2>2, TypeFrame DEF TypeOK
  <2> QED
    BY <2>1, <2>2 DEF WorkerStep, ConsumeReturn, WorkerQuit, WorkerExit
<1>3. TypeWorkers'
  <2>1. CASE WorkerRecv(s)
    <3>1. Head(ring[s]) \in Nat
      BY <2>1 DEF TypeOK, TypeRings, WorkerRecv
    <3> QED
      BY <2>1, <3>1 DEF TypeOK, TypeWorkers, WorkerRecv
  <2>2. CASE ConsumeReturn(s)
    BY <2>2 DEF TypeOK, TypeWorkers, ConsumeReturn
  <2>3. CASE WorkerQuit(s) \/ WorkerExit(s)
    BY <2>3 DEF TypeOK, TypeWorkers, WorkerQuit, WorkerExit
  <2> QED
    BY <2>1, <2>2, <2>3 DEF WorkerStep
<1> QED
  BY <1>1, <1>2, <1>3, TypeFrame DEF TypeOK

LEMMA TypeCloser ==
  ASSUME TypeOK, NEW k \in Closers, CloserStep(k) PROVE TypeOK'
<1>1. UNCHANGED ingestVars /\ UNCHANGED dispVars /\ UNCHANGED sinkVars /\ UNCHANGED workerVars
  BY DEF CloserStep, CloseCall, CloseAgain, CloseOnceDone, CloseAttachWait,
         CloseWorkersWait, CloseSink
<1>2. TypeClose'
  BY DEF TypeOK, TypeClose, CloserStep, CloseCall, CloseAgain, CloseOnceDone,
         CloseAttachWait, CloseWorkersWait, CloseSink
<1> QED
  BY <1>1, <1>2, TypeFrame DEF TypeOK

(* Every variable keeps its type (the state of runner.go is well formed). *)
THEOREM TypeCorrect == Spec => []TypeOK
<1>1. Init => TypeOK
  BY DEF Init, TypeOK, TypeIngest, TypeDispatch, TypeRings, TypeWorkers, TypeClose, Sinks
<1>2. TypeOK /\ UNCHANGED vars => TypeOK'
  BY TypeFrame DEF TypeOK, vars
<1>3. TypeOK /\ [Next]_vars => TypeOK'
  BY <1>2, TypeCaller, TypeDispatcher, TypeWorker, TypeCloser DEF Next
<1> QED
  BY <1>1, <1>3, PTL DEF Spec

-----------------------------------------------------------------------------
(* Accounting: no event leaves the books of the ingest queue or of a sink.   *)

LEMMA TailLen ==
  ASSUME NEW q \in Seq(Nat), q # << >>
  PROVE  Tail(q) \in Seq(Nat) /\ Len(Tail(q)) = Len(q) - 1
OBVIOUS

LEMMA AppendLen ==
  ASSUME NEW q \in Seq(Nat), NEW x \in Nat
  PROVE  Append(q, x) \in Seq(Nat) /\ Len(Append(q, x)) = Len(q) + 1
OBVIOUS

LEMMA IngestStep ==
  ASSUME TypeOK, IngestAccounting, [Next]_vars PROVE IngestAccounting'
<1> USE DEF TypeOK, TypeIngest, TypeDispatch, IngestAccounting
<1>1. ASSUME NEW c \in Callers, CallerStep(c) PROVE IngestAccounting'
  <2>1. CASE SubmitSend(c)
    <3>1. Len(in') = Len(in) + 1 /\ Len(in) \in Nat
      BY <2>1, AppendLen DEF SubmitSend
    <3>2. accepted' = accepted + 1 /\ UNCHANGED <<dpc, dispatched, stageDrops>>
      BY <2>1 DEF SubmitSend, dispVars
    <3> QED
      BY <3>1, <3>2
  <2>2. CASE UNCHANGED <<in, accepted, dispVars>>
    BY <2>2 DEF dispVars
  <2> QED
    BY <1>1, <2>1, <2>2 DEF CallerStep, SubmitCall, SubmitQuit, ForwarderExit
<1>2. ASSUME DispatcherStep PROVE IngestAccounting'
  <2>1. CASE DispatchRecv
    <3>1. Len(in') = Len(in) - 1 /\ Len(in) \in Nat
      BY <2>1, TailLen DEF DispatchRecv
    <3>2. dpc = "select" /\ dpc' = "stages" /\ UNCHANGED <<accepted, dispatched, stageDrops>>
      BY <2>1 DEF DispatchRecv
    <3> QED
      BY <3>1, <3>2
  <2>2. CASE StageDrop \/ FanOut
    <3>1. /\ Len(in) \in Nat /\ UNCHANGED <<in, accepted>>
          /\ dpc = "stages" /\ dpc' # "stages"
          /\ \/ stageDrops' = stageDrops + 1 /\ dispatched' = dispatched
             \/ dispatched' = dispatched + 1 /\ stageDrops' = stageDrops
      BY <2>2 DEF StageDrop, FanOut, ingestVars
    <3> QED
      BY <3>1
  <2>3. CASE PushSend
    BY <2>3 DEF PushSend, AfterPush, ingestVars
  <2>4. CASE DispatchQuit \/ DispatchExit \/ PushFull \/ PushDropOldest \/ PushRacedEmpty
    BY <2>4 DEF DispatchQuit, DispatchExit, PushFull, PushDropOldest, PushRacedEmpty,
                ingestVars
  <2> QED
    BY <1>2, <2>1, <2>2, <2>3, <2>4 DEF DispatcherStep
<1>3. CASE UNCHANGED ingestVars /\ UNCHANGED dispVars
  BY <1>3 DEF ingestVars, dispVars
<1> QED
  BY <1>1, <1>2, <1>3 DEF Next, vars, WorkerStep, WorkerRecv, ConsumeReturn, WorkerQuit,
     WorkerExit, CloserStep, CloseCall, CloseAgain, CloseOnceDone, CloseAttachWait,
     CloseWorkersWait, CloseSink

(* Submit loses nothing that r.in accepted: IngestAccounting always holds. *)
THEOREM IngestLossless == Spec => []IngestAccounting
<1>1. Init => IngestAccounting
  BY DEF Init, IngestAccounting
<1> QED
  BY <1>1, IngestStep, TypeCorrect, PTL DEF Spec

(* The sums in which the steps on a sink move a unit around. *)
LEMMA SumPush ==
  ASSUME NEW a \in Nat, NEW b \in Nat, NEW l \in Nat, NEW c \in Nat
  PROVE  a + b + (l + 1) + c = (a + b + l + c) + 1
OBVIOUS
LEMMA SumDrop ==
  ASSUME NEW a \in Nat, NEW b \in Nat, NEW l \in Nat, NEW c \in Nat
  PROVE  a + (b + 1) + (l - 1) + c = a + b + l + c
OBVIOUS
LEMMA SumRecv ==
  ASSUME NEW a \in Nat, NEW b \in Nat, NEW l \in Nat
  PROVE  a + b + (l - 1) + 1 = a + b + l + 0
OBVIOUS
LEMMA SumConsumed ==
  ASSUME NEW a \in Nat, NEW b \in Nat, NEW l \in Nat
  PROVE  (a + 1) + b + l + 0 = a + b + l + 1
OBVIOUS
LEMMA SumOne == ASSUME NEW d \in Nat PROVE (d - 1) + 1 = d
OBVIOUS

LEMMA SinkStep ==
  ASSUME TypeOK, SinkAccounting, [Next]_vars PROVE SinkAccounting'
<1> SUFFICES ASSUME NEW t \in Sinks PROVE Pushed(t)' = Held(t)'
  BY DEF SinkAccounting
<1> DEFINE a == consumed[t]
           b == drops[t]
           l == Len(ring[t])
           c == Consuming(t)
<1>0. /\ dispatched \in Nat /\ at \in Nat /\ t \in Nat
      /\ a \in Nat /\ b \in Nat /\ l \in Nat /\ c \in Nat
      /\ Pushed(t) = Held(t) /\ Held(t) = a + b + l + c
  BY DEF TypeOK, TypeDispatch, TypeRings, TypeWorkers, SinkAccounting, Consuming, Held, Sinks
<1>1. ASSUME UNCHANGED dispVars PROVE Pushed(t)' = Pushed(t)
  BY <1>1 DEF Pushed, Pushing, dispVars
<1>2. ASSUME UNCHANGED sinkVars, UNCHANGED workerVars PROVE Held(t)' = Held(t)
  BY <1>2 DEF Held, Consuming, sinkVars, workerVars
<1>3. ASSUME DispatcherStep PROVE Pushed(t)' = Held(t)'
  <2>1. CASE FanOut
    <3>1. Pushed(t)' = Pushed(t)
      BY <1>0, <2>1 DEF FanOut, Pushed, Pushing, Sinks
    <3> QED
      BY <1>0, <1>2, <2>1, <3>1 DEF FanOut
  <2>2. CASE DispatchRecv \/ DispatchQuit \/ DispatchExit \/ StageDrop \/ PushFull
             \/ PushRacedEmpty
    <3>1. Pushed(t)' = Pushed(t)
      BY <2>2 DEF DispatchRecv, DispatchQuit, DispatchExit, StageDrop, PushFull,
                  PushRacedEmpty, Pushed, Pushing
    <3> QED
      BY <1>0, <1>2, <2>2, <3>1 DEF DispatchRecv, DispatchQuit, DispatchExit, StageDrop,
                                    PushFull, PushRacedEmpty
  <2>3. CASE PushSend
    <3>1. dispatched' = dispatched /\ dpc = "push" /\ AfterPush
      BY <2>3 DEF PushSend
    <3>2. CASE t = at
      <4>1. Pushed(t) = dispatched - 1 /\ Pushed(t)' = dispatched
        BY <1>0, <3>1, <3>2 DEF AfterPush, Pushed, Pushing
      <4>2. /\ ring'[t] = Append(ring[t], cur) /\ ring[t] \in Seq(Nat) /\ cur \in Nat
            /\ consumed' = consumed /\ drops' = drops /\ wpc' = wpc
        BY <2>3, <3>2 DEF PushSend, workerVars, TypeOK, TypeRings, TypeDispatch
      <4>3. Held(t)' = a + b + (l + 1) + c
        BY <4>2, AppendLen DEF Held, Consuming
      <4> HIDE DEF a, b, l, c
      <4>4. Held(t)' = (a + b + l + c) + 1
        BY <1>0, <4>3, SumPush
      <4> QED
        BY <1>0, <4>1, <4>4, SumOne
    <3>3. CASE t # at
      <4>1. Pushed(t)' = Pushed(t)
        <5>1. CASE at < NSinks /\ dpc' = "push" /\ at' = at + 1
          BY <1>0, <3>1, <3>3, <5>1 DEF Pushed, Pushing
        <5>2. CASE at = NSinks /\ dpc' = "select" /\ at' = at
          BY <1>0, <3>1, <3>3, <5>2 DEF Pushed, Pushing, Sinks
        <5> QED
          BY <3>1, <5>1, <5>2 DEF AfterPush
      <4>2. ring'[t] = ring[t] /\ UNCHANGED <<consumed, drops, wpc>>
        BY <2>3, <3>3 DEF PushSend, workerVars, TypeOK, TypeRings
      <4>3. Held(t)' = Held(t)
        BY <4>2 DEF Held, Consuming
      <4> QED
        BY <1>0, <4>1, <4>3
    <3> QED
      BY <3>2, <3>3
  <2>4. CASE PushDropOldest
    <3>1. Pushed(t)' = Pushed(t)
      BY <2>4 DEF PushDropOldest, Pushed, Pushing
    <3>2. consumed' = consumed /\ wpc' = wpc
      BY <2>4 DEF PushDropOldest, workerVars
    <3>3. CASE t = at
      <4>1. /\ ring[t] # << >> /\ ring[t] \in Seq(Nat) /\ ring'[t] = Tail(ring[t])
            /\ drops'[t] = drops[t] + 1
        BY <2>4, <3>3 DEF PushDropOldest, TypeOK, TypeRings
      <4>2. Held(t)' = a + (b + 1) + (l - 1) + c
        BY <3>2, <4>1, TailLen DEF Held, Consuming
      <4> HIDE DEF a, b, l, c
      <4>3. Held(t)' = a + b + l + c
        BY <1>0, <4>2, SumDrop
      <4> QED
        BY <1>0, <3>1, <4>3
    <3>4. CASE t # at
      <4>1. ring'[t] = ring[t] /\ drops'[t] = drops[t]
        BY <2>4, <3>4 DEF PushDropOldest, TypeOK, TypeRings
      <4>2. Held(t)' = Held(t)
        BY <3>2, <4>1 DEF Held, Consuming
      <4> QED
        BY <1>0, <3>1, <4>2
    <3> QED
      BY <3>3, <3>4
  <2> QED
    BY <1>3, <2>1, <2>2, <2>3, <2>4 DEF DispatcherStep
<1>4. ASSUME NEW s \in Sinks, WorkerStep(s) PROVE Pushed(t)' = Held(t)'
  <2>1. Pushed(t)' = Pushed(t)
    BY <1>1, <1>4 DEF WorkerStep, WorkerRecv, ConsumeReturn, WorkerQuit, WorkerExit
  <2>2. CASE WorkerRecv(s)
    <3>1. consumed' = consumed /\ drops' = drops /\ wpc[s] = "select"
      BY <2>2 DEF WorkerRecv
    <3>2. CASE t = s
      <4>1. /\ ring[t] # << >> /\ ring[t] \in Seq(Nat) /\ ring'[t] = Tail(ring[t])
            /\ wpc'[t] = "consume"
        BY <2>2, <3>2 DEF WorkerRecv, TypeOK, TypeRings, TypeWorkers
      <4>2. Held(t)' = a + b + (l - 1) + 1 /\ c = 0
        BY <3>1, <3>2, <4>1, TailLen DEF Held, Consuming
      <4> HIDE DEF a, b, l, c
      <4>3. Held(t)' = a + b + l + 0
        BY <1>0, <4>2, SumRecv
      <4> QED
        BY <1>0, <2>1, <4>2, <4>3
    <3>3. CASE t # s
      <4>1. ring'[t] = ring[t] /\ wpc'[t] = wpc[t]
        BY <2>2, <3>3 DEF WorkerRecv, TypeOK, TypeRings, TypeWorkers
      <4>2. Held(t)' = Held(t)
        BY <3>1, <4>1 DEF Held, Consuming
      <4> QED
        BY <1>0, <2>1, <4>2
    <3> QED
      BY <3>2, <3>3
  <2>3. CASE ConsumeReturn(s)
    <3>1. ring' = ring /\ drops' = drops /\ wpc[s] = "consume"
      BY <2>3 DEF ConsumeReturn, sinkVars
    <3>2. CASE t = s
      <4>1. consumed'[t] = consumed[t] + 1 /\ wpc'[t] = "select"
        BY <2>3, <3>2 DEF ConsumeReturn, TypeOK, TypeWorkers
      <4>2. Held(t)' = (a + 1) + b + l + 0 /\ c = 1
        BY <3>1, <3>2, <4>1 DEF Held, Consuming
      <4> HIDE DEF a, b, l, c
      <4>3. Held(t)' = a + b + l + 1
        BY <1>0, <4>2, SumConsumed
      <4> QED
        BY <1>0, <2>1, <4>2, <4>3
    <3>3. CASE t # s
      <4>1. consumed'[t] = consumed[t] /\ wpc'[t] = wpc[t]
        BY <2>3, <3>3 DEF ConsumeReturn, TypeOK, TypeWorkers
      <4>2. Held(t)' = Held(t)
        BY <3>1, <4>1 DEF Held, Consuming
      <4> QED
        BY <1>0, <2>1, <4>2
    <3> QED
      BY <3>2, <3>3
  <2>4. CASE WorkerQuit(s) \/ WorkerExit(s)
    <3>1. /\ ring' = ring /\ drops' = drops /\ consumed' = consumed
          /\ Consuming(t)' = Consuming(t)
      BY <2>4 DEF WorkerQuit, WorkerExit, sinkVars, TypeOK, TypeWorkers, Consuming
    <3>2. Held(t)' = Held(t)
      BY <3>1 DEF Held
    <3> QED
      BY <1>0, <2>1, <3>2
  <2> QED
    BY <1>4, <2>2, <2>3, <2>4 DEF WorkerStep
<1>5. CASE UNCHANGED dispVars /\ UNCHANGED sinkVars /\ UNCHANGED workerVars
  BY <1>0, <1>1, <1>2, <1>5
<1> QED
  BY <1>3, <1>4, <1>5 DEF Next, vars, CallerStep, SubmitCall, SubmitSend, SubmitQuit,
     ForwarderExit, CloserStep, CloseCall, CloseAgain, CloseOnceDone, CloseAttachWait,
     CloseWorkersWait, CloseSink

(* A sink loses nothing but what w.drops counts: SinkAccounting always holds. *)
THEOREM SinkLossCounted == Spec => []SinkAccounting
<1>1. Init => SinkAccounting
  BY DEF Init, SinkAccounting, Pushed, Pushing, Held, Consuming
<1> QED
  BY <1>1, SinkStep, TypeCorrect, PTL DEF Spec

-----------------------------------------------------------------------------
(* Order: a sink consumes in the order of ingest.                            *)

LEMMA AppendIncreasing ==
  ASSUME NEW q \in Seq(Nat), NEW x \in Nat, NEW lo \in Nat, Increasing(q), lo < x,
         \A i \in 1 .. Len(q) : lo < q[i] /\ q[i] < x
  PROVE  /\ Increasing(Append(q, x))
         /\ \A i \in 1 .. Len(Append(q, x)) :
              lo < Append(q, x)[i] /\ Append(q, x)[i] < x + 1
BY DEF Increasing

LEMMA TailIncreasing ==
  ASSUME NEW q \in Seq(Nat), q # << >>, Increasing(q)
  PROVE  /\ Increasing(Tail(q))
         /\ Head(q) = q[1] /\ 1 \in 1 .. Len(q)
         /\ \A i \in 1 .. Len(Tail(q)) :
              Tail(q)[i] = q[i + 1] /\ i + 1 \in 1 .. Len(q) /\ Head(q) < Tail(q)[i]
<1>1. Len(q) \in Nat /\ Len(q) > 0 /\ Len(Tail(q)) = Len(q) - 1 /\ Head(q) = q[1]
  OBVIOUS
<1>2. \A i \in 1 .. Len(Tail(q)) : Tail(q)[i] = q[i + 1] /\ i + 1 \in 1 .. Len(q)
  OBVIOUS
<1>3. \A i \in 1 .. Len(Tail(q)) : q[1] < q[i + 1]
  BY <1>1, <1>2 DEF Increasing
<1>4. Increasing(Tail(q))
  BY <1>1, <1>2 DEF Increasing
<1> QED
  BY <1>1, <1>2, <1>3, <1>4

LEMMA OrderStep ==
  ASSUME TypeOK, TicketOrder, [Next]_vars PROVE TicketOrder'
<1> USE DEF TypeOK, TypeIngest, TypeDispatch, TypeRings, TypeWorkers
<1>1. CASE UNCHANGED <<in, accepted, dispVars, sinkVars, workerVars>>
  BY <1>1 DEF TicketOrder, QueueOrder, SinkOrder, Increasing, Upstream, Pushing, dispVars,
              sinkVars, workerVars
<1>2. ASSUME NEW c \in Callers, SubmitSend(c) PROVE TicketOrder'
  <2>1. QueueOrder'
    <3>1. /\ Len(in) \in Nat /\ Len(in') = Len(in) + 1
          /\ \A i \in 1 .. Len(in) : in'[i] = in[i]
          /\ in'[Len(in) + 1] = accepted + 1
      BY <1>2 DEF SubmitSend
    <3>2. accepted' = accepted + 1 /\ cur' = cur
      BY <1>2 DEF SubmitSend, dispVars
    <3> SUFFICES ASSUME NEW i \in 1 .. Len(in')
                 PROVE in'[i] = accepted' - Len(in') + i
      BY <3>1, <3>2 DEF TicketOrder, QueueOrder
    <3>3. CASE i \in 1 .. Len(in)
      BY <3>1, <3>2, <3>3 DEF TicketOrder, QueueOrder
    <3>4. CASE i = Len(in) + 1
      BY <3>1, <3>2, <3>4
    <3> QED
      BY <3>1, <3>3, <3>4
  <2>2. ASSUME NEW s \in Sinks PROVE SinkOrder(s)'
    BY <1>2, <2>2 DEF SubmitSend, TicketOrder, SinkOrder, Increasing, Upstream, Pushing,
                      dispVars, sinkVars, workerVars
  <2> QED
    BY <2>1, <2>2 DEF TicketOrder
<1>3. ASSUME DispatcherStep PROVE TicketOrder'
  <2>1. CASE DispatchRecv
    <3>1. QueueOrder'
      BY <2>1 DEF DispatchRecv, TicketOrder, QueueOrder
    <3>2. cur' = cur + 1
      BY <2>1, <3>1 DEF DispatchRecv, TicketOrder, QueueOrder
    <3>3. ASSUME NEW s \in Sinks PROVE SinkOrder(s)'
      <4>1. Upstream(s)' = Upstream(s)
        BY <2>1, <3>2 DEF DispatchRecv, Upstream, Pushing
      <4>2. SinkOrder(s) /\ UNCHANGED <<ring, last>>
        BY <2>1 DEF DispatchRecv, TicketOrder, sinkVars, workerVars
      <4> HIDE DEF TypeOK, TypeIngest, TypeDispatch, TypeRings, TypeWorkers
      <4> QED
        BY <4>1, <4>2 DEF SinkOrder, Increasing
    <3> QED
      BY <3>1, <3>3 DEF TicketOrder
  <2>2. CASE DispatchQuit \/ DispatchExit \/ StageDrop \/ FanOut \/ PushFull
             \/ PushRacedEmpty
    <3>1. UNCHANGED <<in, accepted, cur, ring, last>>
      BY <2>2 DEF DispatchQuit, DispatchExit, StageDrop, FanOut, PushFull, PushRacedEmpty,
                  ingestVars, sinkVars, workerVars
    <3>2. ASSUME NEW s \in Sinks PROVE SinkOrder(s)'
      <4>1. Upstream(s)' \in {Upstream(s), Upstream(s) + 1} /\ Upstream(s) \in Nat
        <5>1. CASE FanOut
          BY <5>1 DEF FanOut, Upstream, Pushing, Sinks
        <5>2. CASE StageDrop
          BY <5>2 DEF StageDrop, Upstream, Pushing
        <5>3. CASE DispatchQuit \/ DispatchExit
          <6>1. UNCHANGED <<cur, at>> /\ dpc = "select" /\ dpc' \in {"select", "done"}
            BY <5>3 DEF DispatchQuit, DispatchExit
          <6> QED
            BY <6>1 DEF Upstream, Pushing
        <5>4. CASE PushFull \/ PushRacedEmpty
          <6>1. UNCHANGED <<cur, at>> /\ dpc \in {"push", "full"} /\ dpc' \in {"push", "full"}
            BY <5>4 DEF PushFull, PushRacedEmpty
          <6> QED
            BY <6>1 DEF Upstream, Pushing
        <5> QED
          BY <2>2, <5>1, <5>2, <5>3, <5>4
      <4>2. SinkOrder(s) /\ last[s] \in Nat /\ \A i \in 1 .. Len(ring[s]) : ring[s][i] \in Nat
        BY DEF TicketOrder
      <4> HIDE DEF TypeOK, TypeIngest, TypeDispatch, TypeRings, TypeWorkers
      <4> QED
        BY <3>1, <4>1, <4>2 DEF SinkOrder, Increasing
    <3> QED
      BY <3>1, <3>2 DEF TicketOrder, QueueOrder
  <2>3. CASE PushSend
    <3>1. UNCHANGED <<in, accepted, cur, last>> /\ dpc = "push"
      BY <2>3 DEF PushSend, ingestVars, workerVars
    <3>2. ASSUME NEW s \in Sinks PROVE SinkOrder(s)'
      <4>1. Upstream(s)' = IF s = at THEN cur + 1 ELSE Upstream(s)
        <5>1. AfterPush
          BY <2>3 DEF PushSend
        <5>2. CASE at < NSinks /\ dpc' = "push" /\ at' = at + 1
          BY <3>1, <5>2 DEF Upstream, Pushing, Sinks
        <5>3. CASE at = NSinks /\ dpc' = "select" /\ at' = at
          BY <3>1, <5>3 DEF Upstream, Pushing, Sinks
        <5> QED
          BY <5>1, <5>2, <5>3 DEF AfterPush
      <4>2. CASE s = at
        <5>1. Upstream(s) = cur
          BY <3>1, <4>2 DEF Upstream, Pushing, Sinks
        <5>2. ring'[s] = Append(ring[s], cur)
          BY <2>3, <4>2 DEF PushSend
        <5> QED
          <6>1. ring[s] \in Seq(Nat) /\ last[s] \in Nat
            OBVIOUS
          <6>2. /\ Increasing(Append(ring[s], cur))
                /\ \A i \in 1 .. Len(Append(ring[s], cur)) :
                     last[s] < Append(ring[s], cur)[i] /\ Append(ring[s], cur)[i] < cur + 1
            BY <5>1, <6>1, AppendIncreasing DEF TicketOrder, SinkOrder
          <6>3. last[s] < cur + 1
            BY <5>1, <6>1 DEF TicketOrder, SinkOrder
          <6> HIDE DEF TypeOK, TypeIngest, TypeDispatch, TypeRings, TypeWorkers
          <6> QED
            BY <3>1, <4>1, <4>2, <5>2, <6>2, <6>3 DEF SinkOrder, Increasing
      <4>3. CASE s # at
        <5>1. ring'[s] = ring[s]
          BY <2>3, <4>3 DEF PushSend
        <5>2. SinkOrder(s)
          BY DEF TicketOrder
        <5> HIDE DEF TypeOK, TypeIngest, TypeDispatch, TypeRings, TypeWorkers
        <5> QED
          BY <3>1, <4>1, <4>3, <5>1, <5>2 DEF SinkOrder, Increasing
      <4> QED
        BY <4>2, <4>3
    <3> QED
      BY <3>1, <3>2 DEF TicketOrder, QueueOrder
  <2>4. CASE PushDropOldest
    <3>1. UNCHANGED <<in, accepted, cur, at, last>>
      BY <2>4 DEF PushDropOldest, ingestVars, workerVars
    <3>2. ASSUME NEW s \in Sinks PROVE SinkOrder(s)'
      <4>1. Upstream(s)' = Upstream(s)
        BY <2>4 DEF PushDropOldest, Upstream, Pushing
      <4>2. CASE s = at
        <5>1. ring[s] # << >> /\ ring'[s] = Tail(ring[s])
          BY <2>4, <4>2 DEF PushDropOldest
        <5>2. ring[s] \in Seq(Nat) /\ SinkOrder(s)
          BY DEF TicketOrder
        <5>3. /\ Increasing(Tail(ring[s]))
              /\ \A i \in 1 .. Len(Tail(ring[s])) :
                   last[s] < Tail(ring[s])[i] /\ Tail(ring[s])[i] < Upstream(s)
          BY <5>1, <5>2, TailIncreasing DEF SinkOrder
        <5> HIDE DEF TypeOK, TypeIngest, TypeDispatch, TypeRings, TypeWorkers
        <5> QED
          BY <3>1, <4>1, <5>1, <5>2, <5>3 DEF SinkOrder, Increasing
      <4>3. CASE s # at
        <5>1. ring'[s] = ring[s]
          BY <2>4, <4>3 DEF PushDropOldest
        <5> QED
          BY <3>1, <4>1, <5>1 DEF TicketOrder, SinkOrder, Increasing
      <4> QED
        BY <4>2, <4>3
    <3> QED
      BY <3>1, <3>2 DEF TicketOrder, QueueOrder
  <2> QED
    BY <1>3, <2>1, <2>2, <2>3, <2>4 DEF DispatcherStep
<1>4. ASSUME NEW w \in Sinks, WorkerRecv(w) PROVE TicketOrder'
  <2>1. UNCHANGED <<in, accepted, cur, at, dpc>>
    BY <1>4 DEF WorkerRecv, ingestVars, dispVars
  <2>2. ASSUME NEW s \in Sinks PROVE SinkOrder(s)'
    <3>1. Upstream(s)' = Upstream(s)
      BY <2>1 DEF Upstream, Pushing
    <3>2. CASE s = w
      <4>1. ring[s] # << >> /\ ring'[s] = Tail(ring[s]) /\ last'[s] = Head(ring[s])
        BY <1>4, <3>2 DEF WorkerRecv
      <4>2. ring[s] \in Seq(Nat) /\ SinkOrder(s)
        BY DEF TicketOrder
      <4> HIDE DEF TypeOK, TypeIngest, TypeDispatch, TypeRings, TypeWorkers
      <4>3. /\ Increasing(Tail(ring[s]))
            /\ \A i \in 1 .. Len(Tail(ring[s])) :
                 Head(ring[s]) < Tail(ring[s])[i] /\ Tail(ring[s])[i] < Upstream(s)
            /\ Head(ring[s]) < Upstream(s)
        BY <4>1, <4>2, TailIncreasing, Zenon DEF SinkOrder
      <4> QED
        BY <3>1, <4>1, <4>3 DEF SinkOrder, Increasing
    <3>3. CASE s # w
      <4>1. ring'[s] = ring[s] /\ last'[s] = last[s]
        BY <1>4, <3>3 DEF WorkerRecv
      <4>2. SinkOrder(s)
        BY DEF TicketOrder
      <4> HIDE DEF TypeOK, TypeIngest, TypeDispatch, TypeRings, TypeWorkers
      <4> QED
        BY <3>1, <4>1, <4>2 DEF SinkOrder, Increasing
    <3> QED
      BY <3>2, <3>3
  <2> QED
    BY <2>1, <2>2 DEF TicketOrder, QueueOrder
<1>5. ASSUME NEW w \in Sinks, ConsumeReturn(w) \/ WorkerQuit(w) \/ WorkerExit(w)
      PROVE TicketOrder'
  <2>1. UNCHANGED <<in, accepted, dpc, cur, at, ring, last>>
    BY <1>5 DEF ConsumeReturn, WorkerQuit, WorkerExit, ingestVars, dispVars, sinkVars
  <2> QED
    BY <2>1 DEF TicketOrder, QueueOrder, SinkOrder, Increasing, Upstream, Pushing
<1> QED
  BY <1>1, <1>2, <1>3, <1>4, <1>5 DEF Next, vars, CallerStep, SubmitCall, SubmitQuit,
     ForwarderExit, WorkerStep, CloserStep, CloseCall, CloseAgain, CloseOnceDone,
     CloseAttachWait, CloseWorkersWait, CloseSink, ingestVars

(* Tickets increase from every sink's last event up to the ingest queue. *)
THEOREM OrderInvariant == Spec => []TicketOrder
<1>1. Init => TicketOrder
  <2> SUFFICES ASSUME Init PROVE TicketOrder
    OBVIOUS
  <2>1. /\ Len(in) = 0 /\ accepted = 0 /\ cur = 0 /\ dpc = "select"
        /\ \A s \in Sinks : Len(ring[s]) = 0 /\ last[s] = 0
    BY DEF Init
  <2> QED
    BY <2>1 DEF TicketOrder, QueueOrder, SinkOrder, Increasing, Upstream, Pushing
<1> QED
  BY <1>1, OrderStep, TypeCorrect, PTL DEF Spec

(* No sink is ever handed an event out of ingest order, or twice. *)
THEOREM SinksConsumeInOrder == Spec => ConsumeInOrder
<1>1. TypeOK /\ TicketOrder /\ [Next]_vars
        => [\A s \in Sinks : last'[s] # last[s] => last'[s] > last[s]]_vars
  <2> SUFFICES ASSUME TypeOK, TicketOrder, Next, NEW s \in Sinks, last'[s] # last[s]
               PROVE  last'[s] > last[s]
    OBVIOUS
  <2>1. PICK w \in Sinks : WorkerRecv(w)
    BY DEF Next, CallerStep, SubmitCall, SubmitSend, SubmitQuit, ForwarderExit,
       DispatcherStep, DispatchRecv, DispatchQuit, DispatchExit, StageDrop, FanOut,
       PushSend, PushFull, PushDropOldest, PushRacedEmpty, WorkerStep, ConsumeReturn,
       WorkerQuit, WorkerExit, CloserStep, CloseCall, CloseAgain, CloseOnceDone,
       CloseAttachWait, CloseWorkersWait, CloseSink, workerVars
  <2>2. w = s /\ ring[s] # << >> /\ last'[s] = Head(ring[s])
    BY <2>1 DEF WorkerRecv, TypeOK, TypeWorkers
  <2> QED
    BY <2>2, TailIncreasing DEF TypeOK, TypeRings, TypeWorkers, TicketOrder, SinkOrder
<1> QED
  BY <1>1, TypeCorrect, OrderInvariant, PTL DEF Spec, ConsumeInOrder

(* What a push drops is older than everything left in the ring and than the event
   it makes room for: the newest event is never the one lost.                    *)
THEOREM NewestIsKept == Spec => DropsOldest
<1>1. TypeOK /\ TicketOrder /\ [Next]_vars
        => [\A s \in Sinks : drops'[s] # drops[s] =>
              /\ at = s /\ ring[s][1] < cur
              /\ \A i \in 1 .. Len(ring'[s]) : ring[s][1] < ring'[s][i]]_vars
  <2> SUFFICES ASSUME TypeOK, TicketOrder, Next, NEW s \in Sinks, drops'[s] # drops[s]
               PROVE  /\ at = s /\ ring[s][1] < cur
                      /\ \A i \in 1 .. Len(ring'[s]) : ring[s][1] < ring'[s][i]
    OBVIOUS
  <2>1. PushDropOldest
    BY DEF Next, CallerStep, SubmitCall, SubmitSend, SubmitQuit, ForwarderExit,
       DispatcherStep, DispatchRecv, DispatchQuit, DispatchExit, StageDrop, FanOut,
       PushSend, PushFull, PushRacedEmpty, WorkerStep, WorkerRecv, ConsumeReturn,
       WorkerQuit, WorkerExit, CloserStep, CloseCall, CloseAgain, CloseOnceDone,
       CloseAttachWait, CloseWorkersWait, CloseSink, sinkVars
  <2>2. /\ at = s /\ dpc = "full"
        /\ ring[s] \in Seq(Nat) /\ ring[s] # << >> /\ ring'[s] = Tail(ring[s])
    BY <2>1 DEF PushDropOldest, TypeOK, TypeRings
  <2>3. Upstream(s) = cur
    BY <2>2 DEF Upstream, Pushing, Sinks
  <2>4. SinkOrder(s)
    BY DEF TicketOrder
  <2> QED
    BY <2>2, <2>3, <2>4, TailIncreasing DEF SinkOrder
<1> QED
  BY <1>1, TypeCorrect, OrderInvariant, PTL DEF Spec, DropsOldest

-----------------------------------------------------------------------------
(* Close.                                                                    *)

(* A goroutine that has ended takes no further step. *)
LEMMA DoneStays ==
  ASSUME TypeOK, [Next]_vars
  PROVE  /\ dpc = "done" => dpc' = "done"
         /\ \A s \in Sinks : wpc[s] = "done" => wpc'[s] = "done"
         /\ \A f \in Forwarders : caller[f] = "done" => caller'[f] = "done"
<1>1. ASSUME NEW c \in Callers, CallerStep(c)
      PROVE  UNCHANGED <<dpc, wpc>> /\ \A f \in Forwarders : caller[f] = "done" => caller'[f] = "done"
  BY <1>1 DEF CallerStep, SubmitCall, SubmitSend, SubmitQuit, ForwarderExit, dispVars,
     workerVars, TypeOK, TypeIngest, Callers
<1>2. ASSUME DispatcherStep PROVE UNCHANGED <<wpc, caller>> /\ dpc # "done"
  BY <1>2 DEF DispatcherStep, DispatchRecv, DispatchQuit, DispatchExit, StageDrop, FanOut,
     PushSend, PushFull, PushDropOldest, PushRacedEmpty, workerVars, ingestVars
<1>3. ASSUME NEW w \in Sinks, WorkerStep(w)
      PROVE  UNCHANGED <<dpc, caller>> /\ \A s \in Sinks : wpc[s] = "done" => wpc'[s] = "done"
  BY <1>3 DEF WorkerStep, WorkerRecv, ConsumeReturn, WorkerQuit, WorkerExit, dispVars,
     ingestVars, TypeOK, TypeWorkers
<1>4. ASSUME NEW k \in Closers, CloserStep(k) PROVE UNCHANGED <<dpc, wpc, caller>>
  BY <1>4 DEF CloserStep, CloseCall, CloseAgain, CloseOnceDone, CloseAttachWait,
     CloseWorkersWait, CloseSink, dispVars, workerVars, ingestVars
<1>5. CASE UNCHANGED vars
  BY <1>5 DEF vars, dispVars, workerVars, ingestVars
<1> QED
  BY <1>1, <1>2, <1>3, <1>4, <1>5 DEF Next

LEMMA CloseStep ==
  ASSUME TypeOK, CloseOrder, [Next]_vars PROVE CloseOrder'
<1>1. /\ \A f \in Forwarders : caller[f] = "done" => caller'[f] = "done"
      /\ GoroutinesDone => GoroutinesDone'
  BY DoneStays DEF GoroutinesDone
<1>2. CASE UNCHANGED closeVars
  BY <1>1, <1>2 DEF closeVars, CloseOrder, Running
<1>3. ASSUME NEW k \in Closers, CloserStep(k) PROVE CloseOrder'
  <2> USE DEF TypeOK, TypeClose, Running
  <2>0. UNCHANGED <<dpc, wpc, caller>>
    BY <1>3 DEF CloserStep, CloseCall, CloseAgain, CloseOnceDone, CloseAttachWait,
       CloseWorkersWait, CloseSink, dispVars, workerVars, ingestVars
  <2>1. CASE CloseCall(k)
    BY <1>1, <2>1 DEF CloseCall, CloseOrder
  <2>2. CASE CloseAgain(k) \/ CloseOnceDone(k)
    BY <1>1, <2>2 DEF CloseAgain, CloseOnceDone, CloseOrder
  <2>3. CASE CloseAttachWait(k)
    BY <1>1, <2>0, <2>3 DEF CloseAttachWait, CloseOrder
  <2>4. CASE CloseWorkersWait(k)
    <3>1. GoroutinesDone /\ closedSinks # NSinks
      BY <2>4 DEF CloseWorkersWait, CloseOrder, GoroutinesDone
    <3> QED
      BY <1>1, <2>4, <3>1 DEF CloseWorkersWait, CloseOrder
  <2>5. CASE CloseSink(k)
    <3>1. GoroutinesDone' /\ once = "running" /\ \A l \in Closers \ {k} : ~Running(l)
      BY <1>1, <2>5 DEF CloseSink, CloseOrder
    <3> QED
      BY <1>1, <2>5, <3>1 DEF CloseSink, CloseOrder
  <2> QED
    BY <1>3, <2>1, <2>2, <2>3, <2>4, <2>5 DEF CloserStep
<1> QED
  BY <1>2, <1>3 DEF Next, vars, CallerStep, SubmitCall, SubmitSend, SubmitQuit,
     ForwarderExit, DispatcherStep, DispatchRecv, DispatchQuit, DispatchExit, StageDrop,
     FanOut, PushSend, PushFull, PushDropOldest, PushRacedEmpty, WorkerStep, WorkerRecv,
     ConsumeReturn, WorkerQuit, WorkerExit

(* Close closes a sink only when nothing can reach it any more, and no call of
   Close returns before every sink is closed.                                  *)
THEOREM CloseIsOrdered == Spec => []CloseAfterWorkers
<1>1. Init => CloseOrder
  BY DEF Init, CloseOrder, Running
<1>2. CloseOrder => CloseAfterWorkers
  BY DEF CloseOrder, CloseAfterWorkers
<1> QED
  BY <1>1, <1>2, CloseStep, TypeCorrect, PTL DEF Spec

-----------------------------------------------------------------------------
(* Refinement: the runner implements LossyFeed.                              *)

(* Only a push and the fan-out change how much has been offered. *)
LEMMA OfferedFrame ==
  ASSUME UNCHANGED <<dpc, at, dispatched>>, NEW s \in Sinks
  PROVE  Pushed(s)' = Pushed(s)
BY DEF Pushed, Pushing

LEMMA FeedStep ==
  ASSUME TypeOK, TicketOrder, [Next]_vars PROVE [Feed!Next]_(Feed!vars)
<1> DEFINE offered == [s \in Sinks |-> Pushed(s)]
<1> USE DEF TypeOK, TypeDispatch, TypeRings, TypeWorkers
<1>1. ASSUME UNCHANGED <<cur, dpc, at, dispatched, ring, drops, last>>
      PROVE  UNCHANGED Feed!vars
  BY <1>1, OfferedFrame DEF Feed!vars
<1>2. ASSUME DispatcherStep PROVE [Feed!Next]_(Feed!vars)
  <2>1. CASE DispatchRecv
    <3>1. cur' \in Nat /\ cur' > cur
      <4>1. /\ cur' = in[1] /\ Len(in) \in Nat /\ 1 \in 1 .. Len(in)
            /\ accepted \in Nat /\ cur \in Nat
        BY <2>1 DEF DispatchRecv, TypeIngest
      <4>2. in[1] = accepted - Len(in) + 1 /\ cur = accepted - Len(in)
        BY <4>1 DEF TicketOrder, QueueOrder
      <4> QED
        BY <4>1, <4>2
    <3>2. UNCHANGED <<dispatched, ring, drops, last>> /\ dpc = "select" /\ dpc' = "stages"
      BY <2>1 DEF DispatchRecv, sinkVars, workerVars
    <3>3. \A s \in Sinks : Pushed(s) = dispatched /\ Pushed(s)' = dispatched
      BY <3>2 DEF Pushed, Pushing
    <3> QED
      BY <3>1, <3>2, <3>3 DEF Feed!Next, Feed!Take, Feed!AllOffered
  <2>2. CASE StageDrop
    <3>1. /\ UNCHANGED <<cur, dispatched, ring, drops, last>>
          /\ dpc = "stages" /\ dpc' = "select"
      BY <2>2 DEF StageDrop, sinkVars, workerVars
    <3>2. offered' = offered
      BY <3>1 DEF Pushed, Pushing
    <3> QED
      BY <3>1, <3>2 DEF Feed!Next, Feed!Discard
  <2>3. CASE FanOut
    <3>1. /\ UNCHANGED <<cur, ring, drops, last>> /\ dispatched' = dispatched + 1
          /\ dpc = "stages" /\ dpc' = "push" /\ at' = 1
      BY <2>3 DEF FanOut, sinkVars, workerVars
    <3>2. offered' = offered
      BY <3>1 DEF Pushed, Pushing, Sinks
    <3> QED
      BY <3>1, <3>2 DEF Feed!Next, Feed!Publish
  <2>4. CASE PushSend
    <3>1. /\ UNCHANGED <<cur, dispatched, drops, last>> /\ dpc = "push" /\ dpc' # "stages"
          /\ Len(ring[at]) < SinkBuffer /\ AfterPush
          /\ ring' = [ring EXCEPT ![at] = Append(@, cur)]
      BY <2>4 DEF PushSend, AfterPush, workerVars
    <3>2. offered[at] = dispatched - 1 /\ offered[at] < dispatched
      BY <3>1 DEF Pushed, Pushing, Sinks
    <3>3. offered' = [offered EXCEPT ![at] = @ + 1]
      <4>1. ASSUME NEW s \in Sinks
            PROVE  Pushed(s)' = IF s = at THEN dispatched ELSE Pushed(s)
        <5>1. CASE at < NSinks /\ dpc' = "push" /\ at' = at + 1
          BY <3>1, <5>1 DEF Pushed, Pushing, Sinks
        <5>2. CASE at = NSinks /\ dpc' = "select" /\ at' = at
          BY <3>1, <5>2 DEF Pushed, Pushing, Sinks
        <5> QED
          BY <3>1, <5>1, <5>2 DEF AfterPush
      <4>2. offered' = [s \in Sinks |-> IF s = at THEN dispatched ELSE offered[s]]
        BY <4>1, Zenon
      <4>3. (dispatched - 1) + 1 = dispatched /\ at \in Sinks
        BY SumOne
      <4> QED
        BY <3>2, <4>2, <4>3
    <3> QED
      BY <3>1, <3>2, <3>3 DEF Feed!Next, Feed!Offer
  <2>5. CASE PushDropOldest
    <3>1. /\ UNCHANGED <<cur, at, dispatched, last>> /\ dpc = "full" /\ dpc' = "push"
          /\ ring[at] # << >> /\ ring' = [ring EXCEPT ![at] = Tail(@)]
          /\ drops' = [drops EXCEPT ![at] = @ + 1]
      BY <2>5 DEF PushDropOldest, workerVars
    <3>2. offered' = offered /\ offered[at] < dispatched
      BY <3>1 DEF Pushed, Pushing, Sinks
    <3> QED
      BY <3>1, <3>2 DEF Feed!Next, Feed!Lose
  <2>6. CASE DispatchQuit \/ DispatchExit \/ PushFull \/ PushRacedEmpty
    <3>1. /\ UNCHANGED <<cur, at, dispatched, ring, drops, last>>
          /\ dpc # "stages" /\ dpc' # "stages" /\ (Pushing <=> Pushing')
      BY <2>6 DEF DispatchQuit, DispatchExit, PushFull, PushRacedEmpty, Pushing, sinkVars,
                  workerVars
    <3>2. offered' = offered
      BY <3>1 DEF Pushed
    <3> QED
      BY <3>1, <3>2 DEF Feed!vars
  <2> QED
    BY <1>2, <2>1, <2>2, <2>3, <2>4, <2>5, <2>6 DEF DispatcherStep
<1>3. ASSUME NEW s \in Sinks, WorkerRecv(s) PROVE Feed!Deliver(s)
  <2>1. /\ UNCHANGED <<cur, dpc, at, dispatched, drops>> /\ ring[s] # << >>
        /\ ring' = [ring EXCEPT ![s] = Tail(@)]
        /\ last' = [last EXCEPT ![s] = Head(ring[s])]
    BY <1>3 DEF WorkerRecv, dispVars
  <2>2. offered' = offered
    BY <2>1, OfferedFrame
  <2> QED
    BY <2>1, <2>2 DEF Feed!Deliver
<1>4. ASSUME NEW s \in Sinks, ConsumeReturn(s) \/ WorkerQuit(s) \/ WorkerExit(s)
      PROVE  UNCHANGED <<dispVars, sinkVars, last>>
  BY <1>4 DEF ConsumeReturn, WorkerQuit, WorkerExit
<1>5. ASSUME NEW c \in Callers, CallerStep(c) PROVE UNCHANGED <<dispVars, sinkVars, last>>
  BY <1>5 DEF CallerStep, SubmitCall, SubmitSend, SubmitQuit, ForwarderExit, workerVars
<1>6. ASSUME NEW k \in Closers, CloserStep(k) PROVE UNCHANGED <<dispVars, sinkVars, last>>
  BY <1>6 DEF CloserStep, CloseCall, CloseAgain, CloseOnceDone, CloseAttachWait,
              CloseWorkersWait, CloseSink, workerVars
<1>7. UNCHANGED vars => UNCHANGED <<dispVars, sinkVars, last>>
  BY DEF vars, workerVars
<1>8. UNCHANGED <<dispVars, sinkVars, last>> => UNCHANGED Feed!vars
  BY <1>1 DEF dispVars, sinkVars
<1>9. ASSUME NEW s \in Sinks, WorkerStep(s) PROVE [Feed!Next]_(Feed!vars)
  BY <1>3, <1>4, <1>8, <1>9 DEF WorkerStep, Feed!Next
<1> QED
  BY <1>2, <1>5, <1>6, <1>7, <1>8, <1>9 DEF Next

(* The runner implements the abstract feed: for every number of sinks and every ring
   size, each sink gets a queue that loses only its oldest events, and counts them. *)
THEOREM RunnerImplementsFeed == Spec => ImplementsFeed
<1>1. Init => Feed!Init
  <2> SUFFICES ASSUME Init PROVE Feed!Init
    OBVIOUS
  <2>1. \A s \in Sinks : Pushed(s) = 0
    BY DEF Init, Pushed, Pushing
  <2> QED
    BY <2>1 DEF Init, Feed!Init
<1>2. TypeOK /\ TicketOrder /\ [Next]_vars => [Feed!Next]_(Feed!vars)
  BY FeedStep
<1> QED
  BY <1>1, <1>2, TypeCorrect, OrderInvariant, PTL DEF Spec, ImplementsFeed, Feed!Spec
=============================================================================
