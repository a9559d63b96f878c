--------------------------- MODULE EventSubProofs ---------------------------
(* The signed-in read path: what holds for any number of channels, goroutines *)
(* and events.                                                                *)
EXTENDS EventSub, FiniteSetTheorems, WellFoundedInduction, TLAPS

-----------------------------------------------------------------------------
(* Sign-out.                                                                  *)

(* A closed connection has no subscriptions, outside of a dial and a session the connection
   is closed, and run has ended once close has returned.                      *)
Hung ==
  /\ link = "dead" => tsub = NoTwitchSubs
  /\ rpc \in {"off", "flip", "flipirc", "sleep", "done"} => link = "dead"
  /\ apc \in {"rejoin", "done"} => rpc = "done"

(* The callers and most goroutines never touch the connection. *)
LEMMA ConnectionKept ==
  ASSUME Hung, UNCHANGED <<apc, rpc, link, tsub>>
  PROVE  Hung'
BY DEF Hung

(* What run does to the connection: every way out of a session closes it. *)
LEMMA RunHangs == ASSUME Hung, RunStep \/ Lose \/ SessionMoves PROVE Hung'
<1>1. CASE RunStops
  BY <1>1 DEF RunStops, HangUp, Hung, adapterVars
<1>2. CASE DialOk
  BY <1>2 DEF DialOk, Hung, adapterVars, Cancelled
<1>3. CASE DialFails
  BY <1>3 DEF DialFails, HangUp, Hung, adapterVars
<1>4. CASE Welcome
  BY <1>4 DEF Welcome, Hung, adapterVars
<1>5. CASE SessionLost
  BY <1>5 DEF SessionLost, Hung, adapterVars, twitchVars, Cancelled
<1>6. CASE \E c \in Channels : FlipCheck(c) \/ FlipIrc(c)
  BY <1>6 DEF FlipCheck, FlipIrc, Hung, adapterVars, twitchVars
<1>7. CASE FlipsDone
  BY <1>7 DEF FlipsDone, Hung, adapterVars, twitchVars
<1>8. CASE SleepDone
  BY <1>8 DEF SleepDone, Hung, adapterVars, twitchVars, Cancelled
<1>9. CASE Lose
  BY <1>9 DEF Lose, HangUp, Hung, adapterVars, runVars
<1>10. CASE SessionMoves
  BY <1>10 DEF SessionMoves, Hung, adapterVars
<1> QED
  BY <1>1, <1>2, <1>3, <1>4, <1>5, <1>6, <1>7, <1>8, <1>9, <1>10 DEF RunStep

(* The account's caller: close returns when run has ended. *)
LEMMA AccountWaits ==
  ASSUME Hung, Authenticate \/ Deauthenticate \/ SignInStep \/ SignOutStep
  PROVE  Hung'
<1>1. CASE Authenticate
  BY <1>1 DEF Authenticate, Hung, twitchVars
<1>2. CASE Deauthenticate
  BY <1>2 DEF Deauthenticate, Hung, runVars, twitchVars
<1>3. CASE SignInStep
  BY <1>3 DEF SignInStep, AuthenticateJoin, AuthenticateReturns, AccountGoes, Hung, runVars, twitchVars
<1>4. CASE SignOutStep
  BY <1>4 DEF SignOutStep, CancelSupervisor, AwaitSupervisor, Rejoin, DeauthenticateReturns, AccountGoes,
              Hung, runVars, twitchVars
<1> QED
  BY <1>1, <1>2, <1>3, <1>4

(* Requests: Twitch enables nothing for a session that is over, and a deletion only removes. *)
LEMMA RequestsEnableLive == ASSUME Hung, NEW w \in Workers, WorkerStep(w) PROVE Hung'
<1>1. CASE OnWelcome(w) \/ Start(w) \/ StartFails(w) \/ ReserveStale(w) \/ Reserve(w) \/ CreateConflict(w)
           \/ CreateRefused(w) \/ CreateForbidden(w) \/ Record(w) \/ Finish(w) \/ UpCheck(w) \/ UpIrc(w)
  <2>1. UNCHANGED <<apc, rpc, link, tsub>>
    BY <1>1 DEF OnWelcome, Start, StartFails, ReserveStale, Reserve, CreateConflict, CreateRefused, CreateForbidden,
                Record, Finish, UpCheck, UpIrc, adapterVars, runVars, twitchVars
  <2> QED
    BY <2>1, ConnectionKept
<1>2. CASE CreateOk(w) \/ CreateFails(w)
  <2>1. UNCHANGED <<apc, rpc, link>> /\ link # "dead"
    BY <1>2 DEF CreateOk, CreateFails, SessionKnown, adapterVars, runVars
  <2> QED
    BY <2>1 DEF Hung
<1>3. CASE RevokeStep(w)
  <2>1. UNCHANGED <<apc, rpc, link, tsub>>
    BY <1>3 DEF RevokeStep, RevokeUnknown, OnRevoke, DownCheck, DownIrc, adapterVars, runVars, twitchVars
  <2> QED
    BY <2>1, ConnectionKept
<1>4. ASSUME NEW i \in wids[w], Delete(w, i) PROVE Hung'
  <2>1. UNCHANGED <<apc, rpc, link>>
    BY <1>4 DEF Delete, adapterVars, runVars
  <2>2. ASSUME tsub = NoTwitchSubs PROVE tsub' = NoTwitchSubs
    <3>1. CASE UNCHANGED tsub
      BY <2>2, <3>1
    <3>2. CASE tsub' = [c \in Channels |-> [t \in DOMAIN Topics |-> IF tsub[c][t] = i THEN 0 ELSE tsub[c][t]]]
      <4>1. \A c \in Channels : [t \in DOMAIN Topics |-> IF tsub[c][t] = i THEN 0 ELSE tsub[c][t]] = NoSubs
        BY <2>2 DEF NoTwitchSubs, NoSubs
      <4> QED
        BY <3>2, <4>1 DEF NoTwitchSubs
    <3> QED
      BY <1>4, <3>1, <3>2 DEF Delete
  <2> QED
    BY <2>1, <2>2 DEF Hung
<1>5. CASE DeletesDone(w)
  <2>1. UNCHANGED <<apc, rpc, link, tsub>>
    BY <1>5 DEF DeletesDone, adapterVars, runVars, twitchVars
  <2> QED
    BY <2>1, ConnectionKept
<1> QED
  BY <1>1, <1>2, <1>3, <1>4, <1>5 DEF WorkerStep, SubscribeStep, DeleteStep

(* Every step of the system keeps this, whoever takes it. *)
LEMMA HungKept == ASSUME Hung, [Next]_vars PROVE Hung'
<1>1. CASE Environment
  <2>1. CASE \E c \in Channels : BeginJoin(c) \/ BeginLeave(c)
    <3>1. UNCHANGED <<apc, rpc, link, tsub>>
      BY <2>1 DEF BeginJoin, BeginLeave, runVars, twitchVars
    <3> QED
      BY <3>1, ConnectionKept
  <2>2. CASE \E c \in Channels, t \in DOMAIN Topics : Revoke(c, t)
    <3>1. UNCHANGED <<apc, rpc, link>> /\ link # "dead"
      BY <2>2 DEF Revoke, adapterVars, runVars
    <3> QED
      BY <3>1 DEF Hung
  <2> QED
    BY <1>1, <2>1, <2>2, RunHangs, AccountWaits DEF Environment
<1>2. ASSUME NEW c \in Channels, CallerStep(c) PROVE Hung'
  <2>1. UNCHANGED <<apc, rpc, link, tsub>>
    BY <1>2 DEF CallerStep, JoinIrc, EsJoin, LeaveIrc, EsLeave, runVars, twitchVars
  <2> QED
    BY <2>1, ConnectionKept
<1>3. CASE Idle \/ UNCHANGED vars
  <2>1. UNCHANGED <<apc, rpc, link, tsub>>
    BY <1>3 DEF Idle, vars, adapterVars, runVars, twitchVars
  <2> QED
    BY <2>1, ConnectionKept
<1> QED
  BY <1>1, <1>2, <1>3, AccountWaits, RunHangs, RequestsEnableLive DEF Next

(* For any number of channels, goroutines, calls and failures: when Deauthenticate returns from
   esSupervisor.close the connection is closed and Twitch has nothing subscribed, whatever
   goroutines of onWelcome, onRevoke and leave are still under way.           *)
THEOREM SignOutSilences == Spec => []SignedOutIsSilent
<1>1. Init => Hung
  BY DEF Init, Hung
<1>2. Hung /\ [Next]_vars => Hung'
  BY HungKept
<1>3. Hung => SignedOutIsSilent
  BY DEF Hung, SignedOutIsSilent
<1> QED
  BY <1>1, <1>2, <1>3, PTL DEF Spec

-----------------------------------------------------------------------------
(* Finite sets, and the least element of a set.                               *)

(* The list of topics has two members, the chat first. *)
LEMMA TopicsFacts == DOMAIN Topics = {1, 2} /\ Len(Topics) = 2 /\ Chat = 1
BY DEF Topics, Chat

(* A set of numbers that is not empty has a least member. *)
LEMMA Least ==
  ASSUME NEW T \in SUBSET Nat, T # {}
  PROVE  \E x \in T : \A y \in T : x <= y
<1>1. PICK x \in T : \A y \in T : ~ (<<y, x>> \in OpToRel(<, Nat))
  BY WFMin, NatLessThanWellFounded
<1>2. ASSUME NEW y \in T PROVE ~ (y < x)
  BY <1>1 DEF OpToRel
<1>3. ASSUME NEW y \in T PROVE x <= y
  <2>1. x \in Nat /\ y \in Nat
    OBVIOUS
  <2> QED
    BY <1>2, <2>1
<1> QED
  BY <1>3

(* The values of a function on a finite set are finitely many. *)
LEMMA ImageFinite ==
  ASSUME NEW S, IsFiniteSet(S), NEW f
  PROVE  IsFiniteSet({f[x] : x \in S})
<1> DEFINE T == {f[x] : x \in S}
           g == [x \in S |-> f[x]]
<1>1. g \in Surjection(S, T)
  BY DEF Surjection
<1> QED
  BY <1>1, FS_Surjection

(* The sets of generations, of state objects and of topics are finite. *)
LEMMA GensFacts == IsFiniteSet(Gens) /\ Gens \subseteq Nat \ {0} /\ IsFiniteSet(Objects) /\ IsFiniteSet(DOMAIN Topics)
<1>1. IsFiniteSet(Gens) /\ Gens \subseteq Nat \ {0}
  BY EventSubAssumption, FS_Interval DEF Gens
<1>2. IsFiniteSet(DOMAIN Topics)
  <2>1. DOMAIN Topics = 1 .. 2
    BY TopicsFacts
  <2>2. 1 \in Int /\ 2 \in Int
    OBVIOUS
  <2>3. IsFiniteSet(1 .. 2)
    BY <2>2, FS_Interval
  <2> QED
    BY <2>1, <2>3
<1> QED
  BY <1>1, <1>2, EventSubAssumption, FS_Product DEF Objects

(* A finite set of ids leaves one of the numbers up to its size and one more, and a least one. *)
LEMMA Unused ==
  ASSUME NEW S, IsFiniteSet(S)
  PROVE  \E i \in 1 .. Cardinality(S) + 1 : i \notin S /\ \A j \in 1 .. i - 1 : j \in S
<1>1. Cardinality(S) \in Nat
  BY FS_CardinalityType
<1> DEFINE R == 1 .. Cardinality(S) + 1
<1>2. IsFiniteSet(R) /\ Cardinality(R) = Cardinality(S) + 1
  BY <1>1, FS_Interval
<1>3. ~ (R \subseteq S)
  <2>1. ASSUME R \subseteq S PROVE Cardinality(R) <= Cardinality(S)
    BY <2>1, FS_Subset
  <2> QED
    BY <1>1, <1>2, <2>1
<1>4. PICK x \in R \ S : \A y \in R \ S : x <= y
  <2>1. R \ S \in SUBSET Nat /\ R \ S # {}
    BY <1>1, <1>3
  <2> QED
    BY <2>1, Least
<1>5. \A j \in 1 .. x - 1 : j \in S
  BY <1>1, <1>4
<1> QED
  BY <1>4, <1>5

-----------------------------------------------------------------------------
(* Whatever fails: what goroutines hold, what is counted, and the types.      *)

SubscribePcs == {"start", "reserve", "create", "record", "finish", "upcheck", "upirc"}
ObjectPcs == SubscribePcs \cup {"revoke", "downcheck", "downirc"}
TopicPcs == {"reserve", "create", "record", "revoke"}

(* A goroutine that works on a channel holds an object, and a topic where it needs one. *)
Holding ==
  /\ wids \in [Workers -> SUBSET Nat]
  /\ \A w \in Workers :
       /\ wpc[w] \in ObjectPcs => wobj[w] \in Objects
       /\ wpc[w] \in TopicPcs => wtop[w] \in DOMAIN Topics
       /\ wpc[w] = "free" => wtodo[w] = {} /\ wchat[w] = "no"
       /\ IsFiniteSet(wids[w])

(* What may still happen is bounded, and a registration that is over was left. *)
Leaving(c) == pc[c] \in {"ircleave", "esleave"}
Over(c) == gen[c] - (IF reg[c] = 0 THEN 0 ELSE 1) + (IF Leaving(c) THEN 1 ELSE 0)
Bounds == fails \in Nat /\ revokes \in Nat /\ ops \in Nat /\ losses \in Nat /\ moves \in Nat /\ leaves \in Nat
Counts == Bounds /\ fails + revokes + ops + losses + moves <= MaxEvents /\ leaves <= ops
Registered == \A c \in Channels : reg[c] <= gen[c] /\ Over(c) <= leaves

(* The account signs in once and out once. *)
Account ==
  /\ es = "none" <=> apc = "idle"
  /\ es = "on" <=> apc \in {"register", "signedin"}
  /\ es = "none" => rpc = "off"

(* The id that Twitch gives to a new subscription is a number that nobody remembers. *)
LEMMA FreshFact ==
  ASSUME Holding
  PROVE  FreshId \in Nat \ {0} /\ FreshId \notin IdsInUse
<1> DEFINE A == {tsub[c][t] : c \in Channels, t \in DOMAIN Topics}
           B == {subs[o[1]][o[2]][t] : o \in Objects, t \in DOMAIN Topics}
           C == {wans[w] : w \in Workers}
           D == {wids[w] : w \in Workers}
<1>1. IsFiniteSet(A)
  <2> DEFINE P == Channels \X DOMAIN Topics
             f == [p \in P |-> tsub[p[1]][p[2]]]
  <2>1. IsFiniteSet(P)
    BY EventSubAssumption, GensFacts, FS_Product
  <2>2. ASSUME NEW x \in A PROVE \E p \in P : x = f[p]
    <3>1. PICK c \in Channels, t \in DOMAIN Topics : x = tsub[c][t]
      OBVIOUS
    <3>2. <<c, t>> \in P /\ f[<<c, t>>] = x
      BY <3>1
    <3> QED
      BY <3>2
  <2> HIDE DEF f, P, A
  <2>3. A \in SUBSET {f[p] : p \in P}
    BY <2>2
  <2>4. IsFiniteSet({f[p] : p \in P})
    BY <2>1, ImageFinite
  <2> QED
    BY <2>3, <2>4, FS_Subset
<1>2. IsFiniteSet(B)
  <2> DEFINE P == Objects \X DOMAIN Topics
             f == [p \in P |-> subs[p[1][1]][p[1][2]][p[2]]]
  <2>1. IsFiniteSet(P)
    BY GensFacts, FS_Product
  <2>2. ASSUME NEW x \in B PROVE \E p \in P : x = f[p]
    <3>1. PICK c \in Objects, t \in DOMAIN Topics : x = subs[c[1]][c[2]][t]
      OBVIOUS
    <3>2. <<c, t>> \in P /\ f[<<c, t>>] = x
      BY <3>1
    <3> QED
      BY <3>2
  <2> HIDE DEF f, P, B
  <2>3. B \in SUBSET {f[p] : p \in P}
    BY <2>2
  <2>4. IsFiniteSet({f[p] : p \in P})
    BY <2>1, ImageFinite
  <2> QED
    BY <2>3, <2>4, FS_Subset
<1>3. IsFiniteSet(C) /\ IsFiniteSet(D)
  BY EventSubAssumption, ImageFinite
<1>4. IsFiniteSet(UNION D)
  <2>1. \A T \in D : IsFiniteSet(T)
    BY DEF Holding
  <2> HIDE DEF D
  <2> QED
    BY <1>3, <2>1, FS_UNION
<1>5. IsFiniteSet(IdsInUse)
  <2>1. IdsInUse = A \cup B \cup C \cup UNION D
    BY DEF IdsInUse
  <2> HIDE DEF A, B, C, D
  <2> QED
    BY <1>1, <1>2, <1>3, <1>4, <2>1, FS_Union
<1>6. PICK S : S = IdsInUse
  OBVIOUS
<1>7. Cardinality(S) \in Nat /\ IsFiniteSet(S)
  BY <1>5, <1>6, FS_CardinalityType
<1>8. FreshId \in 1 .. Cardinality(S) + 1 /\ FreshId \notin S
  BY <1>6, <1>7, Unused DEF FreshId
<1> QED
  BY <1>6, <1>7, <1>8

(* The callers, and what the callbacks do to IRC. *)
LEMMA AdapterTyped == ASSUME TypeAdapter, Holding, [Next]_vars PROVE TypeAdapter'
<1>1. CASE UNCHANGED adapterVars
  BY <1>1 DEF TypeAdapter, adapterVars
<1>2. ASSUME NEW c \in Channels, BeginJoin(c) \/ BeginLeave(c) \/ CallerStep(c) PROVE TypeAdapter'
  <2>1. CASE BeginJoin(c)
    BY <2>1 DEF BeginJoin, CallerGoto, TypeAdapter
  <2>2. CASE JoinIrc(c)
    BY <2>2 DEF JoinIrc, CallerThen, CallerReturns, CallerGoto, TypeAdapter
  <2>3. CASE EsJoin(c)
    BY <2>3 DEF EsJoin, CallerReturns, CallerGoto, TypeAdapter
  <2>4. CASE BeginLeave(c)
    BY <2>4 DEF BeginLeave, CallerGoto, TypeAdapter
  <2>5. CASE LeaveIrc(c)
    BY <2>5 DEF LeaveIrc, CallerThen, CallerReturns, CallerGoto, TypeAdapter
  <2>6. CASE EsLeave(c)
    BY <2>6 DEF EsLeave, CallerReturns, CallerGoto, TypeAdapter
  <2> QED
    BY <1>2, <2>1, <2>2, <2>3, <2>4, <2>5, <2>6 DEF CallerStep
<1>3. CASE Authenticate \/ Deauthenticate
  BY <1>3 DEF Authenticate, Deauthenticate, TypeAdapter
<1>4. CASE SignInStep
  BY <1>4 DEF SignInStep, AuthenticateJoin, AuthenticateReturns, AccountGoes, TypeAdapter
<1>5. CASE SignOutStep
  BY <1>5 DEF SignOutStep, CancelSupervisor, AwaitSupervisor, Rejoin, MayJoinIrc, DeauthenticateReturns, AccountGoes,
              TypeAdapter
<1>6. ASSUME NEW c \in Channels, FlipIrc(c) PROVE TypeAdapter'
  BY <1>6 DEF FlipIrc, MayJoinIrc, TypeAdapter
<1>7. ASSUME NEW w \in Workers, UpIrc(w) PROVE TypeAdapter'
  BY <1>7 DEF UpIrc, TypeAdapter
<1>8. ASSUME NEW w \in Workers, DownIrc(w) PROVE TypeAdapter'
  <2>1. wobj[w][1] \in Channels
    BY <1>8 DEF DownIrc, Holding, ObjectPcs, Objects
  <2> QED
    BY <1>8, <2>1 DEF DownIrc, MayJoinIrc, TypeAdapter
<1>9. CASE Lose \/ SessionMoves \/ (\E c \in Channels, t \in DOMAIN Topics : Revoke(c, t)) \/ Idle
  BY <1>9, <1>1 DEF Lose, SessionMoves, Revoke, Idle, vars
<1>10. CASE RunStops \/ DialOk \/ DialFails \/ Welcome \/ SessionLost \/ (\E c \in Channels : FlipCheck(c)) \/ FlipsDone \/ SleepDone
  BY <1>10, <1>1 DEF RunStops, DialOk, DialFails, Welcome, SessionLost, FlipCheck, FlipsDone, SleepDone
<1>11. ASSUME NEW w \in Workers, WorkerStep(w), ~UpIrc(w), ~DownIrc(w) PROVE TypeAdapter'
  <2>1. CASE SubscribeStep(w)
    BY <1>11, <2>1, <1>1 DEF SubscribeStep, OnWelcome, Start, StartFails, ReserveStale, Reserve, CreateOk, CreateConflict,
       CreateRefused, CreateForbidden, CreateFails, Record, Finish, UpCheck
  <2>2. CASE RevokeStep(w) \/ DeleteStep(w)
    BY <1>11, <2>2, <1>1 DEF RevokeStep, RevokeUnknown, OnRevoke, DownCheck, DeleteStep, Delete, DeletesDone
  <2> QED
    BY <1>11, <2>1, <2>2 DEF WorkerStep
<1>12. CASE UNCHANGED vars
  BY <1>12, <1>1 DEF vars
<1>13. CASE RunStep
  BY <1>13, <1>6, <1>10 DEF RunStep
<1>14. CASE Environment
  BY <1>14, <1>2, <1>3, <1>9 DEF Environment
<1> QED
  BY <1>2, <1>4, <1>5, <1>7, <1>8, <1>9, <1>11, <1>12, <1>13, <1>14 DEF Next

(* The account's caller goes through sign-in and sign-out once. *)
LEMMA AccountKept == ASSUME Account, [Next]_vars PROVE Account' /\ (es = "off" => es' = "off")
<1>1. CASE Authenticate
  BY <1>1 DEF Authenticate, Account
<1>2. CASE Deauthenticate
  BY <1>2 DEF Deauthenticate, Account, runVars
<1>3. CASE SignInStep
  BY <1>3 DEF SignInStep, AuthenticateJoin, AuthenticateReturns, AccountGoes, Account, runVars
<1>4. CASE SignOutStep
  BY <1>4 DEF SignOutStep, CancelSupervisor, AwaitSupervisor, Rejoin, DeauthenticateReturns, AccountGoes, Account, runVars
<1>5. CASE RunStep
  <2>1. CASE RunStops \/ DialOk \/ DialFails \/ Welcome \/ SessionLost \/ FlipsDone \/ SleepDone
    BY <2>1 DEF RunStops, DialOk, DialFails, Welcome, SessionLost, FlipsDone, SleepDone, Account, adapterVars
  <2>2. CASE \E c \in Channels : FlipCheck(c) \/ FlipIrc(c)
    BY <2>2 DEF FlipCheck, FlipIrc, Account, adapterVars
  <2> QED
    BY <1>5, <2>1, <2>2 DEF RunStep
<1>6. CASE Lose \/ SessionMoves
  BY <1>6 DEF Lose, SessionMoves, Account, adapterVars, runVars
<1>7. CASE UNCHANGED <<es, apc, rpc>>
  BY <1>7 DEF Account
<1>8. CASE (\E c \in Channels : BeginJoin(c) \/ BeginLeave(c)) \/ \E c \in Channels, t \in DOMAIN Topics : Revoke(c, t)
  BY <1>8, <1>7 DEF BeginJoin, BeginLeave, Revoke, adapterVars, runVars
<1>9. ASSUME NEW c \in Channels, CallerStep(c) PROVE Account' /\ (es = "off" => es' = "off")
  BY <1>9, <1>7 DEF CallerStep, JoinIrc, EsJoin, LeaveIrc, EsLeave, runVars
<1>10. ASSUME NEW w \in Workers, WorkerStep(w) PROVE Account' /\ (es = "off" => es' = "off")
  <2>1. CASE SubscribeStep(w)
    BY <2>1, <1>7 DEF SubscribeStep, OnWelcome, Start, StartFails, ReserveStale, Reserve, CreateOk, CreateConflict,
       CreateRefused, CreateForbidden, CreateFails, Record, Finish, UpCheck, UpIrc, adapterVars, runVars
  <2>2. CASE RevokeStep(w) \/ DeleteStep(w)
    BY <2>2, <1>7 DEF RevokeStep, RevokeUnknown, OnRevoke, DownCheck, DownIrc, DeleteStep, Delete, DeletesDone, adapterVars, runVars
  <2> QED
    BY <1>10, <2>1, <2>2 DEF WorkerStep
<1>11. CASE Idle \/ UNCHANGED vars
  BY <1>11, <1>7 DEF Idle, vars, adapterVars, runVars
<1> QED
  BY <1>1, <1>2, <1>3, <1>4, <1>5, <1>6, <1>8, <1>9, <1>10, <1>11 DEF Next, Environment

(* Everything that can disturb the feed is counted, and what was counted stays so. *)
Grown == fails' >= fails /\ revokes' >= revokes /\ leaves' >= leaves /\ losses' >= losses /\ moves' >= moves
(* What the bound counts stays in the bound, and what has happened stays counted. *)
LEMMA CountsKept == ASSUME Counts, [Next]_vars PROVE Counts' /\ Grown
<1>1. CASE UNCHANGED bounds
  BY <1>1 DEF Counts, Bounds, Grown, bounds
<1>2. ASSUME NEW c \in Channels, BeginJoin(c) \/ BeginLeave(c) PROVE Counts' /\ Grown
  BY <1>2, EventSubAssumption DEF BeginJoin, BeginLeave, MayHappen, Counts, Bounds, Grown
<1>3. ASSUME UNCHANGED <<revokes, ops, losses, moves, leaves>>, UNCHANGED fails \/ (MayHappen /\ fails' = fails + 1)
      PROVE  Counts' /\ Grown
  <2>1. CASE UNCHANGED fails
    BY <1>3, <2>1 DEF Counts, Bounds, Grown
  <2>2. CASE MayHappen /\ fails' = fails + 1
    BY <1>3, <2>2, EventSubAssumption DEF MayHappen, Counts, Bounds, Grown
  <2> QED
    BY <1>3, <2>1, <2>2
<1>4. CASE Lose \/ SessionMoves \/ \E c \in Channels, t \in DOMAIN Topics : Revoke(c, t)
  <2>1. UNCHANGED <<fails, ops, leaves>> /\ MayHappen
    BY <1>4 DEF Lose, SessionMoves, Revoke
  <2>2. \/ UNCHANGED <<losses, moves>> /\ revokes' = revokes + 1
        \/ UNCHANGED <<revokes, moves>> /\ losses' = losses + 1
        \/ UNCHANGED <<revokes, losses>> /\ moves' = moves + 1
    BY <1>4 DEF Lose, SessionMoves, Revoke
  <2> QED
    BY <2>1, <2>2, EventSubAssumption DEF MayHappen, Counts, Bounds, Grown
<1>5. CASE Authenticate \/ Deauthenticate \/ SignInStep
  BY <1>5, <1>1 DEF Authenticate, Deauthenticate, SignInStep, AuthenticateJoin, AuthenticateReturns, AccountGoes
<1>6. CASE SignOutStep
  BY <1>6, <1>1, <1>3 DEF SignOutStep, CancelSupervisor, AwaitSupervisor, Rejoin, MayJoinIrc, DeauthenticateReturns, AccountGoes
<1>7. CASE RunStops \/ DialOk \/ Welcome \/ SessionLost \/ (\E c \in Channels : FlipCheck(c)) \/ FlipsDone \/ SleepDone
  BY <1>7, <1>1 DEF RunStops, DialOk, Welcome, SessionLost, FlipCheck, FlipsDone, SleepDone
<1>8. CASE DialFails \/ \E c \in Channels : FlipIrc(c)
  BY <1>8, <1>3 DEF DialFails, FlipIrc, MayJoinIrc
<1>9. CASE RunStep
  BY <1>9, <1>7, <1>8 DEF RunStep
<1>10. ASSUME NEW c \in Channels, CallerStep(c) PROVE Counts' /\ Grown
  BY <1>10, <1>1, <1>3 DEF CallerStep, JoinIrc, EsJoin, LeaveIrc, EsLeave
<1>11. ASSUME NEW w \in Workers, WorkerStep(w) PROVE Counts' /\ Grown
  <2>1. CASE OnWelcome(w) \/ Start(w) \/ ReserveStale(w) \/ Reserve(w) \/ CreateOk(w) \/ CreateConflict(w)
             \/ CreateRefused(w) \/ CreateForbidden(w) \/ Record(w) \/ Finish(w) \/ UpCheck(w) \/ UpIrc(w)
    BY <2>1, <1>1 DEF OnWelcome, Start, ReserveStale, Reserve, CreateOk, CreateConflict,
       CreateRefused, CreateForbidden, Record, Finish, UpCheck, UpIrc
  <2>2. CASE StartFails(w) \/ CreateFails(w)
    BY <2>2, <1>3 DEF StartFails, CreateFails
  <2>3. CASE RevokeStep(w)
    BY <2>3, <1>1, <1>3 DEF RevokeStep, RevokeUnknown, OnRevoke, DownCheck, DownIrc, MayJoinIrc
  <2>4. CASE DeleteStep(w)
    BY <2>4, <1>1, <1>3 DEF DeleteStep, Delete, DeletesDone
  <2> QED
    BY <1>11, <2>1, <2>2, <2>3, <2>4 DEF WorkerStep, SubscribeStep
<1>12. CASE Idle \/ UNCHANGED vars
  BY <1>12, <1>1 DEF Idle, vars
<1> QED
  BY <1>2, <1>4, <1>5, <1>6, <1>9, <1>10, <1>11, <1>12 DEF Next, Environment

(* A registration is made while none is there, and ended by the Leave that was counted. *)
LEMMA RegisteredKept ==
  ASSUME TypeAdapter, TypeSupervisor, Counts, Registered, [Next]_vars
  PROVE  Registered'
<1> DEFINE Kept == UNCHANGED <<reg, gen, pc, leaves>>
<1>1. CASE Kept
  BY <1>1 DEF Registered, Over, Leaving
<1>2. ASSUME NEW c \in Channels, Register(c), UNCHANGED leaves,
             UNCHANGED pc \/ (pc[c] = "esjoin" /\ pc' = [pc EXCEPT ![c] = "idle"])
      PROVE  Registered'
  <2>1. CASE reg[c] # 0
    BY <1>2, <2>1 DEF Register, objVars, TypeAdapter, Registered, Over, Leaving
  <2>2. CASE reg[c] = 0
    <3>1. /\ gen' = [gen EXCEPT ![c] = gen[c] + 1] /\ reg' = [reg EXCEPT ![c] = gen[c] + 1]
      BY <1>2, <2>2 DEF Register
    <3>2. \A d \in Channels : gen[d] \in Nat /\ reg[d] \in Nat
      BY EventSubAssumption DEF TypeSupervisor
    <3>3. \A d \in Channels : Leaving(d)' = Leaving(d)
      BY <1>2 DEF Leaving, TypeAdapter
    <3>4. ASSUME NEW d \in Channels PROVE reg'[d] <= gen'[d] /\ Over(d)' <= leaves'
      BY <1>2, <2>2, <3>1, <3>2, <3>3 DEF TypeSupervisor, Registered, Over
    <3> QED
      BY <3>4 DEF Registered
  <2> QED
    BY <2>1, <2>2
<1>3. ASSUME NEW c \in Channels, BeginJoin(c) \/ BeginLeave(c) \/ JoinIrc(c) \/ LeaveIrc(c) PROVE Registered'
  <2>1. UNCHANGED <<reg, gen>>
    BY <1>3 DEF BeginJoin, BeginLeave, JoinIrc, LeaveIrc, objVars
  <2>2. CASE UNCHANGED leaves /\ \A d \in Channels : Leaving(d)' => Leaving(d)
    <3>1. ASSUME NEW d \in Channels PROVE Over(d)' <= Over(d)
      BY <2>1, <2>2, EventSubAssumption DEF Over, TypeSupervisor
    <3>2. ASSUME NEW d \in Channels PROVE Over(d)' \in Int /\ Over(d) \in Int
      BY <2>1, EventSubAssumption DEF Over, TypeSupervisor
    <3> QED
      BY <2>1, <2>2, <3>1, <3>2 DEF Registered, Counts, Bounds
  <2>3. CASE leaves' = leaves + 1
    <3>1. ASSUME NEW d \in Channels PROVE Over(d)' <= Over(d) + 1
      BY <2>1, <2>3, EventSubAssumption DEF Over, TypeSupervisor
    <3>2. ASSUME NEW d \in Channels PROVE Over(d)' \in Int /\ Over(d) \in Int
      BY <2>1, EventSubAssumption DEF Over, TypeSupervisor
    <3> QED
      BY <2>1, <2>3, <3>1, <3>2 DEF Registered, Counts, Bounds
  <2>4. BeginJoin(c) \/ JoinIrc(c) \/ LeaveIrc(c) => UNCHANGED leaves /\ \A d \in Channels : Leaving(d)' => Leaving(d)
    BY DEF BeginJoin, JoinIrc, LeaveIrc, CallerThen, CallerReturns, CallerGoto, Leaving, TypeAdapter, bounds
  <2> QED
    BY <1>3, <2>2, <2>3, <2>4 DEF BeginLeave
<1>4. ASSUME NEW c \in Channels, EsLeave(c) PROVE Registered'
  <2>1. /\ pc[c] = "esleave" /\ pc' = [pc EXCEPT ![c] = "idle"] /\ UNCHANGED <<gen, leaves>>
        /\ reg' = [reg EXCEPT ![c] = 0]
    BY <1>4 DEF EsLeave, CallerReturns, CallerGoto, objVars, bounds, TypeSupervisor
  <2>2. \A d \in Channels : gen[d] \in Nat /\ reg[d] \in Nat
    BY EventSubAssumption DEF TypeSupervisor
  <2>3. Leaving(c) /\ ~Leaving(c)' /\ \A d \in Channels \ {c} : Leaving(d)' = Leaving(d)
    BY <2>1 DEF Leaving, TypeAdapter
  <2>4. ASSUME NEW d \in Channels PROVE reg'[d] <= gen'[d] /\ Over(d)' <= leaves'
    <3>1. CASE d # c
      BY <2>1, <2>2, <2>3, <3>1 DEF TypeSupervisor, Registered, Over
    <3>2. CASE d = c
      <4>1. reg'[c] = 0 /\ gen'[c] = gen[c] /\ Over(c)' = gen[c]
        BY <2>1, <2>2, <2>3 DEF TypeSupervisor, Over
      <4>2. gen[c] <= Over(c)
        BY <2>2, <2>3 DEF Over
      <4>3. Over(c) \in Int /\ Over(c) <= leaves /\ leaves \in Nat
        BY <2>2 DEF Over, Registered, Counts, Bounds
      <4> QED
        BY <2>1, <2>2, <3>2, <4>1, <4>2, <4>3
    <3> QED
      BY <3>1, <3>2
  <2> QED
    BY <2>4 DEF Registered
<1>5. ASSUME NEW c \in Channels, EsJoin(c) \/ AuthenticateJoin(c) PROVE Registered'
  BY <1>5, <1>2 DEF EsJoin, AuthenticateJoin, CallerReturns, CallerGoto, bounds
<1>6. CASE Authenticate \/ Deauthenticate \/ AuthenticateReturns \/ SignOutStep
  BY <1>6, <1>1 DEF Authenticate, Deauthenticate, AuthenticateReturns, SignOutStep, CancelSupervisor, AwaitSupervisor,
     Rejoin, DeauthenticateReturns, AccountGoes, objVars, bounds
<1>7. CASE RunStep
  <2>1. CASE RunStops \/ DialOk \/ DialFails \/ Welcome \/ SessionLost \/ FlipsDone \/ SleepDone
    BY <2>1, <1>1 DEF RunStops, DialOk, DialFails, Welcome, SessionLost, FlipsDone, SleepDone, MarkAllDown, adapterVars, objVars, bounds
  <2>2. CASE \E c \in Channels : FlipCheck(c) \/ FlipIrc(c)
    BY <2>2, <1>1 DEF FlipCheck, FlipIrc, adapterVars, objVars, bounds
  <2> QED
    BY <1>7, <2>1, <2>2 DEF RunStep
<1>8. CASE Lose \/ SessionMoves \/ \E c \in Channels, t \in DOMAIN Topics : Revoke(c, t)
  BY <1>8, <1>1 DEF Lose, SessionMoves, Revoke, adapterVars, objVars
<1>9. ASSUME NEW w \in Workers, WorkerStep(w) PROVE Registered'
  <2>1. CASE SubscribeStep(w)
    BY <2>1, <1>1 DEF SubscribeStep, OnWelcome, Start, StartFails, ReserveStale, Reserve, CreateOk, CreateConflict,
       CreateRefused, CreateForbidden, CreateFails, Record, Finish, UpCheck, UpIrc, adapterVars, objVars, bounds
  <2>2. CASE RevokeStep(w) \/ DeleteStep(w)
    BY <2>2, <1>1 DEF RevokeStep, RevokeUnknown, OnRevoke, DownCheck, DownIrc, DeleteStep, Delete, DeletesDone,
       adapterVars, objVars, bounds
  <2> QED
    BY <1>9, <2>1, <2>2 DEF WorkerStep
<1>10. CASE Idle \/ UNCHANGED vars
  BY <1>10, <1>1 DEF Idle, vars, adapterVars, objVars, bounds
<1> QED
  BY <1>3, <1>4, <1>5, <1>6, <1>7, <1>8, <1>9, <1>10 DEF Next, Environment, CallerStep, SignInStep

(* A sequence of which one member is replaced. *)
LEMMA SeqUpdate ==
  ASSUME NEW T, NEW q \in Seq(T), NEW i \in DOMAIN q, NEW e \in T
  PROVE  /\ [q EXCEPT ![i] = e] \in Seq(T) /\ Len([q EXCEPT ![i] = e]) = Len(q)
         /\ \A j \in 1 .. Len(q) : [q EXCEPT ![i] = e][j] = IF j = i THEN e ELSE q[j]
OBVIOUS

(* subBudget: add takes a slot of a connection with room, or a new connection; remove only frees. *)
LEMMA AddFact ==
  ASSUME TypeSupervisor, BudgetOk
  PROVE  /\ BudgetAdd \in Seq(0 .. SubsPerConn) /\ Len(BudgetAdd) <= ConnsPerUser
         /\ \/ \E i \in DOMAIN budget : HasRoom(i) /\ BudgetAdd = [budget EXCEPT ![i] = budget[i] + 1]
            \/ BudgetAdd = Append(budget, 1)
<1>1. budget \in Seq(0 .. SubsPerConn) /\ Len(budget) <= ConnsPerUser /\ SubsPerConn \in Nat \ {0} /\ ConnsPerUser \in Nat \ {0}
  <2>1. budget \in Seq(0 .. SubsPerConn) /\ Len(budget) <= ConnsPerUser
    BY Zenon DEF TypeSupervisor
  <2> QED
    BY <2>1, EventSubAssumption
<1>2. CASE \E i \in DOMAIN budget : HasRoom(i)
  <2> DEFINE R == {j \in DOMAIN budget : HasRoom(j)}
  <2>1. PICK k \in R : \A y \in R : k <= y
    <3>1. R \in SUBSET Nat /\ R # {}
      BY <1>1, <1>2
    <3> HIDE DEF R
    <3> QED
      BY <3>1, Least
  <2>2. k \in DOMAIN budget /\ HasRoom(k) /\ \A y \in 1 .. k - 1 : ~HasRoom(y)
    BY <1>1, <2>1
  <2>3. PICK i \in DOMAIN budget : HasRoom(i) /\ BudgetAdd = [budget EXCEPT ![i] = budget[i] + 1]
    BY <1>2, <2>2 DEF BudgetAdd
  <2>4. budget[i] + 1 \in 0 .. SubsPerConn
    BY <1>1, <2>3 DEF HasRoom
  <2>5. BudgetAdd \in Seq(0 .. SubsPerConn) /\ Len(BudgetAdd) = Len(budget)
    BY <1>1, <2>3, <2>4, SeqUpdate
  <2> QED
    BY <1>1, <2>3, <2>5
<1>3. CASE ~ \E i \in DOMAIN budget : HasRoom(i)
  <2>1. BudgetAdd = Append(budget, 1) /\ Len(budget) < ConnsPerUser
    BY <1>3 DEF BudgetAdd, BudgetOk
  <2>2. 1 \in 0 .. SubsPerConn
    BY <1>1
  <2> QED
    BY <1>1, <2>1, <2>2
<1> QED
  BY <1>2, <1>3

(* subBudget.remove: the connections stay, and none has more than before. *)
LEMMA RemoveFact ==
  ASSUME TypeSupervisor, NEW n \in Nat
  PROVE  /\ BudgetRemove(n) \in Seq(0 .. SubsPerConn) /\ Len(BudgetRemove(n)) <= ConnsPerUser
         /\ Len(BudgetRemove(n)) = Len(budget) /\ \A i \in 1 .. Len(budget) : BudgetRemove(n)[i] <= budget[i]
<1>1. budget \in Seq(0 .. SubsPerConn) /\ Len(budget) <= ConnsPerUser /\ SubsPerConn \in Nat \ {0}
  BY EventSubAssumption DEF TypeSupervisor
<1>2. CASE budget = << >>
  BY <1>1, <1>2 DEF BudgetRemove
<1>3. CASE budget # << >>
  <2>1. 1 \in 1 .. Len(budget)
    BY <1>1, <1>3
  <2>2. PICK m : m = IF budget[1] >= n THEN budget[1] - n ELSE 0
    OBVIOUS
  <2>3. m \in 0 .. SubsPerConn /\ m <= budget[1]
    BY <1>1, <2>1, <2>2
  <2>4. BudgetRemove(n) = [budget EXCEPT ![1] = m]
    BY <1>3, <2>2 DEF BudgetRemove
  <2>5. /\ BudgetRemove(n) \in Seq(0 .. SubsPerConn) /\ Len(BudgetRemove(n)) = Len(budget)
        /\ \A i \in 1 .. Len(budget) : BudgetRemove(n)[i] = IF i = 1 THEN m ELSE budget[i]
    BY <1>1, <2>1, <2>3, <2>4, SeqUpdate
  <2>6. \A i \in 1 .. Len(budget) : budget[i] \in Nat
    BY <1>1
  <2> QED
    BY <1>1, <2>3, <2>5, <2>6
<1> QED
  BY <1>2, <1>3

(* What leave counts and deletes: the subscriptions of an object are finitely many. *)
LEMMA HeldFact ==
  ASSUME TypeSupervisor, NEW c \in Channels, NEW g \in Gens
  PROVE  Cardinality(Held(c, g)) \in Nat /\ KnownIds(c, g) \subseteq Nat /\ IsFiniteSet(KnownIds(c, g))
<1>1. Held(c, g) \in SUBSET DOMAIN Topics
  BY DEF Held
<1>2. Cardinality(Held(c, g)) \in Nat
  BY <1>1, GensFacts, FS_Subset, FS_CardinalityType
<1>3. PICK U : U = {u \in Held(c, g) : subs[c][g][u] > 0}
  OBVIOUS
<1>4. PICK f : f = subs[c][g]
  OBVIOUS
<1>5. KnownIds(c, g) = {f[t] : t \in U}
  BY <1>3, <1>4 DEF KnownIds
<1>6. IsFiniteSet(U)
  BY <1>1, <1>3, GensFacts, FS_Subset
<1>7. KnownIds(c, g) \subseteq Nat
  <2>1. \A t \in DOMAIN Topics : f[t] \in Nat \cup {-1}
    BY <1>4 DEF TypeSupervisor
  <2> QED
    BY <1>1, <1>3, <1>4, <1>5, <2>1
<1> QED
  BY <1>2, <1>5, <1>6, <1>7, ImageFinite

(* Replacing one value of a function of two arguments, or of three, keeps its type. *)
LEMMA Update2 ==
  ASSUME NEW A, NEW B, NEW C, NEW f \in [A -> [B -> C]], NEW a \in A, NEW b \in B, NEW v \in C
  PROVE  [f EXCEPT ![a][b] = v] \in [A -> [B -> C]]
OBVIOUS

LEMMA Update3 ==
  ASSUME NEW A, NEW B, NEW C, NEW D, NEW f \in [A -> [B -> [C -> D]]], NEW a \in A, NEW b \in B, NEW c \in C, NEW v \in D
  PROVE  [f EXCEPT ![a][b][c] = v] \in [A -> [B -> [C -> D]]]
OBVIOUS

(* markAllDown: the sets of channels are as before, their states are reset. *)
LEMMA MarkTyped ==
  ASSUME TypeSupervisor, MarkAllDown, rpc' = "flip", carried' = "no"
  PROVE  TypeSupervisor'
<1>1. rtodo' \subseteq Channels
  BY DEF MarkAllDown, Flipped
<1>2. budget' \in Seq(0 .. SubsPerConn) /\ Len(budget') <= ConnsPerUser
  BY EventSubAssumption DEF MarkAllDown
<1>3. up' \in [Channels -> [Gens -> {"no", "yes"}]]
  BY DEF MarkAllDown, TypeSupervisor
<1>4. subs' \in [Channels -> [Gens -> [DOMAIN Topics -> Nat \cup {-1}]]]
  <2>1. NoSubs \in [DOMAIN Topics -> Nat \cup {-1}]
    BY DEF NoSubs
  <2> QED
    BY <2>1 DEF MarkAllDown, TypeSupervisor
<1> QED
  BY <1>1, <1>2, <1>3, <1>4 DEF MarkAllDown, TypeSupervisor

(* What the supervisor keeps stays well typed: the generations, the ids, the budget. *)
LEMMA SupervisorTyped ==
  ASSUME TypeSupervisor, TypeWorkers, Holding, Counts, Registered, [Next]_vars
  PROVE  TypeSupervisor'
<1>1. CASE UNCHANGED <<objVars, runVars>>
  BY <1>1 DEF TypeSupervisor, objVars, runVars
<1>2. ASSUME NEW c \in Channels, Register(c), UNCHANGED runVars PROVE TypeSupervisor'
  <2>1. CASE reg[c] # 0
    BY <1>1, <1>2, <2>1 DEF Register
  <2>2. CASE reg[c] = 0
    <3>1. gen[c] + 1 \in 0 .. MaxEvents + 1
      <4>1. gen[c] \in Nat /\ MaxEvents \in Nat /\ leaves <= ops /\ leaves \in Nat /\ ops \in Nat
        BY EventSubAssumption DEF TypeSupervisor, Counts, Bounds
      <4>2. ops <= MaxEvents
        BY <4>1 DEF Counts, Bounds
      <4>3. Over(c) <= leaves /\ (Over(c) = gen[c] \/ Over(c) = gen[c] + 1)
        BY <2>2, <4>1 DEF Registered, Over
      <4> QED
        BY <4>1, <4>2, <4>3
    <3>2. gen' = [gen EXCEPT ![c] = gen[c] + 1] /\ reg' = [reg EXCEPT ![c] = gen[c] + 1]
          /\ UNCHANGED <<up, bid, subs, sid, budget, rpc, carried, rtodo, rcur>>
      BY <1>2, <2>2 DEF Register, runVars
    <3>3. gen' \in [Channels -> 0 .. MaxEvents + 1] /\ reg' \in [Channels -> 0 .. MaxEvents + 1]
      BY <3>1, <3>2 DEF TypeSupervisor
    <3> QED
      BY <3>2, <3>3 DEF TypeSupervisor
  <2> QED
    BY <2>1, <2>2
<1>3. ASSUME NEW c \in Channels, EsLeave(c) PROVE TypeSupervisor'
  <2>1. CASE reg[c] = 0
    BY <1>1, <1>3, <2>1 DEF EsLeave
  <2>2. CASE reg[c] # 0
    <3>1. reg[c] \in Gens
      BY <2>2, EventSubAssumption DEF TypeSupervisor, Gens
    <3>2. budget' \in Seq(0 .. SubsPerConn) /\ Len(budget') <= ConnsPerUser
      BY <1>3, <2>2, <3>1, HeldFact, RemoveFact DEF EsLeave
    <3>3. reg' \in [Channels -> 0 .. MaxEvents + 1]
      BY <1>3, <2>2, EventSubAssumption DEF EsLeave, TypeSupervisor
    <3> QED
      BY <1>3, <2>2, <3>2, <3>3 DEF EsLeave, runVars, TypeSupervisor
  <2> QED
    BY <2>1, <2>2
<1>4. CASE Authenticate
  BY <1>4 DEF Authenticate, objVars, TypeSupervisor
<1>5. CASE RunStep \/ Lose \/ SessionMoves
  <2>1. CASE RunStops \/ DialOk \/ Welcome \/ FlipsDone \/ SleepDone \/ Lose \/ SessionMoves
    BY <2>1 DEF RunStops, DialOk, Welcome, FlipsDone, SleepDone, Lose, SessionMoves, objVars, runVars, TypeSupervisor
  <2>2. CASE DialFails \/ SessionLost
    BY <2>2, MarkTyped DEF DialFails, SessionLost
  <2>3. ASSUME NEW c \in Channels, FlipCheck(c) \/ FlipIrc(c) PROVE TypeSupervisor'
    BY <2>3 DEF FlipCheck, FlipIrc, objVars, TypeSupervisor
  <2> QED
    BY <1>5, <2>1, <2>2, <2>3 DEF RunStep
<1>6. ASSUME NEW w \in Workers, OnWelcome(w) PROVE TypeSupervisor'
  <2>1. sid' \in Nat /\ UNCHANGED <<reg, gen, up, bid, subs, runVars>>
    BY <1>6 DEF OnWelcome, TypeWorkers
  <2>2. budget' = << >> \/ UNCHANGED budget
    BY <1>6 DEF OnWelcome
  <2>3. budget' \in Seq(0 .. SubsPerConn) /\ Len(budget') <= ConnsPerUser
    <3>1. << >> \in Seq(0 .. SubsPerConn) /\ Len(<< >>) <= ConnsPerUser
      BY EventSubAssumption
    <3> QED
      BY <2>2, <3>1 DEF TypeSupervisor
  <2> QED
    BY <2>1, <2>3 DEF TypeSupervisor, runVars
<1>7. ASSUME NEW w \in Workers, wpc[w] \in SubscribePcs, Start(w) \/ Record(w) \/ Finish(w) PROVE TypeSupervisor'
  <2>1. PICK c \in Channels, g \in Gens : wobj[w] = <<c, g>>
    BY <1>7 DEF Holding, ObjectPcs, Objects
  <2>2. CASE Start(w)
    BY <2>1, <2>2 DEF Start, TypeSupervisor, runVars
  <2>3. CASE Finish(w)
    BY <2>1, <2>3 DEF Finish, TypeSupervisor, TypeWorkers, runVars
  <2>4. CASE Record(w)
    <3>1. wtop[w] \in DOMAIN Topics /\ wans[w] \in Nat \cup {-1}
      BY <2>4 DEF Record, Holding, TopicPcs, TypeWorkers
    <3>2. budget' \in Seq(0 .. SubsPerConn) /\ Len(budget') <= ConnsPerUser
      <4>1. budget' = BudgetRemove(1) \/ UNCHANGED budget
        BY <2>4 DEF Record
      <4> QED
        BY <4>1, RemoveFact DEF TypeSupervisor
    <3>3. subs' \in [Channels -> [Gens -> [DOMAIN Topics -> Nat \cup {-1}]]]
      <4>1. UNCHANGED subs \/ subs' = [subs EXCEPT ![c][g][wtop[w]] = wans[w]]
        BY <2>1, <2>4 DEF Record
      <4>2. subs \in [Channels -> [Gens -> [DOMAIN Topics -> Nat \cup {-1}]]]
        BY DEF TypeSupervisor
      <4>3. CASE UNCHANGED subs
        BY <4>2, <4>3
      <4>4. CASE subs' = [subs EXCEPT ![c][g][wtop[w]] = wans[w]]
        BY <3>1, <4>2, <4>4, Update3
      <4> QED
        BY <4>1, <4>3, <4>4
    <3> QED
      BY <2>4, <3>2, <3>3 DEF Record, TypeSupervisor, runVars
  <2> QED
    BY <1>7, <2>2, <2>3, <2>4
<1>8. ASSUME NEW w \in Workers, Reserve(w) PROVE TypeSupervisor'
  <2>1. budget' \in Seq(0 .. SubsPerConn) /\ Len(budget') <= ConnsPerUser
    BY <1>8, AddFact DEF Reserve, TypeSupervisor
  <2> QED
    BY <1>8, <2>1 DEF Reserve, TypeSupervisor, runVars
<1>9. ASSUME NEW w \in Workers, OnRevoke(w) PROVE TypeSupervisor'
  <2>1. PICK c \in Channels, t \in DOMAIN Topics : c = wobj[w][1] /\ t = wtop[w]
    BY <1>9 DEF OnRevoke, Holding, ObjectPcs, TopicPcs, Objects
  <2>2. reg[c] \in Gens
    BY <1>9, <2>1, EventSubAssumption DEF OnRevoke, Target, TypeSupervisor, Gens
  <2>3. subs' = [subs EXCEPT ![c][reg[c]][t] = 0] /\ budget' = BudgetRemove(1)
        /\ (UNCHANGED up \/ up' = [up EXCEPT ![c][reg[c]] = "no"]) /\ UNCHANGED <<reg, gen, bid, sid, runVars>>
    BY <1>9, <2>1 DEF OnRevoke
  <2>4. budget' \in Seq(0 .. SubsPerConn) /\ Len(budget') <= ConnsPerUser
    BY <2>3, RemoveFact
  <2>5. subs' \in [Channels -> [Gens -> [DOMAIN Topics -> Nat \cup {-1}]]]
    BY <2>2, <2>3, Update3 DEF TypeSupervisor
  <2>6. up' \in [Channels -> [Gens -> {"no", "yes"}]]
    <3>1. "no" \in {"no", "yes"} /\ up \in [Channels -> [Gens -> {"no", "yes"}]]
      BY DEF TypeSupervisor
    <3>2. CASE UNCHANGED up
      BY <3>1, <3>2
    <3>3. CASE up' = [up EXCEPT ![c][reg[c]] = "no"]
      BY <2>2, <3>1, <3>3, Update2
    <3> QED
      BY <2>3, <3>2, <3>3
  <2> QED
    BY <2>3, <2>4, <2>5, <2>6 DEF TypeSupervisor, runVars
<1>10. CASE Deauthenticate \/ AuthenticateReturns \/ SignOutStep
  BY <1>10, <1>1 DEF Deauthenticate, AuthenticateReturns, SignOutStep, CancelSupervisor, AwaitSupervisor,
     Rejoin, DeauthenticateReturns, AccountGoes
<1>11. ASSUME NEW c \in Channels, BeginJoin(c) \/ BeginLeave(c) \/ JoinIrc(c) \/ LeaveIrc(c) PROVE TypeSupervisor'
  BY <1>11, <1>1 DEF BeginJoin, BeginLeave, JoinIrc, LeaveIrc
<1>12. CASE Idle \/ UNCHANGED vars \/ \E c \in Channels, t \in DOMAIN Topics : Revoke(c, t)
  BY <1>12, <1>1 DEF Idle, vars, Revoke
<1>13. ASSUME NEW c \in Channels, EsJoin(c) \/ AuthenticateJoin(c) PROVE TypeSupervisor'
  BY <1>13, <1>2 DEF EsJoin, AuthenticateJoin
<1>14. ASSUME NEW w \in Workers, WorkerStep(w) PROVE TypeSupervisor'
  <2>1. CASE StartFails(w) \/ ReserveStale(w) \/ CreateOk(w) \/ CreateConflict(w) \/ CreateRefused(w) \/ CreateForbidden(w)
             \/ CreateFails(w) \/ UpCheck(w) \/ UpIrc(w)
    BY <2>1, <1>1 DEF StartFails, ReserveStale, CreateOk, CreateConflict, CreateRefused, CreateForbidden, CreateFails, UpCheck, UpIrc
  <2>2. CASE RevokeUnknown(w) \/ DownCheck(w) \/ DownIrc(w) \/ DeleteStep(w)
    BY <2>2, <1>1 DEF RevokeUnknown, DownCheck, DownIrc, DeleteStep, Delete, DeletesDone
  <2>3. Start(w) \/ Record(w) \/ Finish(w) => wpc[w] \in SubscribePcs
    BY DEF Start, Record, Finish, SubscribePcs
  <2> QED
    BY <1>14, <1>6, <1>7, <1>8, <1>9, <2>1, <2>2, <2>3 DEF WorkerStep, SubscribeStep, RevokeStep
<1> QED
  BY <1>3, <1>4, <1>5, <1>10, <1>11, <1>12, <1>13, <1>14 DEF Next, Environment, CallerStep, SignInStep

(* The ways a goroutine's locals change: it ends, goes on, takes the next object, or starts. *)
WorkersOk == TypeWorkers /\ Holding

(* A goroutine that ends, goes on, takes the next object, is started, or has an answer: each keeps
   the types of the goroutines. *)
LEMMA EndTyped == ASSUME WorkersOk, NEW w \in Workers, End(w) PROVE WorkersOk'
<1>1. TypeWorkers'
  BY DEF WorkersOk, TypeWorkers, End, Holding
<1>2. Holding'
  BY FS_EmptySet DEF WorkersOk, TypeWorkers, End, Holding, ObjectPcs, SubscribePcs, TopicPcs
<1> QED
  BY <1>1, <1>2 DEF WorkersOk

WorkerPcs == {"free", "welcome", "welcomeback", "start", "reserve", "create", "record", "finish", "upcheck",
              "upirc", "revoke", "downcheck", "downirc", "delete"}

LEMMA GotoTyped ==
  ASSUME WorkersOk, NEW w \in Workers, NEW step \in WorkerPcs \ {"free"}, Goto(w, step),
         step \in ObjectPcs => wobj[w] \in Objects, step \in TopicPcs => wtop[w] \in DOMAIN Topics
  PROVE  WorkersOk'
<1>1. TypeWorkers'
  BY DEF WorkersOk, TypeWorkers, Goto, WorkerPcs
<1>2. Holding'
  BY DEF WorkersOk, TypeWorkers, Goto, Holding
<1> QED
  BY <1>1, <1>2 DEF WorkersOk

LEMMA NextTyped ==
  ASSUME WorkersOk, NEW w \in Workers, NEW pending \in SUBSET Objects, SubscribeNext(w, pending)
  PROVE  WorkersOk'
<1>1. CASE pending = {}
  BY <1>1, EndTyped DEF SubscribeNext
<1>2. CASE pending # {}
  <2>1. PICK o \in pending :
         /\ wpc' = [wpc EXCEPT ![w] = "start"] /\ wobj' = [wobj EXCEPT ![w] = o]
         /\ wtodo' = [wtodo EXCEPT ![w] = pending \ {o}] /\ wtop' = [wtop EXCEPT ![w] = 0]
         /\ wchat' = [wchat EXCEPT ![w] = "no"] /\ wans' = [wans EXCEPT ![w] = 0]
         /\ UNCHANGED <<wsid, wids>>
    BY <1>2 DEF SubscribeNext
  <2>2. TypeWorkers'
    BY <2>1 DEF WorkersOk, TypeWorkers
  <2>3. Holding'
    BY <2>1 DEF WorkersOk, TypeWorkers, Holding, TopicPcs, ObjectPcs, SubscribePcs
  <2> QED
    BY <2>2, <2>3 DEF WorkersOk
<1> QED
  BY <1>1, <1>2

LEMMA SpawnTyped ==
  ASSUME WorkersOk, NEW step \in WorkerPcs \ {"free"}, NEW obj \in Objects \cup {NoObj}, NEW s \in Nat, NEW top \in 0 .. 2,
         NEW del \in SUBSET Nat, IsFiniteSet(del), Spawn(step, obj, s, top, del),
         step \in ObjectPcs => obj \in Objects, step \in TopicPcs => top \in DOMAIN Topics
  PROVE  WorkersOk'
<1>1. PICK w \in Workers :
        /\ wpc[w] = "free" /\ wpc' = [wpc EXCEPT ![w] = step] /\ wobj' = [wobj EXCEPT ![w] = obj]
        /\ wsid' = [wsid EXCEPT ![w] = s] /\ wtop' = [wtop EXCEPT ![w] = top] /\ wids' = [wids EXCEPT ![w] = del]
        /\ UNCHANGED <<wchat, wans, wtodo>>
  BY DEF Spawn
<1>2. TypeWorkers'
  BY <1>1 DEF WorkersOk, TypeWorkers, WorkerPcs, Holding
<1>3. Holding'
  BY <1>1 DEF WorkersOk, TypeWorkers, Holding
<1> QED
  BY <1>2, <1>3 DEF WorkersOk

LEMMA AnswerTyped ==
  ASSUME WorkersOk, NEW w \in Workers, wpc[w] = "create", NEW a \in Nat \cup {-1}, Answer(w, a)
  PROVE  WorkersOk'
<1>1. TypeWorkers'
  BY DEF WorkersOk, TypeWorkers, Answer
<1>2. Holding'
  BY DEF WorkersOk, TypeWorkers, Answer, Holding, ObjectPcs, SubscribePcs, TopicPcs
<1> QED
  BY <1>1, <1>2 DEF WorkersOk

(* esSupervisor.join starts a goroutine on the object that it registers. *)
LEMMA RegisterTyped ==
  ASSUME WorkersOk, TypeSupervisor, Counts, Registered, NEW c \in Channels, Register(c)
  PROVE  WorkersOk'
<1>1. CASE UNCHANGED workVars
  BY <1>1 DEF workVars, WorkersOk, TypeWorkers, Holding
<1>2. CASE reg[c] = 0 /\ sid # 0
  <2>1. gen[c] + 1 \in Gens
    <3>1. gen[c] \in Nat /\ MaxEvents \in Nat /\ leaves <= ops /\ leaves \in Nat /\ ops \in Nat
      BY EventSubAssumption DEF TypeSupervisor, Counts, Bounds
    <3>2. ops <= MaxEvents
      BY <3>1 DEF Counts, Bounds
    <3>3. Over(c) <= leaves /\ (Over(c) = gen[c] \/ Over(c) = gen[c] + 1)
      BY <1>2, <3>1 DEF Registered, Over
    <3> QED
      BY <3>1, <3>2, <3>3 DEF Gens
  <2>2. <<c, gen[c] + 1>> \in Objects /\ sid \in Nat /\ {} \in SUBSET Nat /\ IsFiniteSet({}) /\ 0 \in 0 .. 2
    BY <2>1, FS_EmptySet DEF Objects, TypeSupervisor
  <2>3. Spawn("start", <<c, gen[c] + 1>>, sid, 0, {})
    BY <1>2 DEF Register
  <2>4. "start" \in WorkerPcs \ {"free"} /\ "start" \notin TopicPcs
    BY DEF WorkerPcs, TopicPcs
  <2> QED
    BY <2>2, <2>3, <2>4, SpawnTyped
<1> QED
  BY <1>1, <1>2 DEF Register

(* Hence every step keeps the types of the goroutines and what they hold. *)
LEMMA WorkersTyped ==
  ASSUME WorkersOk, TypeSupervisor, TypeTwitch, Counts, Registered, [Next]_vars
  PROVE  WorkersOk'
<1>1. CASE UNCHANGED workVars
  BY <1>1 DEF workVars, WorkersOk, TypeWorkers, Holding
<1>2. ASSUME NEW c \in Channels, EsJoin(c) \/ AuthenticateJoin(c) PROVE WorkersOk'
  BY <1>2, RegisterTyped DEF EsJoin, AuthenticateJoin
<1>3. ASSUME NEW c \in Channels, EsLeave(c) PROVE WorkersOk'
  <2>1. CASE reg[c] = 0
    BY <1>1, <1>3, <2>1 DEF EsLeave
  <2>2. CASE reg[c] # 0
    <3>1. reg[c] \in Gens
      BY <2>2, EventSubAssumption DEF TypeSupervisor, Gens
    <3>2. PICK del : del = KnownIds(c, reg[c])
      OBVIOUS
    <3>3. del \in SUBSET Nat /\ IsFiniteSet(del)
      BY <3>1, <3>2, HeldFact
    <3>4. Spawn("delete", NoObj, 0, 0, del)
      BY <1>3, <2>2, <3>2 DEF EsLeave
    <3>5. "delete" \in WorkerPcs \ {"free"} /\ "delete" \notin TopicPcs /\ "delete" \notin ObjectPcs
          /\ NoObj \in Objects \cup {NoObj} /\ 0 \in Nat /\ 0 \in 0 .. 2
      BY DEF WorkerPcs, TopicPcs, ObjectPcs, SubscribePcs
    <3> QED
      BY <3>3, <3>4, <3>5, SpawnTyped
  <2> QED
    BY <2>1, <2>2
<1>4. CASE Welcome
  <2>1. PICK step \in {"welcome", "welcomeback"} : Spawn(step, NoObj, sess, 0, {})
    BY <1>4 DEF Welcome
  <2>2. step \in WorkerPcs \ {"free"} /\ step \notin TopicPcs /\ step \notin ObjectPcs
        /\ NoObj \in Objects \cup {NoObj} /\ 0 \in 0 .. 2 /\ {} \in SUBSET Nat /\ IsFiniteSet({}) /\ sess \in Nat
    BY FS_EmptySet DEF WorkerPcs, TopicPcs, ObjectPcs, SubscribePcs, TypeTwitch
  <2> QED
    BY <2>1, <2>2, SpawnTyped
<1>5. ASSUME NEW c \in Channels, NEW t \in DOMAIN Topics, Revoke(c, t) PROVE WorkersOk'
  <2>1. Spawn("revoke", <<c, 1>>, 0, t, {})
    BY <1>5 DEF Revoke
  <2>2. <<c, 1>> \in Objects
    BY EventSubAssumption DEF Objects, Gens
  <2>3. "revoke" \in WorkerPcs \ {"free"} /\ 0 \in Nat /\ t \in 0 .. 2 /\ {} \in SUBSET Nat /\ IsFiniteSet({})
    BY TopicsFacts, FS_EmptySet DEF WorkerPcs
  <2> QED
    BY <2>1, <2>2, <2>3, SpawnTyped
<1>6. ASSUME NEW w \in Workers, wtodo[w] \in SUBSET Objects, SubscribeReturns(w) PROVE WorkersOk'
  BY <1>6, NextTyped DEF SubscribeReturns
<1>7. ASSUME NEW w \in Workers PROVE wtodo[w] \in SUBSET Objects
  BY DEF WorkersOk, TypeWorkers
<1>8. ASSUME NEW w \in Workers, OnWelcome(w) PROVE WorkersOk'
  <2>1. CASE End(w)
    BY <2>1, EndTyped
  <2>2. CASE ~End(w)
    <3>1. PICK pending : /\ pending = {<<c, reg[c]>> : c \in {d \in Channels : reg[d] # 0}}
                         /\ SubscribeNext(w, pending)
      BY <1>8, <2>2 DEF OnWelcome
    <3>2. pending \in SUBSET Objects
      BY <3>1, EventSubAssumption DEF TypeSupervisor, Objects, Gens
    <3> QED
      BY <3>1, <3>2, NextTyped
  <2> QED
    BY <2>1, <2>2
<1>9. ASSUME NEW w \in Workers, Start(w) PROVE WorkersOk'
  <2>1. TypeWorkers'
    BY <1>9, TopicsFacts DEF Start, WorkersOk, TypeWorkers
  <2>2. Holding'
    BY <1>9, TopicsFacts DEF Start, WorkersOk, TypeWorkers, Holding, ObjectPcs, SubscribePcs, TopicPcs
  <2> QED
    BY <2>1, <2>2 DEF WorkersOk
<1>10. ASSUME NEW w \in Workers, Record(w) PROVE WorkersOk'
  <2>1. wtop[w] \in {1, 2} /\ wobj[w] \in Objects
    BY <1>10, TopicsFacts DEF Record, WorkersOk, Holding, TopicPcs, ObjectPcs, SubscribePcs
  <2>2. PICK top \in 0 .. 2, step \in {"finish", "reserve"}, chat \in {"no", "yes"} :
          /\ wtop' = [wtop EXCEPT ![w] = top] /\ wpc' = [wpc EXCEPT ![w] = step]
          /\ wchat' = [wchat EXCEPT ![w] = chat] /\ (step = "reserve" => top = 2)
    <3>1. PICK top : top = IF wtop[w] = 2 THEN 0 ELSE wtop[w] + 1
      OBVIOUS
    <3>2. PICK step : step = IF wtop[w] = 2 THEN "finish" ELSE "reserve"
      OBVIOUS
    <3>3. top \in 0 .. 2 /\ step \in {"finish", "reserve"} /\ (step = "reserve" => top = 2)
      BY <2>1, <3>1, <3>2
    <3>4. \E chat \in {"no", "yes"} : wchat' = [wchat EXCEPT ![w] = chat]
      <4>1. CASE UNCHANGED wchat
        BY <4>1 DEF WorkersOk, TypeWorkers
      <4>2. CASE wchat' = [wchat EXCEPT ![w] = "yes"]
        BY <4>2
      <4> QED
        BY <1>10, <4>1, <4>2 DEF Record
    <3>5. wtop' = [wtop EXCEPT ![w] = top] /\ wpc' = [wpc EXCEPT ![w] = step]
      BY <1>10, <3>1, <3>2, TopicsFacts DEF Record
    <3> QED
      BY <3>3, <3>4, <3>5
  <2>3. wans' = [wans EXCEPT ![w] = 0] /\ UNCHANGED <<wobj, wsid, wtodo, wids>>
    BY <1>10 DEF Record
  <2>4. TypeWorkers'
    BY <2>2, <2>3 DEF WorkersOk, TypeWorkers
  <2>5. Holding'
    BY <2>1, <2>2, <2>3, TopicsFacts DEF WorkersOk, TypeWorkers, Holding, ObjectPcs, SubscribePcs, TopicPcs
  <2> QED
    BY <2>4, <2>5 DEF WorkersOk
<1>11. ASSUME NEW w \in Workers, CreateOk(w) \/ CreateConflict(w) \/ CreateRefused(w) \/ CreateForbidden(w) \/ CreateFails(w)
       PROVE  WorkersOk'
  <2>1. wpc[w] = "create" /\ (Answer(w, FreshId) \/ Answer(w, -1) \/ Answer(w, 0))
    BY <1>11 DEF CreateOk, CreateConflict, CreateRefused, CreateForbidden, CreateFails
  <2>2. FreshId \in Nat \cup {-1}
    BY FreshFact DEF WorkersOk
  <2>3. CASE Answer(w, FreshId)
    <3>1. PICK a \in Nat \cup {-1} : a = FreshId
      BY <2>2
    <3>2. Answer(w, a)
      BY <2>3, <3>1
    <3> QED
      BY <2>1, <3>2, AnswerTyped
  <2> QED
    BY <2>1, <2>3, AnswerTyped
<1>12. ASSUME NEW w \in Workers, NEW step \in {"create", "finish", "upcheck", "upirc"}, Goto(w, step),
              wpc[w] \in SubscribePcs, step = "create" => wpc[w] = "reserve"
       PROVE  WorkersOk'
  <2>1. wobj[w] \in Objects
    BY <1>12 DEF WorkersOk, Holding, ObjectPcs
  <2>2. step \in TopicPcs => wtop[w] \in DOMAIN Topics
    BY <1>12 DEF WorkersOk, Holding, TopicPcs
  <2>3. step \in WorkerPcs \ {"free"}
    BY <1>12 DEF WorkerPcs
  <2> QED
    BY <1>12, <2>1, <2>2, <2>3, GotoTyped
<1>13. ASSUME NEW w \in Workers, StartFails(w) \/ ReserveStale(w) \/ Reserve(w) \/ Finish(w) \/ UpCheck(w) \/ UpIrc(w)
       PROVE  WorkersOk'
  <2>1. wpc[w] \in SubscribePcs
    BY <1>13 DEF StartFails, ReserveStale, Reserve, Finish, UpCheck, UpIrc, SubscribePcs
  <2>2. SubscribeReturns(w) \/ \E step \in {"create", "finish", "upcheck", "upirc"} :
                                Goto(w, step) /\ (step = "create" => wpc[w] = "reserve")
    BY <1>13 DEF StartFails, ReserveStale, Reserve, Finish, UpCheck, UpIrc
  <2> QED
    BY <1>6, <1>7, <1>12, <2>1, <2>2
<1>14. ASSUME NEW w \in Workers, OnRevoke(w) PROVE WorkersOk'
  <2>1. CASE End(w)
    BY <2>1, EndTyped
  <2>2. CASE ~End(w)
    <3>1. PICK c \in Channels : c = wobj[w][1] /\ wpc[w] = "revoke"
      BY <1>14 DEF OnRevoke, WorkersOk, Holding, ObjectPcs, Objects
    <3>2. reg[c] \in Gens
      BY <1>14, <3>1, EventSubAssumption DEF OnRevoke, Target, TypeSupervisor, Gens
    <3>3. PICK o \in Objects, step \in {"downcheck", "start"} :
            /\ wobj' = [wobj EXCEPT ![w] = o] /\ wsid' = [wsid EXCEPT ![w] = sid] /\ wtop' = [wtop EXCEPT ![w] = 0]
            /\ wpc' = [wpc EXCEPT ![w] = step] /\ UNCHANGED <<wchat, wans, wtodo, wids>>
      <4>1. <<c, reg[c]>> \in Objects
        BY <3>2 DEF Objects
      <4> QED
        BY <1>14, <2>2, <3>1, <4>1 DEF OnRevoke
    <3>4. sid \in Nat
      BY DEF TypeSupervisor
    <3>5. TypeWorkers'
      BY <3>3, <3>4 DEF WorkersOk, TypeWorkers
    <3>6. Holding'
      BY <3>3 DEF WorkersOk, TypeWorkers, Holding, TopicPcs
    <3> QED
      BY <3>5, <3>6 DEF WorkersOk
  <2> QED
    BY <2>1, <2>2
<1>15. ASSUME NEW w \in Workers, RevokeUnknown(w) \/ DownCheck(w) \/ DownIrc(w) \/ DeletesDone(w) PROVE WorkersOk'
  <2>1. End(w) \/ \E step \in {"downirc", "start"} : Goto(w, step) /\ wpc[w] \in ObjectPcs
    BY <1>15 DEF RevokeUnknown, DownCheck, DownIrc, DeletesDone, Retry, ObjectPcs
  <2>2. ASSUME NEW step \in {"downirc", "start"}, Goto(w, step), wpc[w] \in ObjectPcs PROVE WorkersOk'
    <3>1. step \in WorkerPcs \ {"free"} /\ step \notin TopicPcs /\ wobj[w] \in Objects
      BY <2>2 DEF WorkerPcs, TopicPcs, WorkersOk, Holding
    <3> QED
      BY <2>2, <3>1, GotoTyped
  <2> QED
    BY <2>1, <2>2, EndTyped
<1>16. ASSUME NEW w \in Workers, NEW i \in wids[w], Delete(w, i) PROVE WorkersOk'
  <2>1. wids' = [wids EXCEPT ![w] = wids[w] \ {i}] /\ UNCHANGED <<wpc, wobj, wsid, wtop, wchat, wans, wtodo>>
    BY <1>16 DEF Delete
  <2>2. TypeWorkers'
    BY <2>1 DEF WorkersOk, TypeWorkers, Holding
  <2>3. Holding'
    <3>1. \A v \in Workers : IsFiniteSet(wids'[v])
      BY <2>1, FS_RemoveElement DEF WorkersOk, Holding
    <3> QED
      BY <2>1, <3>1 DEF WorkersOk, TypeWorkers, Holding
  <2> QED
    BY <2>2, <2>3 DEF WorkersOk
<1>17. CASE Authenticate \/ Deauthenticate \/ AuthenticateReturns \/ SignOutStep
  BY <1>17, <1>1 DEF Authenticate, Deauthenticate, AuthenticateReturns, SignOutStep, CancelSupervisor, AwaitSupervisor,
     Rejoin, DeauthenticateReturns, AccountGoes
<1>18. ASSUME NEW c \in Channels, BeginJoin(c) \/ BeginLeave(c) \/ JoinIrc(c) \/ LeaveIrc(c) \/ FlipCheck(c) \/ FlipIrc(c)
       PROVE  WorkersOk'
  BY <1>18, <1>1 DEF BeginJoin, BeginLeave, JoinIrc, LeaveIrc, FlipCheck, FlipIrc
<1>19. CASE RunStops \/ DialOk \/ DialFails \/ SessionLost \/ FlipsDone \/ SleepDone \/ Lose \/ SessionMoves
  BY <1>19, <1>1 DEF RunStops, DialOk, DialFails, SessionLost, FlipsDone, SleepDone, Lose, SessionMoves
<1>20. CASE Idle \/ UNCHANGED vars
  BY <1>20, <1>1 DEF Idle, vars
<1>21. CASE RunStep
  BY <1>21, <1>4, <1>18, <1>19 DEF RunStep
<1>22. ASSUME NEW w \in Workers, WorkerStep(w) PROVE WorkersOk'
  BY <1>22, <1>8, <1>9, <1>10, <1>11, <1>13, <1>14, <1>15, <1>16 DEF WorkerStep, SubscribeStep, RevokeStep, DeleteStep
<1> QED
  BY <1>2, <1>3, <1>5, <1>17, <1>18, <1>19, <1>20, <1>21, <1>22 DEF Next, Environment, CallerStep, SignInStep

(* What Twitch keeps stays well typed. *)
LEMMA TwitchTyped ==
  ASSUME TypeTwitch, WorkersOk, [Next]_vars
  PROVE  TypeTwitch'
<1>1. CASE UNCHANGED twitchVars
  BY <1>1 DEF twitchVars, TypeTwitch
<1>2. NoTwitchSubs \in [Channels -> [DOMAIN Topics -> Nat]]
  BY DEF NoTwitchSubs, NoSubs
<1>3. CASE RunStops \/ DialFails \/ Lose
  BY <1>2, <1>3 DEF RunStops, DialFails, Lose, HangUp, TypeTwitch
<1>4. CASE DialOk
  BY <1>2, <1>4 DEF DialOk, TypeTwitch
<1>5. CASE Welcome \/ SessionMoves
  BY <1>5 DEF Welcome, SessionMoves, TypeTwitch
<1>6. ASSUME NEW c \in Channels, NEW t \in DOMAIN Topics, Revoke(c, t) PROVE TypeTwitch'
  <2>1. tsub' = [tsub EXCEPT ![c][t] = 0] /\ UNCHANGED <<conn, sess, link>>
    BY <1>6 DEF Revoke
  <2> QED
    BY <2>1, Update2 DEF TypeTwitch
<1>7. ASSUME NEW w \in Workers, CreateOk(w) \/ CreateFails(w) PROVE TypeTwitch'
  <2>1. PICK c \in Channels, t \in DOMAIN Topics : c = wobj[w][1] /\ t = wtop[w]
    BY <1>7 DEF CreateOk, CreateFails, WorkersOk, Holding, ObjectPcs, SubscribePcs, TopicPcs, Objects
  <2>2. PICK i \in Nat : i = FreshId
    BY FreshFact DEF WorkersOk
  <2>3. UNCHANGED <<conn, sess, link>> /\ (UNCHANGED tsub \/ tsub' = [tsub EXCEPT ![c][t] = i])
    BY <1>7, <2>1, <2>2 DEF CreateOk, CreateFails, Enable
  <2>4. CASE UNCHANGED tsub
    BY <2>3, <2>4 DEF TypeTwitch
  <2>5. CASE tsub' = [tsub EXCEPT ![c][t] = i]
    BY <2>3, <2>5, Update2 DEF TypeTwitch
  <2> QED
    BY <2>3, <2>4, <2>5
<1>8. ASSUME NEW w \in Workers, NEW i \in wids[w], Delete(w, i) PROVE TypeTwitch'
  <2>1. UNCHANGED <<conn, sess, link>>
    BY <1>8 DEF Delete
  <2>2. tsub' \in [Channels -> [DOMAIN Topics -> Nat]]
    <3>1. CASE UNCHANGED tsub
      BY <3>1 DEF TypeTwitch
    <3>2. CASE tsub' = [c \in Channels |-> [t \in DOMAIN Topics |-> IF tsub[c][t] = i THEN 0 ELSE tsub[c][t]]]
      BY <3>2 DEF TypeTwitch
    <3> QED
      BY <1>8, <3>1, <3>2 DEF Delete
  <2> QED
    BY <2>1, <2>2 DEF TypeTwitch
<1>9. CASE Authenticate \/ Deauthenticate \/ SignInStep \/ SignOutStep
  BY <1>9, <1>1 DEF Authenticate, Deauthenticate, SignInStep, AuthenticateJoin, AuthenticateReturns, SignOutStep,
     CancelSupervisor, AwaitSupervisor, Rejoin, DeauthenticateReturns, AccountGoes
<1>10. ASSUME NEW c \in Channels, BeginJoin(c) \/ BeginLeave(c) \/ CallerStep(c) \/ FlipCheck(c) \/ FlipIrc(c)
       PROVE  TypeTwitch'
  BY <1>10, <1>1 DEF BeginJoin, BeginLeave, CallerStep, JoinIrc, EsJoin, LeaveIrc, EsLeave, FlipCheck, FlipIrc
<1>11. CASE SessionLost \/ FlipsDone \/ SleepDone \/ Idle \/ UNCHANGED vars
  BY <1>11, <1>1 DEF SessionLost, FlipsDone, SleepDone, Idle, vars
<1>12. ASSUME NEW w \in Workers, WorkerStep(w) PROVE TypeTwitch'
  <2>1. CASE OnWelcome(w) \/ Start(w) \/ StartFails(w) \/ ReserveStale(w) \/ Reserve(w) \/ CreateConflict(w)
             \/ CreateRefused(w) \/ CreateForbidden(w) \/ Record(w) \/ Finish(w) \/ UpCheck(w) \/ UpIrc(w)
    BY <2>1, <1>1 DEF OnWelcome, Start, StartFails, ReserveStale, Reserve, CreateConflict, CreateRefused, CreateForbidden,
       Record, Finish, UpCheck, UpIrc
  <2>2. CASE RevokeStep(w) \/ DeletesDone(w)
    BY <2>2, <1>1 DEF RevokeStep, RevokeUnknown, OnRevoke, DownCheck, DownIrc, DeletesDone
  <2> QED
    BY <1>12, <1>7, <1>8, <2>1, <2>2 DEF WorkerStep, SubscribeStep, DeleteStep
<1> QED
  BY <1>3, <1>4, <1>5, <1>6, <1>9, <1>10, <1>11, <1>12 DEF Next, Environment, RunStep

(* What holds whatever fails: the types, the counts, and what a closed connection means. *)
EsTyped == TypeOK /\ Holding /\ Counts /\ Registered /\ Account /\ Hung

(* All of it holds before the account signs in, and every step keeps it. *)
LEMMA EsTypedInit == Init => EsTyped
<1> SUFFICES ASSUME Init PROVE EsTyped
  OBVIOUS
<1> USE EventSubAssumption, TopicsFacts
<1>1. TypeAdapter
  BY DEF Init, TypeAdapter
<1>2. TypeSupervisor
  <2>1. NoSubs \in [DOMAIN Topics -> Nat \cup {-1}]
    BY DEF NoSubs
  <2>2. << >> \in Seq(0 .. SubsPerConn) /\ Len(<< >>) <= ConnsPerUser
    OBVIOUS
  <2> QED
    BY <2>1, <2>2 DEF Init, TypeSupervisor
<1>3. TypeWorkers
  BY DEF Init, TypeWorkers
<1>4. TypeTwitch
  BY DEF Init, TypeTwitch, NoTwitchSubs, NoSubs
<1>5. Holding
  BY FS_EmptySet DEF Init, Holding, ObjectPcs, SubscribePcs, TopicPcs
<1>6. Counts /\ Registered /\ Account /\ Hung
  BY DEF Init, Counts, Bounds, Registered, Over, Leaving, Account, Hung
<1> QED
  BY <1>1, <1>2, <1>3, <1>4, <1>5, <1>6 DEF EsTyped, TypeOK, Counts, Bounds

LEMMA EsTypedNext == EsTyped /\ [Next]_vars => EsTyped'
<1> SUFFICES ASSUME EsTyped, [Next]_vars PROVE EsTyped'
  OBVIOUS
<1>1. TypeAdapter /\ TypeSupervisor /\ TypeWorkers /\ TypeTwitch /\ Holding /\ Counts /\ Registered /\ Account /\ Hung
  BY DEF EsTyped, TypeOK
<1>2. TypeAdapter' /\ TypeSupervisor' /\ TypeTwitch'
  BY <1>1, AdapterTyped, SupervisorTyped, TwitchTyped DEF WorkersOk
<1>3. TypeWorkers' /\ Holding'
  BY <1>1, WorkersTyped DEF WorkersOk
<1>4. Counts' /\ Registered' /\ Account' /\ Hung'
  BY <1>1, CountsKept, RegisteredKept, AccountKept, HungKept
<1> QED
  BY <1>2, <1>3, <1>4 DEF EsTyped, TypeOK, Counts, Bounds

-----------------------------------------------------------------------------
(* Nothing fails, is revoked or left, and nobody signs out: what goroutines do. *)

Calm == fails = 0 /\ revokes = 0 /\ leaves = 0 /\ es # "off"

(* The objects of the registered channels, which onWelcome subscribes. *)
Object(c) == <<c, reg[c]>>
Registrants == {Object(c) : c \in {d \in Channels : reg[d] # 0}}

(* Only goroutine w moves. *)
Alone(w) ==
  \A v \in Workers \ {w} :
    /\ wpc'[v] = wpc[v] /\ wobj'[v] = wobj[v] /\ wsid'[v] = wsid[v] /\ wtop'[v] = wtop[v]
    /\ wchat'[v] = wchat[v] /\ wans'[v] = wans[v] /\ wtodo'[v] = wtodo[v]
(* It ends; takes an object of this set; goes on with its object; or it is started. *)
Ends(w) == wpc'[w] = "free" /\ wsid'[w] = 0 /\ wtodo'[w] = {} /\ wchat'[w] = "no"
Takes(w, S) ==
  /\ wpc'[w] = "start" /\ wobj'[w] \in S /\ wtodo'[w] = S \ {wobj'[w]} /\ wsid'[w] = wsid[w]
  /\ wchat'[w] = "no"
GoesOn(w, step) == wpc'[w] = step /\ wobj'[w] = wobj[w] /\ wtodo'[w] = wtodo[w] /\ wsid'[w] = wsid[w]
Begins(w, step, o, s) ==
  /\ wpc[w] = "free" /\ wpc'[w] = step /\ wobj'[w] = o /\ wsid'[w] = s /\ wtodo'[w] = {} /\ wchat'[w] = "no"
Returns(w) == (wtodo[w] = {} /\ Ends(w)) \/ Takes(w, wtodo[w])

(* The same ways to move, as the invariants below need them: who moves, and to what. *)
LEMMA EndFacts == ASSUME WorkersOk, NEW w \in Workers, End(w) PROVE Alone(w) /\ Ends(w)
BY DEF WorkersOk, TypeWorkers, End, Alone, Ends

LEMMA NextFacts ==
  ASSUME WorkersOk, NEW w \in Workers, NEW S, SubscribeNext(w, S)
  PROVE  Alone(w) /\ ((S = {} /\ Ends(w)) \/ Takes(w, S))
<1>1. CASE S = {}
  BY <1>1, EndFacts DEF SubscribeNext
<1>2. CASE S # {}
  <2>1. PICK o \in S :
         /\ wpc' = [wpc EXCEPT ![w] = "start"] /\ wobj' = [wobj EXCEPT ![w] = o]
         /\ wtodo' = [wtodo EXCEPT ![w] = S \ {o}] /\ wtop' = [wtop EXCEPT ![w] = 0]
         /\ wchat' = [wchat EXCEPT ![w] = "no"] /\ wans' = [wans EXCEPT ![w] = 0]
         /\ UNCHANGED <<wsid, wids>>
    BY <1>2 DEF SubscribeNext
  <2> QED
    BY <2>1 DEF WorkersOk, TypeWorkers, Alone, Takes
<1> QED
  BY <1>1, <1>2

LEMMA SpawnFacts ==
  ASSUME WorkersOk, NEW step, NEW o, NEW s, NEW top, NEW del, Spawn(step, o, s, top, del)
  PROVE  \E w \in Workers : Alone(w) /\ Begins(w, step, o, s)
<1>1. PICK w \in Workers :
        /\ wpc[w] = "free" /\ wpc' = [wpc EXCEPT ![w] = step] /\ wobj' = [wobj EXCEPT ![w] = o]
        /\ wsid' = [wsid EXCEPT ![w] = s] /\ wtop' = [wtop EXCEPT ![w] = top] /\ wids' = [wids EXCEPT ![w] = del]
        /\ UNCHANGED <<wchat, wans, wtodo>>
  BY DEF Spawn
<1>2. Alone(w) /\ Begins(w, step, o, s)
  BY <1>1 DEF WorkersOk, TypeWorkers, Holding, Alone, Begins
<1> QED
  BY <1>2

LEMMA GotoFacts ==
  ASSUME WorkersOk, NEW w \in Workers, NEW step, Goto(w, step)
  PROVE  Alone(w) /\ GoesOn(w, step) /\ wtop'[w] = wtop[w] /\ wchat'[w] = wchat[w] /\ wans'[w] = wans[w]
BY DEF WorkersOk, TypeWorkers, Goto, Alone, GoesOn

LEMMA AnswerFacts ==
  ASSUME WorkersOk, NEW w \in Workers, NEW a, Answer(w, a)
  PROVE  Alone(w) /\ GoesOn(w, "record") /\ wtop'[w] = wtop[w] /\ wchat'[w] = wchat[w] /\ wans'[w] = a
BY DEF WorkersOk, TypeWorkers, Answer, Alone, GoesOn

(* Each step of onWelcome and subscribeChannel, as the invariants below need it. *)
LEMMA WelcomeFacts ==
  ASSUME WorkersOk, NEW w \in Workers, OnWelcome(w)
  PROVE  /\ Alone(w) /\ wpc[w] \in {"welcome", "welcomeback"} /\ sid' = wsid[w]
         /\ \/ wpc[w] = "welcomeback" /\ Ends(w)
            \/ wpc[w] = "welcome" /\ budget' = << >> /\ ((Registrants = {} /\ Ends(w)) \/ Takes(w, Registrants))
<1>1. wpc[w] \in {"welcome", "welcomeback"} /\ sid' = wsid[w]
  BY DEF OnWelcome
<1>2. CASE wpc[w] = "welcome"
  <2>1. budget' = << >> /\ SubscribeNext(w, Registrants)
    BY <1>2 DEF OnWelcome, Registrants, Object
  <2> QED
    BY <1>1, <1>2, <2>1, NextFacts
<1>3. CASE wpc[w] = "welcomeback"
  <2>1. End(w)
    BY <1>3 DEF OnWelcome
  <2> QED
    BY <1>1, <1>3, <2>1, EndFacts
<1> QED
  BY <1>1, <1>2, <1>3

(* subscribeChannel returns to the loop of onWelcome, resolves the broadcaster, books an answer. *)
LEMMA ReturnFacts ==
  ASSUME WorkersOk, NEW w \in Workers, SubscribeReturns(w)
  PROVE  Alone(w) /\ Returns(w)
BY NextFacts DEF SubscribeReturns, Returns

LEMMA StartFacts ==
  ASSUME WorkersOk, NEW w \in Workers, Start(w)
  PROVE  wpc[w] = "start" /\ Alone(w) /\ GoesOn(w, "reserve") /\ wtop'[w] = Chat /\ wchat'[w] = wchat[w]
BY DEF WorkersOk, TypeWorkers, Start, Alone, GoesOn

LEMMA RecordFacts ==
  ASSUME WorkersOk, NEW w \in Workers, Record(w)
  PROVE  /\ wpc[w] = "record" /\ Alone(w) /\ wtop[w] \in {1, 2}
         /\ IF wtop[w] = 1 THEN GoesOn(w, "reserve") /\ wtop'[w] = 2 ELSE GoesOn(w, "finish")
         /\ wchat'[w] = IF wans[w] # 0 /\ wtop[w] = 1 THEN "yes" ELSE wchat[w]
         /\ budget' = budget \/ budget' = BudgetRemove(1)
<1>1. wpc[w] = "record" /\ wtop[w] \in {1, 2}
  BY TopicsFacts DEF Record, WorkersOk, Holding, TopicPcs
<1>2. wchat'[w] = (IF wans[w] # 0 /\ wtop[w] = 1 THEN "yes" ELSE wchat[w]) /\ \A v \in Workers \ {w} : wchat'[v] = wchat[v]
  BY TopicsFacts DEF Record, WorkersOk, TypeWorkers
<1>3. /\ wans' = [wans EXCEPT ![w] = 0] /\ UNCHANGED <<wobj, wsid, wtodo>>
      /\ wtop' = [wtop EXCEPT ![w] = IF wtop[w] = 2 THEN 0 ELSE wtop[w] + 1]
      /\ wpc' = [wpc EXCEPT ![w] = IF wtop[w] = 2 THEN "finish" ELSE "reserve"]
  BY TopicsFacts DEF Record
<1>4. Alone(w)
  BY <1>2, <1>3 DEF WorkersOk, TypeWorkers, Alone
<1>5. IF wtop[w] = 1 THEN GoesOn(w, "reserve") /\ wtop'[w] = 2 ELSE GoesOn(w, "finish")
  BY <1>1, <1>3 DEF WorkersOk, TypeWorkers, GoesOn
<1>6. budget' = budget \/ budget' = BudgetRemove(1)
  BY DEF Record
<1> QED
  BY <1>1, <1>2, <1>4, <1>5, <1>6

(* A behaviour that is calm was always calm. *)
LEMMA CalmWas == ASSUME EsTyped, [Next]_vars, Calm' PROVE Calm
<1>1. Counts /\ Account
  BY DEF EsTyped
<1>2. Counts' /\ Grown /\ (es = "off" => es' = "off")
  BY <1>1, CountsKept, AccountKept
<1>3. fails <= 0 /\ revokes <= 0 /\ leaves <= 0
  BY <1>2 DEF Grown, Calm
<1> QED
  BY <1>1, <1>2, <1>3 DEF Calm, Counts, Bounds

(* Goroutines work on registered channels, and a joined one is on IRC until it is registered. *)
Works ==
  \A w \in Workers :
    /\ wpc[w] \in {"free", "welcome", "welcomeback"} \cup SubscribePcs
    /\ wpc[w] \in SubscribePcs => wobj[w] \in Registrants
    /\ wtodo[w] \subseteq Registrants
Listens == \A c \in joined : c \in irc \/ pc[c] = "ircjoin" \/ reg[c] # 0

(* The steps that are left. *)
LEMMA CalmSteps ==
  ASSUME EsTyped, Calm, Works, [Next]_vars, Calm'
  PROVE  /\ ~Cancelled
         /\ \/ \E c \in Channels : BeginJoin(c) \/ JoinIrc(c) \/ EsJoin(c) \/ AuthenticateJoin(c) \/ FlipCheck(c) \/ FlipIrc(c)
            \/ Authenticate \/ AuthenticateReturns
            \/ DialOk \/ Welcome \/ Lose \/ SessionLost \/ SessionMoves \/ FlipsDone \/ SleepDone
            \/ \E w \in Workers : OnWelcome(w) \/ Start(w) \/ ReserveStale(w) \/ Reserve(w) \/ CreateOk(w) \/ CreateConflict(w)
                                  \/ CreateRefused(w) \/ CreateForbidden(w) \/ Record(w) \/ Finish(w) \/ UpCheck(w) \/ UpIrc(w)
            \/ UNCHANGED vars
<1>1. ~Cancelled /\ apc \in {"idle", "register", "signedin"}
  BY DEF EsTyped, TypeOK, TypeAdapter, Account, Calm, Cancelled
<1>2. fails = 0 /\ revokes = 0 /\ leaves = 0 /\ fails' = 0 /\ revokes' = 0 /\ leaves' = 0
  BY DEF Calm
<1>3. ASSUME NEW c \in Channels PROVE ~BeginLeave(c) /\ ~LeaveIrc(c) /\ ~EsLeave(c)
  <2>1. gen[c] \in Nat /\ reg[c] \in Nat /\ reg[c] <= gen[c] /\ Over(c) <= 0
    BY <1>2, EventSubAssumption DEF EsTyped, TypeOK, TypeSupervisor, Registered
  <2>2. ~Leaving(c)
    BY <2>1 DEF Over
  <2> QED
    BY <1>2, <2>2 DEF BeginLeave, LeaveIrc, EsLeave, Leaving
<1>4. ASSUME NEW c \in Channels, NEW t \in DOMAIN Topics PROVE ~Revoke(c, t)
  BY <1>2 DEF Revoke
<1>5. ~Deauthenticate /\ ~SignOutStep
  BY <1>1 DEF Deauthenticate, Calm, SignOutStep, CancelSupervisor, AwaitSupervisor, Rejoin, DeauthenticateReturns, AccountGoes
<1>6. ~RunStops /\ ~DialFails
  BY <1>1, <1>2 DEF RunStops, DialFails
<1>7. ASSUME NEW w \in Workers PROVE ~StartFails(w) /\ ~CreateFails(w) /\ ~RevokeStep(w) /\ ~DeleteStep(w)
  <2>1. wpc[w] \notin {"revoke", "downcheck", "downirc", "delete"}
    BY DEF Works, SubscribePcs
  <2> QED
    BY <1>1, <1>2, <2>1 DEF StartFails, CreateFails, RevokeStep, RevokeUnknown, OnRevoke, DownCheck, DownIrc,
       DeleteStep, Delete, DeletesDone
<1> QED
  BY <1>1, <1>3, <1>4, <1>5, <1>6, <1>7 DEF Next, Environment, CallerStep, SignInStep, RunStep, WorkerStep, SubscribeStep, Idle

(* The registration of a channel: none, or a new one, subscribed if there is a session. *)
LEMMA RegisterFacts ==
  ASSUME WorkersOk, TypeSupervisor, NEW c \in Channels, Register(c)
  PROVE  \/ UNCHANGED <<reg, up, subs, sid, budget, workVars>> /\ reg[c] # 0
         \/ /\ reg[c] = 0 /\ reg' = [reg EXCEPT ![c] = gen[c] + 1] /\ gen[c] + 1 # 0
            /\ UNCHANGED <<up, subs, sid, budget>>
            /\ \/ sid = 0 /\ UNCHANGED workVars
               \/ sid # 0 /\ \E w \in Workers : Alone(w) /\ Begins(w, "start", <<c, gen[c] + 1>>, sid)
<1>1. CASE reg[c] # 0
  BY <1>1 DEF Register, objVars
<1>2. CASE reg[c] = 0
  <2>1. gen[c] + 1 # 0
    BY EventSubAssumption DEF TypeSupervisor
  <2>2. CASE sid = 0
    BY <1>2, <2>1, <2>2 DEF Register
  <2>3. CASE sid # 0
    <3>1. Spawn("start", <<c, gen[c] + 1>>, sid, 0, {})
      BY <1>2, <2>3 DEF Register
    <3>2. \E w \in Workers : Alone(w) /\ Begins(w, "start", <<c, gen[c] + 1>>, sid)
      BY <3>1, SpawnFacts
    <3> QED
      BY <1>2, <2>1, <2>3, <3>2 DEF Register
  <2> QED
    BY <2>2, <2>3
<1> QED
  BY <1>1, <1>2

(* A goroutine of onWelcome or subscribeChannel: it ends or subscribes, for the session it was
   started with, an object that was its own or, after a welcome, one of the registered channels. *)
Claim(w) == wtodo[w] \cup {wobj[w]}
Advances(w) ==
  /\ Alone(w)
  /\ \/ Ends(w)
     \/ /\ wpc'[w] \in SubscribePcs /\ wsid'[w] = wsid[w] /\ wobj'[w] \in Registrants /\ wtodo'[w] \subseteq Registrants
        /\ \/ wpc[w] = "welcome" /\ wobj'[w] \notin wtodo'[w]
           \/ /\ wpc[w] \in SubscribePcs
              /\ wtodo'[w] \cup {wobj'[w]} \subseteq Claim(w)
              /\ wobj[w] \notin wtodo[w] => wobj'[w] \notin wtodo'[w]

(* A goroutine that returns to its loop, or goes on with its object, advances in this sense. *)
LEMMA ReturnsAdvance ==
  ASSUME WorkersOk, Works, NEW w \in Workers, wpc[w] \in SubscribePcs, SubscribeReturns(w)
  PROVE  Advances(w)
<1>1. Alone(w) /\ Returns(w)
  BY ReturnFacts
<1>2. ASSUME Takes(w, wtodo[w]) PROVE Advances(w)
  BY <1>1, <1>2 DEF Takes, Advances, Claim, Works, SubscribePcs
<1> QED
  BY <1>1, <1>2 DEF Returns, Advances

LEMMA GoesOnAdvances ==
  ASSUME WorkersOk, Works, NEW w \in Workers, wpc[w] \in SubscribePcs, NEW step \in SubscribePcs, Alone(w), GoesOn(w, step)
  PROVE  Advances(w)
BY DEF GoesOn, Advances, Claim, Works

(* So does every step of onWelcome and subscribeChannel, and it leaves the rest of the adapter alone. *)
LEMMA WorkersAdvance ==
  ASSUME WorkersOk, Works, NEW w \in Workers,
         OnWelcome(w) \/ Start(w) \/ ReserveStale(w) \/ Reserve(w) \/ CreateOk(w) \/ CreateConflict(w) \/ CreateRefused(w)
           \/ CreateForbidden(w) \/ Record(w) \/ Finish(w) \/ UpCheck(w) \/ UpIrc(w)
  PROVE  Advances(w) /\ wpc[w] # "free" /\ UNCHANGED <<joined, pc, es, apc, reg, conn, sess, link, rpc, carried, rcur, rtodo, bounds>>
<1>1. wpc[w] # "free" /\ UNCHANGED <<joined, pc, es, apc, reg, conn, sess, link, rpc, carried, rcur, rtodo, bounds>>
  BY DEF OnWelcome, Start, ReserveStale, Reserve, CreateOk, CreateConflict, CreateRefused, CreateForbidden, Record, Finish,
     UpCheck, UpIrc, adapterVars, objVars, runVars, twitchVars
<1> SUFFICES Advances(w)
  BY <1>1
<1>2. CASE OnWelcome(w)
  <2>1. Alone(w) /\ (Ends(w) \/ (wpc[w] = "welcome" /\ Takes(w, Registrants)))
    BY <1>2, WelcomeFacts
  <2> QED
    BY <2>1 DEF Takes, Advances, SubscribePcs
<1>3. CASE ReserveStale(w) \/ UpIrc(w)
  BY <1>3, ReturnsAdvance DEF ReserveStale, UpIrc, SubscribePcs
<1>4. CASE Start(w)
  BY <1>4, StartFacts, GoesOnAdvances DEF SubscribePcs
<1>5. CASE Reserve(w) \/ Finish(w) \/ UpCheck(w)
  <2>1. wpc[w] \in SubscribePcs /\ (SubscribeReturns(w) \/ \E step \in {"create", "finish", "upcheck", "upirc"} : Goto(w, step))
    BY <1>5 DEF Reserve, Finish, UpCheck, SubscribePcs
  <2>2. ASSUME NEW step \in {"create", "finish", "upcheck", "upirc"}, Goto(w, step) PROVE Advances(w)
    BY <2>1, <2>2, GotoFacts, GoesOnAdvances DEF SubscribePcs
  <2> QED
    BY <2>1, <2>2, ReturnsAdvance
<1>6. CASE CreateOk(w) \/ CreateConflict(w) \/ CreateRefused(w) \/ CreateForbidden(w)
  <2>1. wpc[w] = "create" /\ \E a : Answer(w, a)
    BY <1>6 DEF CreateOk, CreateConflict, CreateRefused, CreateForbidden
  <2>2. Alone(w) /\ GoesOn(w, "record")
    BY <2>1, AnswerFacts
  <2> QED
    BY <2>1, <2>2, GoesOnAdvances DEF SubscribePcs
<1>7. CASE Record(w)
  <2>1. wpc[w] = "record" /\ Alone(w) /\ (GoesOn(w, "reserve") \/ GoesOn(w, "finish"))
    BY <1>7, RecordFacts
  <2> QED
    BY <2>1, GoesOnAdvances DEF SubscribePcs
<1> QED
  BY <1>2, <1>3, <1>4, <1>5, <1>6, <1>7

(* A registration adds one object and keeps the others. *)
LEMMA Grows ==
  ASSUME TypeSupervisor, NEW c \in Channels, reg[c] = 0, NEW g, g # 0, reg' = [reg EXCEPT ![c] = g]
  PROVE  /\ Registrants' = Registrants \cup {<<c, g>>} /\ Object(c)' = <<c, g>>
         /\ \A d \in Channels : reg[d] # 0 => reg'[d] # 0 /\ Object(d)' = Object(d)
<1>1. \A d \in Channels : reg'[d] = IF d = c THEN g ELSE reg[d]
  BY DEF TypeSupervisor
<1>2. \A d \in Channels : reg[d] # 0 => d # c /\ reg'[d] = reg[d]
  BY <1>1
<1>3. Registrants' \subseteq Registrants \cup {<<c, g>>}
  BY <1>1 DEF Registrants, Object
<1>4. Registrants \cup {<<c, g>>} \subseteq Registrants'
  BY <1>1, <1>2 DEF Registrants, Object
<1> QED
  BY <1>1, <1>2, <1>3, <1>4 DEF Object

(* While all is calm, goroutines keep to the objects of registered channels. *)
LEMMA WorksKept ==
  ASSUME EsTyped, Calm, Works, [Next]_vars, Calm'
  PROVE  Works'
<1>1. WorkersOk /\ TypeSupervisor
  BY DEF EsTyped, TypeOK, WorkersOk
<1>2. CASE UNCHANGED <<workVars, reg>>
  BY <1>2 DEF Works, workVars, Registrants, Object
<1>3. ASSUME NEW w \in Workers, Advances(w), UNCHANGED reg PROVE Works'
  <2>1. Registrants' = Registrants
    BY <1>3 DEF Registrants, Object
  <2>2. \A v \in Workers \ {w} : wpc'[v] = wpc[v] /\ wobj'[v] = wobj[v] /\ wtodo'[v] = wtodo[v]
    BY <1>3 DEF Advances, Alone
  <2>3. CASE Ends(w)
    BY <2>1, <2>2, <2>3 DEF Ends, Works, SubscribePcs
  <2>4. CASE ~Ends(w)
    BY <1>3, <2>1, <2>2, <2>4 DEF Advances, Works
  <2> QED
    BY <2>3, <2>4
<1>4. ASSUME NEW c \in Channels, Register(c) PROVE Works'
  <2>1. CASE UNCHANGED <<reg, workVars>>
    BY <1>2, <2>1
  <2>2. CASE reg[c] = 0 /\ ~ UNCHANGED <<reg, workVars>>
    <3>1. PICK g : g = gen[c] + 1
      OBVIOUS
    <3>2. /\ Registrants' = Registrants \cup {<<c, g>>}
          /\ UNCHANGED workVars \/ \E w \in Workers : Alone(w) /\ Begins(w, "start", <<c, g>>, sid)
      BY <1>1, <1>4, <2>2, <3>1, RegisterFacts, Grows
    <3>3. CASE UNCHANGED workVars
      BY <3>2, <3>3 DEF Works, workVars
    <3>4. ASSUME NEW w \in Workers, Alone(w), Begins(w, "start", <<c, g>>, sid) PROVE Works'
      <4>1. wpc'[w] = "start" /\ wobj'[w] \in Registrants' /\ wtodo'[w] = {}
        BY <3>2, <3>4 DEF Begins
      <4>2. \A v \in Workers \ {w} : wpc'[v] = wpc[v] /\ wobj'[v] = wobj[v] /\ wtodo'[v] = wtodo[v]
        BY <3>4 DEF Alone
      <4> QED
        BY <3>2, <4>1, <4>2 DEF Works, SubscribePcs
    <3> QED
      BY <3>2, <3>3, <3>4
  <2> QED
    BY <1>1, <1>4, <2>1, <2>2, RegisterFacts
<1>5. CASE Welcome
  <2>1. PICK step \in {"welcome", "welcomeback"} : Spawn(step, NoObj, sess, 0, {})
    BY <1>5 DEF Welcome
  <2>2. PICK w \in Workers : Alone(w) /\ Begins(w, step, NoObj, sess)
    BY <1>1, <2>1, SpawnFacts
  <2>3. Registrants' = Registrants
    BY <1>5 DEF Welcome, objVars, Registrants, Object
  <2> QED
    BY <2>2, <2>3 DEF Works, Alone, Begins, SubscribePcs
<1>6. ASSUME NEW c \in Channels, BeginJoin(c) \/ JoinIrc(c) \/ FlipCheck(c) \/ FlipIrc(c) PROVE Works'
  BY <1>6, <1>2 DEF BeginJoin, JoinIrc, FlipCheck, FlipIrc, objVars
<1>7. CASE Authenticate \/ AuthenticateReturns \/ DialOk \/ Lose \/ SessionLost \/ SessionMoves \/ FlipsDone \/ SleepDone \/ UNCHANGED vars
  BY <1>7, <1>2 DEF Authenticate, AuthenticateReturns, AccountGoes, DialOk, Lose, SessionLost, MarkAllDown, SessionMoves, FlipsDone,
     SleepDone, vars, objVars
<1>8. ASSUME NEW c \in Channels, EsJoin(c) \/ AuthenticateJoin(c) PROVE Works'
  BY <1>8, <1>4 DEF EsJoin, AuthenticateJoin
<1> QED
  BY <1>1, <1>3, <1>5, <1>6, <1>7, <1>8, CalmSteps, WorkersAdvance

(* The object of a goroutine that subscribes is that of a registered channel. *)
LEMMA RegistrantFact ==
  ASSUME Works, NEW w \in Workers, wpc[w] \in SubscribePcs
  PROVE  wobj[w][1] \in Channels /\ reg[wobj[w][1]] # 0 /\ wobj[w] = Object(wobj[w][1])
BY DEF Works, Registrants, Object

(* MayJoinIrc and JoinIrc, when nothing fails. *)
LEMMA IrcFacts ==
  ASSUME Calm, Calm', NEW c \in Channels
  PROVE  /\ MayJoinIrc(c) => irc' = irc \cup {c}
         /\ JoinIrc(c) => irc' = irc \cup {c} /\ pc[c] = "ircjoin" /\ UNCHANGED <<joined, objVars, runVars, workVars, twitchVars>>
                          /\ \E step : pc' = [pc EXCEPT ![c] = step]
<1>1. fails = 0 /\ fails' = 0
  BY DEF Calm
<1> QED
  BY <1>1 DEF MayJoinIrc, JoinIrc, CallerThen, CallerReturns, CallerGoto

(* A joined channel that IRC holds, or is about to, stays there until a callback takes it off. *)
OnIrc(c) == c \in irc \/ pc[c] = "ircjoin"
LEMMA IrcStays ==
  ASSUME EsTyped, Calm, Works, [Next]_vars, Calm'
  PROVE  \A c \in joined' : OnIrc(c)' \/ (c \in joined /\ ~OnIrc(c)) \/ \E w \in Workers : UpIrc(w) /\ wobj[w][1] = c
<1> DEFINE Stays == \A c \in joined' : OnIrc(c)' \/ (c \in joined /\ ~OnIrc(c)) \/ \E w \in Workers : UpIrc(w) /\ wobj[w][1] = c
<1>1. TypeAdapter
  BY DEF EsTyped, TypeOK
<1>2. ASSUME UNCHANGED <<joined, pc>>, irc \subseteq irc' PROVE Stays
  BY <1>2 DEF OnIrc
<1>3. ASSUME NEW c \in Channels, BeginJoin(c) PROVE Stays
  BY <1>1, <1>3 DEF BeginJoin, CallerGoto, OnIrc, TypeAdapter
<1>4. ASSUME NEW c \in Channels, JoinIrc(c) PROVE Stays
  <2>1. irc' = irc \cup {c} /\ UNCHANGED joined /\ \E step : pc' = [pc EXCEPT ![c] = step]
    BY <1>4, IrcFacts
  <2> QED
    BY <1>1, <2>1 DEF OnIrc, TypeAdapter
<1>5. ASSUME NEW c \in Channels, EsJoin(c) \/ AuthenticateJoin(c) PROVE Stays
  <2>1. UNCHANGED <<joined, irc>> /\ \A d \in Channels : pc[d] = "ircjoin" => pc'[d] = "ircjoin"
    BY <1>1, <1>5 DEF EsJoin, AuthenticateJoin, CallerReturns, CallerGoto, TypeAdapter
  <2> QED
    BY <1>1, <2>1 DEF OnIrc, TypeAdapter
<1>6. ASSUME NEW c \in Channels, FlipCheck(c) \/ FlipIrc(c) PROVE Stays
  BY <1>2, <1>6, IrcFacts DEF FlipCheck, FlipIrc, adapterVars
<1>7. CASE Authenticate \/ AuthenticateReturns \/ DialOk \/ Welcome \/ Lose \/ SessionLost \/ SessionMoves \/ FlipsDone \/ SleepDone \/ UNCHANGED vars
  BY <1>2, <1>7 DEF Authenticate, AuthenticateReturns, AccountGoes, DialOk, Welcome, Lose, SessionLost, SessionMoves, FlipsDone,
     SleepDone, vars, adapterVars
<1>8. ASSUME NEW w \in Workers, UpIrc(w) PROVE Stays
  <2>1. irc' = irc \ {wobj[w][1]} /\ UNCHANGED <<joined, pc>>
    BY <1>8 DEF UpIrc
  <2> QED
    BY <1>8, <2>1 DEF OnIrc
<1>9. ASSUME NEW w \in Workers, OnWelcome(w) \/ Start(w) \/ ReserveStale(w) \/ Reserve(w) \/ CreateOk(w) \/ CreateConflict(w)
                                  \/ CreateRefused(w) \/ CreateForbidden(w) \/ Record(w) \/ Finish(w) \/ UpCheck(w)
      PROVE  Stays
  BY <1>2, <1>9 DEF OnWelcome, Start, ReserveStale, Reserve, CreateOk, CreateConflict, CreateRefused, CreateForbidden, Record, Finish,
     UpCheck, adapterVars
<1> QED
  BY <1>3, <1>4, <1>5, <1>6, <1>7, <1>8, <1>9, CalmSteps

(* A registered channel stays registered. *)
LEMMA RegStays ==
  ASSUME EsTyped, Calm, Works, [Next]_vars, Calm'
  PROVE  \A d \in Channels : reg[d] # 0 => reg'[d] # 0 /\ Object(d)' = Object(d)
<1> DEFINE Stays == \A d \in Channels : reg[d] # 0 => reg'[d] # 0 /\ Object(d)' = Object(d)
<1>1. WorkersOk /\ TypeSupervisor
  BY DEF EsTyped, TypeOK, WorkersOk
<1>2. ASSUME UNCHANGED reg PROVE Stays
  BY <1>2 DEF Object
<1>3. ASSUME NEW c \in Channels, EsJoin(c) \/ AuthenticateJoin(c) PROVE Stays
  <2>1. Register(c)
    BY <1>3 DEF EsJoin, AuthenticateJoin
  <2>2. CASE reg[c] = 0 /\ ~ UNCHANGED reg
    <3>1. PICK g : g # 0 /\ reg' = [reg EXCEPT ![c] = g]
      BY <1>1, <2>1, <2>2, RegisterFacts
    <3> QED
      BY <1>1, <2>2, <3>1, Grows
  <2> QED
    BY <1>1, <1>2, <2>1, <2>2, RegisterFacts
<1>4. ASSUME NEW c \in Channels, BeginJoin(c) \/ JoinIrc(c) \/ FlipCheck(c) \/ FlipIrc(c) PROVE Stays
  BY <1>2, <1>4 DEF BeginJoin, JoinIrc, FlipCheck, FlipIrc, objVars
<1>5. CASE Authenticate \/ AuthenticateReturns \/ DialOk \/ Welcome \/ Lose \/ SessionLost \/ SessionMoves \/ FlipsDone \/ SleepDone \/ UNCHANGED vars
  BY <1>2, <1>5 DEF Authenticate, AuthenticateReturns, AccountGoes, DialOk, Welcome, Lose, SessionLost, MarkAllDown, SessionMoves, FlipsDone,
     SleepDone, vars, objVars
<1> QED
  BY <1>1, <1>2, <1>3, <1>4, <1>5, CalmSteps, WorkersAdvance

(* A joined channel stays on IRC until it is registered. *)
LEMMA ListensKept ==
  ASSUME EsTyped, Calm, Works, Listens, [Next]_vars, Calm'
  PROVE  Listens'
<1>1. ASSUME NEW c \in joined' PROVE c \in irc' \/ pc'[c] = "ircjoin" \/ reg'[c] # 0
  <2>1. TypeAdapter /\ TypeAdapter'
    BY EsTypedNext DEF EsTyped, TypeOK
  <2>2. c \in Channels
    BY <2>1 DEF TypeAdapter
  <2>3. ASSUME NEW w \in Workers, UpIrc(w), wobj[w][1] = c PROVE reg[c] # 0
    BY <2>3, RegistrantFact DEF UpIrc, SubscribePcs
  <2>4. OnIrc(c)' \/ reg[c] # 0
    BY <2>3, IrcStays DEF Listens, OnIrc
  <2> QED
    BY <2>2, <2>4, RegStays DEF OnIrc
<1> QED
  BY <1>1 DEF Listens

-----------------------------------------------------------------------------
(* Connections are only moved: what was subscribed stays subscribed.          *)

Subscribed(c) == tsub[c][Chat] # 0
Dialled ==
  /\ rpc \in {"off", "dial", "session"}
  /\ rpc = "session" => link \in {"new", "up"}
  /\ rpc = "dial" => carried = "yes" \/ link = "dead"
(* What a goroutine has booked, and is about to report, is subscribed. *)
Backed(w) ==
  wpc[w] \in SubscribePcs =>
    /\ wchat[w] = "yes" => Subscribed(wobj[w][1])
    /\ wpc[w] = "record" /\ wtop[w] = Chat /\ wans[w] # 0 => Subscribed(wobj[w][1])
    /\ wpc[w] \in {"upcheck", "upirc"} => Subscribed(wobj[w][1])
MovedOnly ==
  /\ Dialled
  /\ \A c \in Channels, g \in Gens : up[c][g] = "yes" => Subscribed(c)
  /\ \A w \in Workers : Backed(w)
  /\ \A c \in joined : OnIrc(c) \/ Subscribed(c)

(* Twitch's answer to a request that succeeds. *)
LEMMA AnsweredFacts ==
  ASSUME WorkersOk, TypeTwitch, NEW w \in Workers, CreateOk(w)
  PROVE  /\ \A c \in Channels, t \in DOMAIN Topics :
              tsub'[c][t] = IF c = wobj[w][1] /\ t = wtop[w] THEN FreshId ELSE tsub[c][t]
         /\ FreshId # 0 /\ wobj[w][1] \in Channels /\ wtop[w] \in DOMAIN Topics
<1>1. PICK c \in Channels, t \in DOMAIN Topics : c = wobj[w][1] /\ t = wtop[w]
  BY DEF CreateOk, WorkersOk, Holding, ObjectPcs, SubscribePcs, TopicPcs, Objects
<1>2. PICK i \in Nat \ {0} : i = FreshId
  BY FreshFact DEF WorkersOk
<1>3. tsub' = [tsub EXCEPT ![c][t] = i]
  BY <1>1, <1>2 DEF CreateOk, Enable
<1> QED
  BY <1>1, <1>2, <1>3 DEF TypeTwitch

(* What happens to the subscriptions while no connection is lost. *)
LEMMA DialledKept ==
  ASSUME EsTyped, Calm, Works, Dialled, [Next]_vars, Calm', losses = 0, losses' = 0
  PROVE  Dialled' /\ \A c \in Channels : Subscribed(c) => Subscribed(c)'
<1>1. WorkersOk /\ TypeTwitch /\ Hung /\ Account /\ Chat \in DOMAIN Topics
  BY TopicsFacts DEF EsTyped, TypeOK, WorkersOk
<1>2. CASE UNCHANGED <<rpc, carried, link, tsub>>
  BY <1>2 DEF Dialled, Subscribed
<1>3. ASSUME NEW c \in Channels, BeginJoin(c) \/ JoinIrc(c) \/ EsJoin(c) \/ AuthenticateJoin(c)
      PROVE  Dialled' /\ \A d \in Channels : Subscribed(d) => Subscribed(d)'
  BY <1>2, <1>3 DEF BeginJoin, JoinIrc, EsJoin, AuthenticateJoin, runVars, twitchVars
<1>4. CASE AuthenticateReturns \/ UNCHANGED vars
  BY <1>2, <1>4 DEF AuthenticateReturns, AccountGoes, vars, runVars, twitchVars
<1>5. CASE Authenticate
  BY <1>1, <1>5 DEF Authenticate, Account, Hung, Dialled, Subscribed, twitchVars
<1>6. CASE DialOk
  <2>1. tsub' = tsub
    BY <1>1, <1>6 DEF DialOk, Dialled, Hung
  <2> QED
    BY <1>6, <2>1 DEF DialOk, Dialled, Subscribed
<1>7. CASE Welcome \/ SessionMoves
  BY <1>7 DEF Welcome, SessionMoves, Dialled, Subscribed
<1>8. ~Lose
  BY DEF Lose
<1>9. ~SessionLost /\ ~FlipsDone /\ ~SleepDone /\ \A c \in Channels : ~FlipCheck(c) /\ ~FlipIrc(c)
  BY DEF SessionLost, FlipsDone, SleepDone, FlipCheck, FlipIrc, Dialled
<1>10. ASSUME NEW w \in Workers, CreateOk(w) PROVE Dialled' /\ \A c \in Channels : Subscribed(c) => Subscribed(c)'
  <2>1. UNCHANGED <<rpc, carried, link>>
    BY <1>10 DEF CreateOk, runVars
  <2> QED
    BY <1>1, <1>10, <2>1, AnsweredFacts DEF Dialled, Subscribed
<1>11. ASSUME NEW w \in Workers, OnWelcome(w) \/ Start(w) \/ ReserveStale(w) \/ Reserve(w) \/ CreateConflict(w)
                                  \/ CreateRefused(w) \/ CreateForbidden(w) \/ Record(w) \/ Finish(w) \/ UpCheck(w) \/ UpIrc(w)
      PROVE  Dialled' /\ \A c \in Channels : Subscribed(c) => Subscribed(c)'
  BY <1>2, <1>11 DEF OnWelcome, Start, ReserveStale, Reserve, CreateConflict, CreateRefused, CreateForbidden, Record, Finish,
     UpCheck, UpIrc, runVars, twitchVars
<1> QED
  BY <1>3, <1>4, <1>5, <1>6, <1>7, <1>8, <1>9, <1>10, <1>11, CalmSteps

(* The goroutine that moves: what it goes on with is subscribed where it has to be. *)
LEMMA BackedStep ==
  ASSUME EsTyped, Calm, Works, MovedOnly, NEW w \in Workers,
         \A c \in Channels : Subscribed(c) => Subscribed(c)',
         OnWelcome(w) \/ Start(w) \/ ReserveStale(w) \/ Reserve(w) \/ CreateOk(w) \/ CreateConflict(w) \/ CreateRefused(w)
           \/ CreateForbidden(w) \/ Record(w) \/ Finish(w) \/ UpCheck(w) \/ UpIrc(w)
  PROVE  Backed(w)'
<1>1. WorkersOk /\ TypeTwitch
  BY DEF EsTyped, TypeOK, WorkersOk
<1>2. ASSUME Ends(w) \/ Takes(w, wtodo[w]) \/ Takes(w, Registrants) PROVE Backed(w)'
  BY <1>2 DEF Ends, Takes, Backed, SubscribePcs
<1>3. CASE OnWelcome(w)
  BY <1>1, <1>2, <1>3, WelcomeFacts
<1>4. ASSUME SubscribeReturns(w) PROVE Backed(w)'
  BY <1>1, <1>2, <1>4, ReturnFacts DEF Returns
<1>5. ASSUME wpc[w] \in SubscribePcs, NEW step \in SubscribePcs, GoesOn(w, step), wchat'[w] = wchat[w] \/ Subscribed(wobj[w][1])',
             step = "record" /\ wtop'[w] = Chat /\ wans'[w] # 0 => Subscribed(wobj[w][1])',
             step \in {"upcheck", "upirc"} => Subscribed(wobj[w][1])'
      PROVE  Backed(w)'
  <2>1. wobj[w][1] \in Channels
    BY <1>5, RegistrantFact
  <2>2. wpc'[w] = step /\ wobj'[w] = wobj[w]
    BY <1>5 DEF GoesOn
  <2>3. PICK c \in Channels : c = wobj[w][1] /\ c = wobj'[w][1]
    BY <2>1, <2>2
  <2>4. wchat'[w] = "yes" => Subscribed(c)'
    BY <1>5, <2>3 DEF MovedOnly, Backed
  <2>5. step = "record" /\ wtop'[w] = Chat /\ wans'[w] # 0 => Subscribed(c)'
    BY <1>5, <2>3 DEF Subscribed
  <2>6. step \in {"upcheck", "upirc"} => Subscribed(c)'
    BY <1>5, <2>3 DEF Subscribed
  <2> QED
    BY <2>2, <2>3, <2>4, <2>5, <2>6 DEF Backed, Subscribed
<1>6. CASE Start(w)
  BY <1>1, <1>5, <1>6, StartFacts DEF SubscribePcs
<1>7. CASE ReserveStale(w) \/ UpIrc(w)
  BY <1>4, <1>7 DEF ReserveStale, UpIrc
<1>8. CASE Reserve(w)
  <2>1. PICK step \in {"create", "finish"} : Goto(w, step) /\ wpc[w] = "reserve"
    BY <1>8 DEF Reserve
  <2> QED
    BY <1>1, <1>5, <2>1, GotoFacts DEF SubscribePcs
<1>9. CASE CreateOk(w) \/ CreateConflict(w) \/ CreateRefused(w) \/ CreateForbidden(w)
  <2>1. wpc[w] = "create" /\ wobj[w][1] \in Channels
    BY <1>9, RegistrantFact DEF CreateOk, CreateConflict, CreateRefused, CreateForbidden, SubscribePcs
  <2>2. PICK a : Answer(w, a) /\ (a = 0 \/ CreateOk(w) \/ CreateConflict(w))
    BY <1>9 DEF CreateOk, CreateConflict, CreateRefused, CreateForbidden
  <2>3. GoesOn(w, "record") /\ wtop'[w] = wtop[w] /\ wchat'[w] = wchat[w] /\ wans'[w] = a
    BY <1>1, <2>2, AnswerFacts
  <2>4. CreateOk(w) /\ wtop[w] = Chat => Subscribed(wobj[w][1])'
    BY <1>1, <2>3, AnsweredFacts, TopicsFacts DEF Subscribed, GoesOn
  <2>5. CreateConflict(w) /\ wtop[w] = Chat => Subscribed(wobj[w][1])'
    BY <2>1, <2>3 DEF CreateConflict, Enabled, Subscribed, twitchVars, GoesOn
  <2> QED
    BY <1>5, <2>1, <2>2, <2>3, <2>4, <2>5 DEF SubscribePcs
<1>10. CASE Record(w)
  <2>1. wpc[w] = "record" /\ (GoesOn(w, "reserve") \/ GoesOn(w, "finish"))
        /\ wchat'[w] = IF wans[w] # 0 /\ wtop[w] = 1 THEN "yes" ELSE wchat[w]
    BY <1>1, <1>10, RecordFacts
  <2>2. wans[w] # 0 /\ wtop[w] = 1 => Subscribed(wobj[w][1])'
    <3>1. wans[w] # 0 /\ wtop[w] = 1 => Subscribed(wobj[w][1])
      BY <2>1, TopicsFacts DEF MovedOnly, Backed, SubscribePcs
    <3> QED
      BY <3>1, <1>10 DEF Record, Subscribed, twitchVars
  <2> QED
    BY <1>5, <2>1, <2>2 DEF SubscribePcs
<1>11. CASE Finish(w) \/ UpCheck(w)
  <2>1. wpc[w] \in {"finish", "upcheck"}
    BY <1>11 DEF Finish, UpCheck
  <2>2. SubscribeReturns(w) \/ (Goto(w, "upcheck") /\ wchat[w] = "yes") \/ (Goto(w, "upirc") /\ wpc[w] = "upcheck")
    BY <1>11 DEF Finish, UpCheck
  <2>3. wchat[w] = "yes" \/ wpc[w] = "upcheck" => Subscribed(wobj[w][1])
    BY <2>1 DEF MovedOnly, Backed, SubscribePcs
  <2>4. ASSUME NEW step \in {"upcheck", "upirc"}, Goto(w, step), wchat[w] = "yes" \/ wpc[w] = "upcheck" PROVE Backed(w)'
    <3>1. GoesOn(w, step) /\ wchat'[w] = wchat[w]
      BY <1>1, <2>4, GotoFacts
    <3>2. Subscribed(wobj[w][1])'
      BY <1>11, <2>3, <2>4, <3>1 DEF GoesOn, Finish, UpCheck, Subscribed, twitchVars
    <3> QED
      BY <1>5, <2>1, <3>1, <3>2 DEF SubscribePcs
  <2> QED
    BY <1>4, <2>2, <2>4
<1> QED
  BY <1>3, <1>6, <1>7, <1>8, <1>9, <1>10, <1>11

(* The goroutines that do not move, and the ones that start. *)
LEMMA BackedKept ==
  ASSUME EsTyped, Calm, Works, MovedOnly, [Next]_vars, Calm', losses = 0, losses' = 0,
         \A c \in Channels : Subscribed(c) => Subscribed(c)'
  PROVE  \A w \in Workers : Backed(w)'
<1>1. WorkersOk /\ TypeSupervisor
  BY DEF EsTyped, TypeOK, WorkersOk
<1>2. ASSUME NEW v \in Workers, wpc'[v] = wpc[v], wobj'[v] = wobj[v], wtop'[v] = wtop[v], wchat'[v] = wchat[v], wans'[v] = wans[v]
      PROVE  Backed(v)'
  <2>1. CASE wpc[v] \in SubscribePcs
    <3>1. PICK c \in Channels : c = wobj[v][1] /\ c = wobj'[v][1]
      BY <1>2, <2>1, RegistrantFact
    <3>2. Subscribed(c) => Subscribed(c)'
      BY <3>1
    <3> QED
      BY <1>2, <3>1, <3>2 DEF MovedOnly, Backed, Subscribed
  <2>2. CASE wpc[v] \notin SubscribePcs
    BY <1>2, <2>2 DEF Backed
  <2> QED
    BY <2>1, <2>2
<1>3. ASSUME NEW w \in Workers, Alone(w), Backed(w)' PROVE \A v \in Workers : Backed(v)'
  <2>1. ASSUME NEW v \in Workers \ {w} PROVE Backed(v)'
    BY <1>2, <1>3, <2>1 DEF Alone
  <2> QED
    BY <1>3, <2>1
<1>4. CASE UNCHANGED workVars
  BY <1>2, <1>4 DEF workVars
<1>5. ASSUME NEW w \in Workers, NEW step \in {"start", "welcome", "welcomeback"}, NEW o, NEW s, Alone(w), Begins(w, step, o, s)
      PROVE  \A v \in Workers : Backed(v)'
  <2>1. Backed(w)'
    BY <1>5 DEF Begins, Backed
  <2> QED
    BY <1>3, <1>5, <2>1
<1>6. ASSUME NEW c \in Channels, EsJoin(c) \/ AuthenticateJoin(c) PROVE \A v \in Workers : Backed(v)'
  <2>1. Register(c)
    BY <1>6 DEF EsJoin, AuthenticateJoin
  <2>2. UNCHANGED workVars \/ \E w \in Workers : \E o, s : Alone(w) /\ Begins(w, "start", o, s)
    BY <1>1, <2>1, RegisterFacts
  <2> QED
    BY <1>4, <1>5, <2>2
<1>7. CASE Welcome
  <2>1. PICK step \in {"welcome", "welcomeback"} : Spawn(step, NoObj, sess, 0, {})
    BY <1>7 DEF Welcome
  <2>2. \E w \in Workers : Alone(w) /\ Begins(w, step, NoObj, sess)
    BY <1>1, <2>1, SpawnFacts
  <2> QED
    BY <1>5, <2>2
<1>8. ASSUME NEW c \in Channels, BeginJoin(c) \/ JoinIrc(c) \/ FlipCheck(c) \/ FlipIrc(c) PROVE \A v \in Workers : Backed(v)'
  BY <1>4, <1>8 DEF BeginJoin, JoinIrc, FlipCheck, FlipIrc
<1>9. CASE Authenticate \/ AuthenticateReturns \/ DialOk \/ Lose \/ SessionLost \/ SessionMoves \/ FlipsDone \/ SleepDone \/ UNCHANGED vars
  BY <1>4, <1>9 DEF Authenticate, AuthenticateReturns, AccountGoes, DialOk, Lose, SessionLost, SessionMoves, FlipsDone, SleepDone, vars
<1>10. ASSUME NEW w \in Workers, OnWelcome(w) \/ Start(w) \/ ReserveStale(w) \/ Reserve(w) \/ CreateOk(w) \/ CreateConflict(w)
                                  \/ CreateRefused(w) \/ CreateForbidden(w) \/ Record(w) \/ Finish(w) \/ UpCheck(w) \/ UpIrc(w)
      PROVE  \A v \in Workers : Backed(v)'
  <2>1. Alone(w)
    BY <1>1, <1>10, WorkersAdvance DEF Advances
  <2>2. Backed(w)'
    BY <1>10, BackedStep
  <2> QED
    BY <1>3, <2>1, <2>2
<1> QED
  BY <1>6, <1>7, <1>8, <1>9, <1>10, CalmSteps

(* Only what is subscribed is marked up. *)
LEMMA UpBacked ==
  ASSUME EsTyped, Calm, Works, MovedOnly, [Next]_vars, Calm', losses = 0, losses' = 0
  PROVE  \A c \in Channels, g \in Gens : up'[c][g] = "yes" => Subscribed(c)
<1> DEFINE Goal == \A c \in Channels, g \in Gens : up'[c][g] = "yes" => Subscribed(c)
<1>1. WorkersOk /\ TypeSupervisor
  BY DEF EsTyped, TypeOK, WorkersOk
<1>2. ASSUME UNCHANGED up PROVE Goal
  BY <1>2 DEF MovedOnly
<1>3. ASSUME NEW w \in Workers, Finish(w) PROVE Goal
  <2>1. PICK c \in Channels, g \in Gens : wobj[w] = <<c, g>>
    BY <1>1, <1>3 DEF Finish, WorkersOk, Holding, ObjectPcs, SubscribePcs, Objects
  <2>2. up' = [up EXCEPT ![c][g] = wchat[w]]
    BY <1>3, <2>1 DEF Finish
  <2>3. \A d \in Channels, h \in Gens : up'[d][h] = IF d = c /\ h = g THEN wchat[w] ELSE up[d][h]
    BY <1>1, <2>2 DEF TypeSupervisor
  <2>4. wchat[w] = "yes" => Subscribed(c)
    BY <1>3, <2>1 DEF Finish, MovedOnly, Backed, SubscribePcs
  <2> QED
    BY <2>3, <2>4 DEF MovedOnly
<1>4. ASSUME NEW c \in Channels, EsJoin(c) \/ AuthenticateJoin(c) PROVE Goal
  BY <1>1, <1>2, <1>4, RegisterFacts DEF EsJoin, AuthenticateJoin
<1>5. ASSUME NEW c \in Channels, BeginJoin(c) \/ JoinIrc(c) \/ FlipCheck(c) \/ FlipIrc(c) PROVE Goal
  BY <1>2, <1>5 DEF BeginJoin, JoinIrc, FlipCheck, FlipIrc, objVars
<1>6. CASE Authenticate \/ AuthenticateReturns \/ DialOk \/ Welcome \/ Lose \/ SessionMoves \/ FlipsDone \/ SleepDone \/ UNCHANGED vars
  BY <1>2, <1>6 DEF Authenticate, AuthenticateReturns, AccountGoes, DialOk, Welcome, Lose, SessionMoves, FlipsDone, SleepDone, vars, objVars
<1>7. ~SessionLost
  BY DEF SessionLost, MovedOnly, Dialled
<1>8. ASSUME NEW w \in Workers, OnWelcome(w) \/ Start(w) \/ ReserveStale(w) \/ Reserve(w) \/ CreateOk(w) \/ CreateConflict(w)
                                  \/ CreateRefused(w) \/ CreateForbidden(w) \/ Record(w) \/ UpCheck(w) \/ UpIrc(w)
      PROVE  Goal
  BY <1>2, <1>8 DEF OnWelcome, Start, ReserveStale, Reserve, CreateOk, CreateConflict, CreateRefused, CreateForbidden, Record,
     UpCheck, UpIrc, objVars
<1> QED
  BY <1>3, <1>4, <1>5, <1>6, <1>7, <1>8, CalmSteps

(* Moved connections keep this invariant: nothing that was subscribed is lost, and only that is up. *)
LEMMA MovedKept ==
  ASSUME EsTyped, Calm, Works, MovedOnly, [Next]_vars, Calm', losses = 0, losses' = 0
  PROVE  MovedOnly'
<1>1. Dialled' /\ \A c \in Channels : Subscribed(c) => Subscribed(c)'
  BY DialledKept DEF MovedOnly
<1>2. \A w \in Workers : Backed(w)'
  BY <1>1, BackedKept
<1>3. \A c \in Channels, g \in Gens : up'[c][g] = "yes" => Subscribed(c)'
  BY <1>1, UpBacked
<1>4. ASSUME NEW c \in joined' PROVE OnIrc(c)' \/ Subscribed(c)'
  <2>1. TypeAdapter'
    BY EsTypedNext DEF EsTyped, TypeOK
  <2>2. c \in Channels
    BY <2>1 DEF TypeAdapter
  <2>3. ASSUME NEW w \in Workers, UpIrc(w), wobj[w][1] = c PROVE Subscribed(c)
    BY <2>3 DEF UpIrc, SubscribePcs, MovedOnly, Backed
  <2>4. OnIrc(c)' \/ Subscribed(c)
    BY <2>3, IrcStays DEF MovedOnly
  <2> QED
    BY <1>1, <2>2, <2>4
<1> QED
  BY <1>1, <1>2, <1>3, <1>4 DEF MovedOnly

-----------------------------------------------------------------------------
(* Connections are only lost: each session has an id of its own.              *)

Greets(w) == wpc[w] = "welcome" /\ wsid[w] = sess
OwnIds ==
  /\ carried = "no" /\ sess = conn /\ sid <= sess
  /\ \A w \in Workers : wpc[w] # "welcomeback" /\ wsid[w] <= sess
  /\ link \in {"new", "up"} => rpc = "session" /\ conn # 0
  /\ link # "moving"
  /\ link = "new" => sid # sess /\ \A w \in Workers : wsid[w] # sess
  /\ \A w \in Workers : link = "up" /\ Greets(w) => sid # sess /\ \A v \in Workers \ {w} : wsid[v] # sess

(* Lost connections keep this one: a session has an id that no goroutine, and no record, had before. *)
LEMMA OwnIdsKept ==
  ASSUME EsTyped, Calm, Works, OwnIds, [Next]_vars, Calm', moves = 0, moves' = 0
  PROVE  OwnIds'
<1>1. WorkersOk /\ TypeSupervisor /\ TypeTwitch /\ Hung
  BY DEF EsTyped, TypeOK, WorkersOk
<1>2. sess \in Nat /\ conn \in Nat /\ sid \in Nat /\ \A w \in Workers : wsid[w] \in Nat
  BY <1>1 DEF TypeSupervisor, TypeTwitch, WorkersOk, TypeWorkers
<1>3. CASE UNCHANGED <<workVars, sid, conn, sess, link, rpc, carried>>
  BY <1>3 DEF OwnIds, Greets, workVars
<1>4. ASSUME NEW c \in Channels, EsJoin(c) \/ AuthenticateJoin(c) PROVE OwnIds'
  <2>1. Register(c) /\ UNCHANGED <<conn, sess, link, rpc, carried>>
    BY <1>4 DEF EsJoin, AuthenticateJoin, runVars, twitchVars
  <2>2. UNCHANGED sid /\ (UNCHANGED workVars \/ \E w \in Workers : \E o : Alone(w) /\ Begins(w, "start", o, sid))
    BY <1>1, <2>1, RegisterFacts
  <2>3. ASSUME NEW w \in Workers, NEW o, Alone(w), Begins(w, "start", o, sid) PROVE OwnIds'
    <3>1. \A v \in Workers : wpc'[v] # "welcomeback" /\ wsid'[v] <= sess
      BY <1>2, <2>3 DEF OwnIds, Alone, Begins
    <3>2. link = "new" => \A v \in Workers : wsid'[v] # sess
      BY <1>2, <2>3 DEF OwnIds, Alone, Begins
    <3>3. ASSUME NEW v \in Workers, link = "up", wpc'[v] = "welcome", wsid'[v] = sess
          PROVE  sid # sess /\ \A u \in Workers \ {v} : wsid'[u] # sess
      <4>1. v # w /\ Greets(v)
        BY <2>3, <3>3 DEF Alone, Begins, Greets
      <4> QED
        BY <2>3, <3>3, <4>1 DEF OwnIds, Alone, Begins
    <3> QED
      BY <2>1, <2>2, <3>1, <3>2, <3>3 DEF OwnIds, Greets
  <2> QED
    BY <1>3, <2>1, <2>2, <2>3
<1>5. CASE Welcome
  <2>1. Spawn("welcome", NoObj, sess, 0, {}) /\ link = "new" /\ link' = "up" /\ rpc = "session" /\ carried' = "no"
        /\ UNCHANGED <<rpc, conn, sess, sid>>
    BY <1>5 DEF Welcome, OwnIds, objVars
  <2>2. PICK w \in Workers : Alone(w) /\ Begins(w, "welcome", NoObj, sess)
    BY <1>1, <2>1, SpawnFacts
  <2>3. \A v \in Workers \ {w} : wsid'[v] = wsid[v] /\ wsid[v] # sess /\ wpc'[v] = wpc[v]
    BY <2>1, <2>2 DEF OwnIds, Alone
  <2>4. \A v \in Workers : wpc'[v] # "welcomeback" /\ wsid'[v] <= sess
    BY <1>2, <2>2, <2>3 DEF OwnIds, Begins
  <2> QED
    BY <2>1, <2>2, <2>3, <2>4 DEF OwnIds, Greets
<1>6. CASE DialOk
  <2>1. /\ sess' = conn + 1 /\ conn' = conn + 1 /\ link' = "new" /\ rpc' = "session"
        /\ UNCHANGED <<carried, sid, workVars>>
    BY <1>6 DEF DialOk, OwnIds, objVars
  <2>2. \A v \in Workers : wsid'[v] = wsid[v] /\ wsid[v] <= sess /\ wpc'[v] = wpc[v]
    BY <2>1 DEF OwnIds, workVars
  <2> QED
    BY <1>2, <2>1, <2>2 DEF OwnIds
<1>7. CASE Lose
  BY <1>7 DEF Lose, HangUp, OwnIds, objVars, runVars, workVars
<1>8. CASE SessionLost
  <2>1. sid' = 0 /\ carried' = "no" /\ link = "dead" /\ UNCHANGED <<conn, sess, link, workVars>>
    BY <1>8 DEF SessionLost, MarkAllDown, twitchVars
  <2> QED
    BY <1>2, <2>1 DEF OwnIds, workVars
<1>9. CASE FlipsDone \/ SleepDone \/ Authenticate \/ \E c \in Channels : FlipCheck(c)
  <2>1. rpc \in {"flip", "sleep", "off"} /\ UNCHANGED <<carried, sid, conn, sess, link, workVars>>
    BY <1>9 DEF FlipsDone, SleepDone, Authenticate, FlipCheck, objVars, twitchVars, EsTyped, Account
  <2>2. link \notin {"new", "up"}
    BY <2>1 DEF OwnIds
  <2> QED
    BY <2>1, <2>2 DEF OwnIds, Greets, workVars
<1>10. ASSUME NEW c \in Channels, FlipIrc(c) PROVE OwnIds'
  <2>1. rpc = "flipirc" /\ UNCHANGED <<carried, sid, conn, sess, link, workVars>>
    BY <1>10 DEF FlipIrc, objVars, twitchVars
  <2>2. link \notin {"new", "up"}
    BY <2>1 DEF OwnIds
  <2> QED
    BY <2>1, <2>2 DEF OwnIds, Greets, workVars
<1>11. ~SessionMoves
  BY DEF SessionMoves
<1>12. ASSUME NEW c \in Channels, BeginJoin(c) \/ JoinIrc(c) PROVE OwnIds'
  BY <1>3, <1>12 DEF BeginJoin, JoinIrc, objVars, runVars, twitchVars
<1>13. CASE AuthenticateReturns \/ UNCHANGED vars
  BY <1>3, <1>13 DEF AuthenticateReturns, AccountGoes, vars, objVars, runVars, twitchVars
<1>14. ASSUME NEW w \in Workers, Advances(w), sid' = sid \/ (sid' = wsid[w] /\ wpc[w] = "welcome"),
              UNCHANGED <<conn, sess, link, rpc, carried>>
       PROVE  OwnIds'
  <2>1. \A v \in Workers \ {w} : wsid'[v] = wsid[v] /\ wpc'[v] = wpc[v]
    BY <1>14 DEF Advances, Alone
  <2>2. wpc'[w] \notin {"welcome", "welcomeback"} /\ wsid'[w] \in {0, wsid[w]}
    BY <1>14 DEF Advances, Ends, SubscribePcs
  <2>3. \A v \in Workers : wpc'[v] # "welcomeback" /\ wsid'[v] <= sess
    BY <1>2, <2>1, <2>2 DEF OwnIds
  <2>4. sid' <= sess
    BY <1>14 DEF OwnIds
  <2>5. link = "new" => sid' # sess /\ \A v \in Workers : wsid'[v] # sess
    BY <1>2, <1>14, <2>1, <2>2 DEF OwnIds
  <2>6. ASSUME NEW v \in Workers, link = "up", wpc'[v] = "welcome", wsid'[v] = sess
        PROVE  sid' # sess /\ \A u \in Workers \ {v} : wsid'[u] # sess
    <3>1. v # w /\ Greets(v)
      BY <2>1, <2>2, <2>6 DEF Greets
    <3>2. sid # sess /\ (\A u \in Workers \ {v} : wsid[u] # sess) /\ sess # 0
      BY <2>6, <3>1 DEF OwnIds
    <3> QED
      BY <1>14, <2>1, <2>2, <3>1, <3>2
  <2> QED
    BY <1>14, <2>3, <2>4, <2>5, <2>6 DEF OwnIds, Greets
<1>15. ASSUME NEW w \in Workers, OnWelcome(w) \/ Start(w) \/ ReserveStale(w) \/ Reserve(w) \/ CreateOk(w) \/ CreateConflict(w)
                                  \/ CreateRefused(w) \/ CreateForbidden(w) \/ Record(w) \/ Finish(w) \/ UpCheck(w) \/ UpIrc(w)
       PROVE  OwnIds'
  <2>1. sid' = sid \/ (sid' = wsid[w] /\ wpc[w] = "welcome")
    <3>1. OnWelcome(w) => sid' = wsid[w] /\ wpc[w] = "welcome"
      BY DEF OnWelcome, OwnIds
    <3> QED
      BY <1>15, <3>1 DEF Start, ReserveStale, Reserve, CreateOk, CreateConflict, CreateRefused, CreateForbidden, Record, Finish,
         UpCheck, UpIrc, objVars
  <2> QED
    BY <1>1, <1>14, <1>15, <2>1, WorkersAdvance
<1> QED
  BY <1>4, <1>5, <1>6, <1>7, <1>8, <1>9, <1>10, <1>11, <1>12, <1>13, <1>15, CalmSteps

(* The steps after which a session is live. *)
LEMMA LiveSteps ==
  ASSUME EsTyped, Calm, Works, OwnIds, [Next]_vars, Calm', moves = 0, moves' = 0, link' = "up"
  PROVE  \/ /\ link = "new" /\ UNCHANGED <<sess, reg, sid, budget, tsub>>
            /\ \E w \in Workers : Alone(w) /\ Begins(w, "welcome", NoObj, sess)
         \/ link = "up" /\ UNCHANGED <<sess, reg, sid, budget, tsub, workVars>>
         \/ /\ link = "up" /\ UNCHANGED <<sess, tsub>>
            /\ \E c \in Channels : Register(c)
         \/ /\ link = "up" /\ UNCHANGED <<sess, reg>>
            /\ \E w \in Workers : OnWelcome(w) \/ Start(w) \/ ReserveStale(w) \/ Reserve(w) \/ CreateOk(w) \/ CreateConflict(w)
                                  \/ CreateRefused(w) \/ CreateForbidden(w) \/ Record(w) \/ Finish(w) \/ UpCheck(w) \/ UpIrc(w)
<1>1. WorkersOk
  BY DEF EsTyped, TypeOK, WorkersOk
<1>2. CASE Welcome
  <2>1. /\ Spawn("welcome", NoObj, sess, 0, {}) /\ link = "new" /\ UNCHANGED <<sess, reg, sid, budget, tsub>>
    BY <1>2 DEF Welcome, OwnIds, objVars
  <2> QED
    BY <1>1, <2>1, SpawnFacts
<1>3. ASSUME NEW c \in Channels, EsJoin(c) \/ AuthenticateJoin(c) PROVE link = "up" /\ UNCHANGED <<sess, tsub>> /\ Register(c)
  BY <1>3 DEF EsJoin, AuthenticateJoin, twitchVars
<1>4. ASSUME NEW c \in Channels, BeginJoin(c) \/ JoinIrc(c) \/ FlipCheck(c) \/ FlipIrc(c)
      PROVE  link = "up" /\ UNCHANGED <<sess, reg, sid, budget, tsub, workVars>>
  BY <1>4 DEF BeginJoin, JoinIrc, FlipCheck, FlipIrc, objVars, twitchVars
<1>5. CASE Authenticate \/ AuthenticateReturns \/ FlipsDone \/ SleepDone \/ UNCHANGED vars
  BY <1>5 DEF Authenticate, AuthenticateReturns, AccountGoes, FlipsDone, SleepDone, vars, objVars, twitchVars
<1>6. ~DialOk /\ ~Lose /\ ~SessionLost /\ ~SessionMoves
  BY DEF DialOk, Lose, HangUp, SessionLost, SessionMoves, twitchVars
<1>7. ASSUME NEW w \in Workers, OnWelcome(w) \/ Start(w) \/ ReserveStale(w) \/ Reserve(w) \/ CreateOk(w) \/ CreateConflict(w)
                                  \/ CreateRefused(w) \/ CreateForbidden(w) \/ Record(w) \/ Finish(w) \/ UpCheck(w) \/ UpIrc(w)
      PROVE  link = "up" /\ UNCHANGED <<sess, reg>>
  BY <1>1, <1>7, WorkersAdvance
<1> QED
  BY <1>2, <1>3, <1>4, <1>5, <1>6, <1>7, CalmSteps

(* The goroutines that subscribe channels on the session: no two of them work on the same one. *)
Subscribes(w) == wpc[w] \in SubscribePcs /\ wsid[w] = sess
OneEach ==
  link = "up" =>
    \A w \in Workers : Subscribes(w) =>
      wobj[w] \notin wtodo[w] /\ \A v \in Workers \ {w} : Subscribes(v) => Claim(w) \cap Claim(v) = {}

(* onWelcome hands every channel to one goroutine, and join starts one for a new object only. *)
LEMMA OneEachKept ==
  ASSUME EsTyped, Calm, Works, OwnIds, OneEach, [Next]_vars, Calm', moves = 0, moves' = 0
  PROVE  OneEach'
<1> SUFFICES ASSUME link' = "up"
             PROVE  \A w \in Workers : Subscribes(w)' =>
                      /\ wobj'[w] \notin wtodo'[w]
                      /\ \A v \in Workers \ {w} : Subscribes(v)' => Claim(w)' \cap Claim(v)' = {}
  BY DEF OneEach
<1> DEFINE Goal == \A w \in Workers : Subscribes(w)' =>
                      /\ wobj'[w] \notin wtodo'[w]
                      /\ \A v \in Workers \ {w} : Subscribes(v)' => Claim(w)' \cap Claim(v)' = {}
<1>1. WorkersOk /\ TypeSupervisor
  BY DEF EsTyped, TypeOK, WorkersOk
<1>2. CASE link = "new" /\ UNCHANGED sess /\ \E w \in Workers : Alone(w) /\ Begins(w, "welcome", NoObj, sess)
  <2>1. PICK w \in Workers : Alone(w) /\ Begins(w, "welcome", NoObj, sess)
    BY <1>2
  <2>2. \A v \in Workers : ~Subscribes(v)'
    BY <1>2, <2>1 DEF OwnIds, Alone, Begins, Subscribes, SubscribePcs
  <2> QED
    BY <2>2
<1>3. CASE link = "up" /\ UNCHANGED <<sess, workVars>>
  BY <1>3 DEF OneEach, Subscribes, Claim, workVars
<1>4. ASSUME link = "up", UNCHANGED sess, NEW c \in Channels, Register(c) PROVE Goal
  <2>1. CASE UNCHANGED workVars
    BY <1>3, <1>4, <2>1
  <2>2. ASSUME NEW g, reg[c] = 0, NEW w \in Workers, Alone(w), Begins(w, "start", <<c, g>>, sid) PROVE Goal
    <3>1. <<c, g>> \notin Registrants
      BY <2>2 DEF Registrants, Object
    <3>2. wobj'[w] = <<c, g>> /\ wtodo'[w] = {} /\ Claim(w)' = {<<c, g>>}
      BY <2>2 DEF Begins, Claim
    <3>3. ASSUME NEW v \in Workers \ {w} PROVE wobj'[v] = wobj[v] /\ wtodo'[v] = wtodo[v] /\ Claim(v)' = Claim(v) /\ Subscribes(v)' = Subscribes(v)
      BY <1>4, <2>2, <3>3 DEF Alone, Claim, Subscribes
    <3>4. ASSUME NEW v \in Workers, Subscribes(v) PROVE Claim(v) \subseteq Registrants
      BY <3>4 DEF Subscribes, Works, Claim
    <3>5. ASSUME NEW v \in Workers \ {w}, Subscribes(v)' PROVE Claim(w)' \cap Claim(v)' = {} /\ Claim(v)' \cap Claim(w)' = {}
      BY <3>1, <3>2, <3>3, <3>4, <3>5
    <3> QED
      BY <1>4, <3>2, <3>3, <3>5 DEF OneEach
  <2> QED
    BY <1>1, <1>4, <2>1, <2>2, RegisterFacts
<1>5. ASSUME link = "up", UNCHANGED sess, NEW w \in Workers, Advances(w) PROVE Goal
  <2>1. ASSUME NEW v \in Workers \ {w} PROVE wobj'[v] = wobj[v] /\ wtodo'[v] = wtodo[v] /\ Claim(v)' = Claim(v) /\ Subscribes(v)' = Subscribes(v)
    BY <1>5, <2>1 DEF Advances, Alone, Claim, Subscribes
  <2>2. CASE ~Subscribes(w)'
    BY <1>5, <2>1, <2>2 DEF OneEach
  <2>3. CASE Subscribes(w)'
    <3>1. ~Ends(w) /\ wsid[w] = sess
      BY <1>5, <2>3 DEF Advances, Ends, Subscribes, SubscribePcs
    <3>2. CASE wpc[w] = "welcome"
      <4>1. wobj'[w] \notin wtodo'[w]
        BY <1>5, <3>1, <3>2 DEF Advances, SubscribePcs
      <4>2. \A v \in Workers \ {w} : ~Subscribes(v)
        BY <1>5, <3>1, <3>2 DEF OwnIds, Greets, Subscribes
      <4> QED
        BY <2>1, <4>1, <4>2
    <3>3. CASE wpc[w] # "welcome"
      <4>1. /\ wpc[w] \in SubscribePcs /\ Claim(w)' \subseteq Claim(w)
            /\ wobj[w] \notin wtodo[w] => wobj'[w] \notin wtodo'[w]
        BY <1>5, <3>1, <3>3 DEF Advances, Claim
      <4>2. Subscribes(w)
        BY <3>1, <4>1 DEF Subscribes
      <4>3. wobj'[w] \notin wtodo'[w]
        BY <1>5, <4>1, <4>2 DEF OneEach
      <4>4. ASSUME NEW v \in Workers \ {w}, Subscribes(v) PROVE Claim(w)' \cap Claim(v)' = {} /\ Claim(v)' \cap Claim(w)' = {}
        BY <1>5, <2>1, <4>1, <4>2, <4>4 DEF OneEach
      <4> QED
        BY <1>5, <2>1, <4>3, <4>4 DEF OneEach
    <3> QED
      BY <3>2, <3>3
  <2> QED
    BY <2>2, <2>3
<1> QED
  BY <1>1, <1>2, <1>3, <1>4, <1>5, LiveSteps, WorkersAdvance

(* The slots taken of the session's budget, and the topics that its goroutines have reserved. *)
Slots == {p \in (DOMAIN budget) \X (1 .. SubsPerConn) : p[2] <= budget[p[1]]}
Ahead(w, c, t) ==   \* goroutine w has yet to reserve topic t of c
  /\ Subscribes(w)
  /\ \/ Object(c) \in wtodo[w]
     \/ wobj[w] = Object(c) /\ (\/ wpc[w] = "start"
                                \/ wpc[w] = "reserve" /\ wtop[w] <= t
                                \/ wpc[w] \in {"create", "record"} /\ wtop[w] < t)
Booked == {p \in Channels \X DOMAIN Topics : reg[p[1]] # 0 /\ \A w \in Workers : ~Ahead(w, p[1], p[2])}
BudgetBooked == link = "up" /\ sid = sess => Cardinality(Slots) <= Cardinality(Booked)

(* Both sets are finite. *)
LEMMA SlotsFinite ==
  ASSUME TypeSupervisor
  PROVE  IsFiniteSet(Slots) /\ Cardinality(Slots) \in Nat /\ IsFiniteSet((DOMAIN budget) \X (1 .. SubsPerConn))
<1>1. DOMAIN budget = 1 .. Len(budget) /\ Len(budget) \in Nat /\ SubsPerConn \in Nat
  BY EventSubAssumption DEF TypeSupervisor
<1>2. IsFiniteSet(1 .. Len(budget)) /\ IsFiniteSet(1 .. SubsPerConn)
  BY <1>1, FS_Interval
<1>3. IsFiniteSet((DOMAIN budget) \X (1 .. SubsPerConn))
  BY <1>1, <1>2, FS_Product
<1>4. Slots \subseteq (DOMAIN budget) \X (1 .. SubsPerConn)
  BY DEF Slots
<1> QED
  BY <1>3, <1>4, FS_Subset, FS_CardinalityType

LEMMA BookedFinite == IsFiniteSet(Channels \X DOMAIN Topics) /\ IsFiniteSet(Booked) /\ Cardinality(Booked) \in Nat
<1>1. IsFiniteSet(Channels \X DOMAIN Topics)
  BY EventSubAssumption, GensFacts, FS_Product
<1>2. Booked \subseteq Channels \X DOMAIN Topics
  BY DEF Booked
<1> QED
  BY <1>1, <1>2, FS_Subset, FS_CardinalityType

(* add takes one slot, remove only frees. *)
LEMMA AddTakesOne ==
  ASSUME TypeSupervisor, BudgetOk, budget' = BudgetAdd
  PROVE  Cardinality(Slots') <= Cardinality(Slots) + 1
<1>1. budget \in Seq(0 .. SubsPerConn) /\ SubsPerConn \in Nat \ {0}
  BY EventSubAssumption DEF TypeSupervisor
<1>2. \E p : Slots' \subseteq Slots \cup {p}
  <2>1. CASE \E i \in DOMAIN budget : HasRoom(i) /\ BudgetAdd = [budget EXCEPT ![i] = budget[i] + 1]
    <3>1. PICK i \in DOMAIN budget : HasRoom(i) /\ BudgetAdd = [budget EXCEPT ![i] = budget[i] + 1]
      BY <2>1
    <3>2. PICK m \in Nat : m = budget[i] + 1
      BY <1>1
    <3>3. DOMAIN budget' = DOMAIN budget /\ \A j \in DOMAIN budget : budget'[j] = IF j = i THEN m ELSE budget[j]
      BY <1>1, <3>1, <3>2
    <3>4. ASSUME NEW p \in Slots' PROVE p \in Slots \cup {<<i, m>>}
      <4>1. p \in (DOMAIN budget) \X (1 .. SubsPerConn) /\ p[2] <= budget'[p[1]]
        BY <3>3, <3>4 DEF Slots
      <4>2. PICK j \in DOMAIN budget, k \in 1 .. SubsPerConn : p = <<j, k>> /\ k <= budget'[j]
        BY <4>1
      <4>3. CASE j # i
        BY <3>3, <4>1, <4>2, <4>3 DEF Slots
      <4>4. CASE j = i
        <5>1. k <= m /\ budget[i] \in Nat
          BY <1>1, <3>3, <4>2, <4>4
        <5>2. CASE k = m
          BY <4>2, <4>4, <5>2
        <5>3. CASE k # m
          BY <1>1, <3>2, <4>1, <4>2, <4>4, <5>1, <5>3 DEF Slots
        <5> QED
          BY <5>2, <5>3
      <4> QED
        BY <4>3, <4>4
    <3> QED
      BY <3>4
  <2>2. CASE BudgetAdd = Append(budget, 1)
    <3>1. /\ DOMAIN budget' = 1 .. Len(budget) + 1 /\ DOMAIN budget = 1 .. Len(budget) /\ Len(budget) \in Nat
          /\ budget'[Len(budget) + 1] = 1 /\ \A j \in 1 .. Len(budget) : budget'[j] = budget[j]
      BY <1>1, <2>2
    <3>2. ASSUME NEW p \in Slots' PROVE p \in Slots \cup {<<Len(budget) + 1, 1>>}
      <4>1. PICK j \in 1 .. Len(budget) + 1, k \in 1 .. SubsPerConn : p = <<j, k>> /\ k <= budget'[j]
        <5>1. p \in (DOMAIN budget') \X (1 .. SubsPerConn) /\ p[2] <= budget'[p[1]]
          BY <3>2 DEF Slots
        <5> QED
          BY <3>1, <5>1
      <4>2. CASE j = Len(budget) + 1
        <5>1. k = 1
          BY <1>1, <3>1, <4>1, <4>2
        <5> QED
          BY <4>1, <4>2, <5>1
      <4>3. CASE j # Len(budget) + 1
        <5>1. j \in DOMAIN budget /\ k <= budget[j]
          BY <3>1, <4>1, <4>3
        <5> QED
          BY <4>1, <5>1 DEF Slots
      <4> QED
        BY <4>2, <4>3
    <3> QED
      BY <3>2
  <2> QED
    BY <2>1, <2>2, AddFact
<1>3. PICK p : Slots' \subseteq Slots \cup {p}
  BY <1>2
<1>4. IsFiniteSet(Slots) /\ Cardinality(Slots) \in Nat /\ IsFiniteSet(Slots') /\ Cardinality(Slots') \in Nat
  <2>1. IsFiniteSet(Slots) /\ Cardinality(Slots) \in Nat
    BY SlotsFinite
  <2>2. IsFiniteSet(Slots \cup {p}) /\ IsFiniteSet(Slots')
    BY <1>3, <2>1, FS_AddElement, FS_Subset
  <2> QED
    BY <2>1, <2>2, FS_CardinalityType
<1>5. IsFiniteSet(Slots \cup {p}) /\ Cardinality(Slots \cup {p}) \in {Cardinality(Slots), Cardinality(Slots) + 1}
  BY <1>4, FS_AddElement
<1>6. Cardinality(Slots') <= Cardinality(Slots \cup {p})
  BY <1>3, <1>5, FS_Subset
<1> QED
  BY <1>4, <1>5, <1>6

(* remove takes no slot. *)
LEMMA RemoveFrees ==
  ASSUME TypeSupervisor, budget' = BudgetRemove(1)
  PROVE  Cardinality(Slots') <= Cardinality(Slots)
<1>1. budget \in Seq(0 .. SubsPerConn) /\ SubsPerConn \in Nat \ {0}
  BY EventSubAssumption DEF TypeSupervisor
<1>2. /\ budget' \in Seq(0 .. SubsPerConn) /\ Len(budget') = Len(budget)
      /\ \A i \in 1 .. Len(budget) : budget'[i] <= budget[i]
  BY RemoveFact
<1>3. ASSUME NEW p \in Slots' PROVE p \in Slots
  <2>1. PICK j \in 1 .. Len(budget), k \in 1 .. SubsPerConn : p = <<j, k>> /\ k <= budget'[j]
    <3>1. p \in (DOMAIN budget') \X (1 .. SubsPerConn) /\ p[2] <= budget'[p[1]]
      BY <1>3 DEF Slots
    <3>2. DOMAIN budget' = 1 .. Len(budget)
      BY <1>2
    <3> QED
      BY <3>1, <3>2
  <2>2. budget[j] \in Nat /\ budget'[j] \in Nat
    BY <1>1, <1>2, <2>1
  <2>3. k <= budget[j] /\ j \in DOMAIN budget
    BY <1>1, <1>2, <2>1, <2>2
  <2> QED
    BY <2>1, <2>3 DEF Slots
<1> QED
  BY <1>3, SlotsFinite, FS_Subset

(* A goroutine reserves topics and never gives one back for another goroutine to reserve. *)
LEMMA StillAhead ==
  ASSUME WorkersOk, Works, UNCHANGED <<reg, sess>>, NEW w \in Workers,
         Start(w) \/ ReserveStale(w) \/ Reserve(w) \/ CreateOk(w) \/ CreateConflict(w)
           \/ CreateRefused(w) \/ CreateForbidden(w) \/ Record(w) \/ Finish(w) \/ UpCheck(w) \/ UpIrc(w),
         NEW c \in Channels, NEW t \in DOMAIN Topics, Ahead(w, c, t)'
  PROVE  Ahead(w, c, t)
<1>1. t \in {1, 2} /\ Chat = 1
  BY TopicsFacts
<1>2. wpc'[w] \in SubscribePcs /\ wsid'[w] = sess /\ Object(c)' = Object(c)
  BY DEF Ahead, Subscribes, Object
<1>3. \/ Object(c) \in wtodo'[w]
      \/ wobj'[w] = Object(c) /\ (\/ wpc'[w] = "start"
                                  \/ wpc'[w] = "reserve" /\ wtop'[w] <= t
                                  \/ wpc'[w] \in {"create", "record"} /\ wtop'[w] < t)
  BY <1>2 DEF Ahead
<1>4. ASSUME wpc[w] \in SubscribePcs, SubscribeReturns(w) PROVE Ahead(w, c, t)
  <2>1. Returns(w)
    BY <1>4, ReturnFacts
  <2>2. Takes(w, wtodo[w])
    BY <1>2, <2>1 DEF Returns, Ends, SubscribePcs
  <2>3. Object(c) \in wtodo[w] /\ wsid[w] = sess
    BY <1>2, <1>3, <2>2 DEF Takes
  <2> QED
    BY <1>4, <2>3 DEF Ahead, Subscribes
<1>5. ASSUME wpc[w] \in SubscribePcs, NEW step, GoesOn(w, step)
      PROVE  /\ Subscribes(w) /\ wobj'[w] = wobj[w] /\ wpc'[w] = step
             /\ Object(c) \in wtodo'[w] => Ahead(w, c, t)
  BY <1>2, <1>5 DEF GoesOn, Ahead, Subscribes
<1>6. CASE Start(w)
  BY <1>3, <1>5, <1>6, StartFacts DEF Ahead, SubscribePcs
<1>7. CASE ReserveStale(w) \/ UpIrc(w)
  BY <1>4, <1>7 DEF ReserveStale, UpIrc, SubscribePcs
<1>8. CASE Reserve(w)
  <2>1. PICK step \in {"create", "finish"} : Goto(w, step) /\ wpc[w] = "reserve"
    BY <1>8 DEF Reserve
  <2>2. GoesOn(w, step) /\ wtop'[w] = wtop[w] /\ wtop[w] \in {1, 2}
    BY <2>1, GotoFacts, TopicsFacts DEF WorkersOk, Holding, TopicPcs
  <2>3. Subscribes(w) /\ wobj'[w] = wobj[w] /\ wpc'[w] = step /\ (Object(c) \in wtodo'[w] => Ahead(w, c, t))
    BY <1>5, <2>1, <2>2 DEF SubscribePcs
  <2>4. ASSUME wobj[w] = Object(c), wtop[w] < t PROVE Ahead(w, c, t)
    BY <1>1, <2>1, <2>2, <2>3, <2>4 DEF Ahead
  <2> QED
    BY <1>3, <2>1, <2>2, <2>3, <2>4
<1>9. CASE CreateOk(w) \/ CreateConflict(w) \/ CreateRefused(w) \/ CreateForbidden(w)
  <2>1. wpc[w] = "create" /\ \E a : Answer(w, a)
    BY <1>9 DEF CreateOk, CreateConflict, CreateRefused, CreateForbidden
  <2>2. GoesOn(w, "record") /\ wtop'[w] = wtop[w]
    BY <2>1, AnswerFacts
  <2>3. Subscribes(w) /\ wobj'[w] = wobj[w] /\ wpc'[w] = "record" /\ (Object(c) \in wtodo'[w] => Ahead(w, c, t))
    BY <1>5, <2>1, <2>2 DEF SubscribePcs
  <2>4. ASSUME wobj[w] = Object(c), wtop[w] < t PROVE Ahead(w, c, t)
    BY <2>1, <2>3, <2>4 DEF Ahead
  <2> QED
    BY <1>3, <2>2, <2>3, <2>4
<1>10. CASE Record(w)
  <2>1. /\ wpc[w] = "record" /\ wtop[w] \in {1, 2}
        /\ IF wtop[w] = 1 THEN GoesOn(w, "reserve") /\ wtop'[w] = 2 ELSE GoesOn(w, "finish")
    BY <1>10, RecordFacts
  <2>2. PICK step \in {"reserve", "finish"} : GoesOn(w, step) /\ (step = "reserve" => wtop[w] = 1 /\ wtop'[w] = 2)
    BY <2>1
  <2>3. Subscribes(w) /\ wobj'[w] = wobj[w] /\ wpc'[w] = step /\ (Object(c) \in wtodo'[w] => Ahead(w, c, t))
    BY <1>5, <2>1, <2>2 DEF SubscribePcs
  <2>4. ASSUME wobj[w] = Object(c), step = "reserve", wtop'[w] <= t PROVE Ahead(w, c, t)
    BY <1>1, <2>1, <2>2, <2>3, <2>4 DEF Ahead
  <2> QED
    BY <1>3, <2>2, <2>3, <2>4
<1>11. CASE Finish(w) \/ UpCheck(w)
  <2>1. wpc[w] \in {"finish", "upcheck"} /\ (SubscribeReturns(w) \/ \E step \in {"upcheck", "upirc"} : Goto(w, step))
    BY <1>11 DEF Finish, UpCheck
  <2>2. ASSUME NEW step \in {"upcheck", "upirc"}, Goto(w, step) PROVE Ahead(w, c, t)
    BY <1>3, <1>5, <2>1, <2>2, GotoFacts DEF SubscribePcs
  <2> QED
    BY <1>4, <2>1, <2>2 DEF SubscribePcs
<1> QED
  BY <1>6, <1>7, <1>8, <1>9, <1>10, <1>11

(* Hence what is booked on a session stays booked. *)
LEMMA StillBooked ==
  ASSUME WorkersOk, Works, UNCHANGED <<reg, sess>>, NEW w \in Workers,
         Start(w) \/ ReserveStale(w) \/ Reserve(w) \/ CreateOk(w) \/ CreateConflict(w)
           \/ CreateRefused(w) \/ CreateForbidden(w) \/ Record(w) \/ Finish(w) \/ UpCheck(w) \/ UpIrc(w)
  PROVE  Booked \subseteq Booked'
<1>1. Alone(w)
  BY WorkersAdvance DEF Advances
<1>2. ASSUME NEW p \in Booked PROVE p \in Booked'
  <2>1. PICK c \in Channels, t \in DOMAIN Topics : p = <<c, t>> /\ reg[c] # 0 /\ \A v \in Workers : ~Ahead(v, c, t)
    BY <1>2 DEF Booked
  <2>2. ASSUME NEW v \in Workers, Ahead(v, c, t)' PROVE FALSE
    <3>1. v # w
      BY <2>1, <2>2, StillAhead
    <3>2. Ahead(v, c, t)
      BY <1>1, <2>2, <3>1 DEF Alone, Ahead, Subscribes, Object
    <3> QED
      BY <2>1, <3>2
  <2>3. p \in Channels \X DOMAIN Topics /\ p[1] = c /\ p[2] = t
    BY <2>1
  <2>4. \A v \in Workers : ~Ahead(v, c, t)'
    BY <2>2
  <2> QED
    BY <2>1, <2>3, <2>4 DEF Booked
<1> QED
  BY <1>2

(* A topic that is being reserved is booked from now on, and by this goroutine only. *)
LEMMA ReserveBooks ==
  ASSUME EsTyped, Works, OneEach, link = "up", UNCHANGED <<reg, sess>>, NEW w \in Workers,
         Reserve(w), wsid[w] = sess, BudgetOk
  PROVE  \E p : p \notin Booked /\ Booked \cup {p} \subseteq Booked'
<1>1. WorkersOk
  BY DEF EsTyped, TypeOK, WorkersOk
<1>2. /\ wpc[w] = "reserve" /\ Subscribes(w) /\ Alone(w) /\ GoesOn(w, "create") /\ wtop'[w] = wtop[w] /\ wtop[w] \in {1, 2}
  BY <1>1, GotoFacts, TopicsFacts DEF Reserve, Subscribes, SubscribePcs, WorkersOk, Holding, TopicPcs
<1>3. PICK c \in Channels : c = wobj[w][1] /\ reg[c] # 0 /\ wobj[w] = Object(c)
  BY <1>2, RegistrantFact DEF SubscribePcs
<1>4. PICK t \in DOMAIN Topics : t = wtop[w] /\ t \in {1, 2}
  BY <1>2, TopicsFacts
<1>5. <<c, t>> \notin Booked
  <2>1. Ahead(w, c, t)
    BY <1>2, <1>3, <1>4 DEF Ahead
  <2> QED
    BY <2>1 DEF Booked
<1>6. ASSUME NEW v \in Workers, Ahead(v, c, t)' PROVE FALSE
  <2>1. Object(c)' = Object(c)
    BY DEF Object
  <2>2. CASE v = w
    <3>1. wpc'[w] = "create" /\ wobj'[w] = wobj[w] /\ wtodo'[w] = wtodo[w] /\ wtop'[w] = t
      BY <1>2, <1>4 DEF GoesOn
    <3>2. Object(c) \in wtodo[w]
      BY <1>4, <1>6, <2>1, <2>2, <3>1 DEF Ahead
    <3> QED
      BY <1>2, <1>3, <3>2 DEF OneEach
  <2>3. CASE v # w
    <3>1. wobj'[v] = wobj[v] /\ wtodo'[v] = wtodo[v] /\ wpc'[v] = wpc[v] /\ wsid'[v] = wsid[v]
      BY <1>2, <2>3 DEF Alone
    <3>2. Subscribes(v) /\ Object(c) \in Claim(v)
      BY <1>6, <2>1, <3>1 DEF Ahead, Subscribes, Claim
    <3>3. Object(c) \in Claim(w)
      BY <1>3 DEF Claim
    <3> QED
      BY <1>2, <2>3, <3>2, <3>3 DEF OneEach
  <2> QED
    BY <2>2, <2>3
<1>7. <<c, t>> \in Booked'
  <2>1. \A v \in Workers : ~Ahead(v, c, t)'
    BY <1>6
  <2>2. <<c, t>> \in Channels \X DOMAIN Topics /\ <<c, t>>[1] = c /\ <<c, t>>[2] = t
    OBVIOUS
  <2> QED
    BY <1>3, <2>1, <2>2 DEF Booked
<1> QED
  BY <1>1, <1>5, <1>7, StillBooked

(* No slot of the budget is taken twice: onWelcome resets it, and each add books a topic. *)
LEMMA BudgetBookedKept ==
  ASSUME EsTyped, Calm, Works, OwnIds, OneEach, BudgetBooked, [Next]_vars, Calm', moves = 0, moves' = 0
  PROVE  BudgetBooked'
<1> SUFFICES ASSUME link' = "up", sid' = sess' PROVE Cardinality(Slots') <= Cardinality(Booked')
  BY DEF BudgetBooked
<1>1. WorkersOk /\ TypeSupervisor /\ Cardinality(Slots) \in Nat /\ Cardinality(Booked) \in Nat
  BY SlotsFinite, BookedFinite DEF EsTyped, TypeOK, WorkersOk
<1>2. EsTyped' /\ OwnIds'
  BY EsTypedNext, OwnIdsKept
<1>3. IsFiniteSet(Slots') /\ Cardinality(Slots') \in Nat /\ IsFiniteSet(Booked') /\ Cardinality(Booked') \in Nat
  <2>1. TypeSupervisor'
    BY <1>2 DEF EsTyped, TypeOK
  <2>2. TypeSupervisor' => (IsFiniteSet(Slots) /\ Cardinality(Slots) \in Nat)'
    BY SlotsFinite, PTL
  <2>3. (IsFiniteSet(Booked) /\ Cardinality(Booked) \in Nat)'
    BY BookedFinite, PTL
  <2> QED
    BY <2>1, <2>2, <2>3
<1>4. ASSUME Booked \subseteq Booked', Cardinality(Slots') <= Cardinality(Slots), link = "up", sid = sess
      PROVE  Cardinality(Slots') <= Cardinality(Booked')
  <2>1. Cardinality(Booked) <= Cardinality(Booked')
    BY <1>3, <1>4, FS_Subset
  <2> QED
    BY <1>1, <1>3, <1>4, <2>1 DEF BudgetBooked
<1>5. CASE link = "new" /\ \E w \in Workers : Alone(w) /\ Begins(w, "welcome", NoObj, sess) /\ UNCHANGED <<sess, sid>>
  BY <1>5 DEF OwnIds
<1>6. CASE link = "up" /\ UNCHANGED <<sess, reg, sid, budget, tsub, workVars>>
  <2>1. Booked' = Booked /\ Slots' = Slots
    BY <1>6 DEF Booked, Ahead, Subscribes, Object, Slots, workVars
  <2> QED
    BY <1>1, <1>4, <1>6, <2>1
<1>7. ASSUME link = "up", UNCHANGED <<sess, tsub>>, NEW c \in Channels, Register(c) PROVE Cardinality(Slots') <= Cardinality(Booked')
  <2>1. UNCHANGED <<sid, budget>>
    BY <1>1, <1>7, RegisterFacts
  <2>2. Slots' = Slots
    BY <2>1 DEF Slots
  <2>3. CASE UNCHANGED <<reg, workVars>>
    BY <1>6, <1>7, <2>1, <2>3
  <2>4. ASSUME NEW g, g # 0, reg[c] = 0, reg' = [reg EXCEPT ![c] = g],
               UNCHANGED workVars \/ \E w \in Workers : Alone(w) /\ Begins(w, "start", <<c, g>>, sid)
        PROVE  Booked \subseteq Booked'
    <3>1. ASSUME NEW p \in Booked PROVE p \in Booked'
      <4>1. PICK d \in Channels, t \in DOMAIN Topics : p = <<d, t>> /\ reg[d] # 0 /\ \A v \in Workers : ~Ahead(v, d, t)
        BY <3>1 DEF Booked
      <4>2. d # c /\ reg'[d] = reg[d] /\ Object(d)' = Object(d) /\ Object(d) # <<c, g>>
        BY <1>1, <2>4, <4>1 DEF TypeSupervisor, Object
      <4>3. ASSUME NEW v \in Workers, Ahead(v, d, t)' PROVE FALSE
        <5>1. CASE UNCHANGED workVars
          BY <1>7, <4>1, <4>2, <4>3, <5>1 DEF Ahead, Subscribes, workVars
        <5>2. ASSUME NEW w \in Workers, Alone(w), Begins(w, "start", <<c, g>>, sid) PROVE FALSE
          <6>1. v # w
            BY <4>2, <4>3, <5>2 DEF Ahead, Begins
          <6>2. Ahead(v, d, t)
            BY <1>7, <4>2, <4>3, <5>2, <6>1 DEF Ahead, Subscribes, Alone
          <6> QED
            BY <4>1, <6>2
        <5> QED
          BY <2>4, <5>1, <5>2
      <4>4. p \in Channels \X DOMAIN Topics /\ p[1] = d /\ p[2] = t
        BY <4>1
      <4>5. \A v \in Workers : ~Ahead(v, d, t)'
        BY <4>3
      <4> QED
        BY <4>1, <4>2, <4>4, <4>5 DEF Booked
    <3> QED
      BY <3>1
  <2>5. UNCHANGED <<reg, workVars>> \/ Booked \subseteq Booked'
    <3>1. PICK g : g = gen[c] + 1
      OBVIOUS
    <3> QED
      BY <1>1, <1>7, <2>4, <3>1, RegisterFacts
  <2> QED
    BY <1>1, <1>4, <1>7, <2>1, <2>2, <2>3, <2>5
<1>8. ASSUME link = "up", UNCHANGED <<sess, reg>>, NEW w \in Workers, OnWelcome(w) PROVE Cardinality(Slots') <= Cardinality(Booked')
  <2>1. budget' = << >>
    BY <1>1, <1>8, WelcomeFacts DEF OwnIds
  <2>2. Slots' = {}
    BY <2>1 DEF Slots
  <2> QED
    BY <1>3, <2>2, FS_EmptySet
<1>9. ASSUME link = "up", UNCHANGED <<sess, reg>>, NEW w \in Workers, Reserve(w) PROVE Cardinality(Slots') <= Cardinality(Booked')
  <2>1. UNCHANGED sid /\ wsid[w] = sess
    BY <1>9 DEF Reserve
  <2>2. CASE BudgetOk
    <3>1. Cardinality(Slots') <= Cardinality(Slots) + 1
      BY <1>1, <1>9, <2>2, AddTakesOne DEF Reserve
    <3>2. PICK p : p \notin Booked /\ Booked \cup {p} \subseteq Booked'
      BY <1>9, <2>1, <2>2, ReserveBooks
    <3>3. Cardinality(Booked \cup {p}) = Cardinality(Booked) + 1
      BY <3>2, BookedFinite, FS_AddElement
    <3>4. Cardinality(Booked) + 1 <= Cardinality(Booked')
      BY <1>3, <3>2, <3>3, FS_Subset
    <3> QED
      BY <1>1, <1>3, <1>9, <2>1, <3>1, <3>4 DEF BudgetBooked
  <2>3. CASE ~BudgetOk
    <3>1. Slots' = Slots
      BY <1>9, <2>3 DEF Reserve, Slots
    <3> QED
      BY <1>1, <1>4, <1>9, <2>1, <3>1, StillBooked
  <2> QED
    BY <2>2, <2>3
<1>10. ASSUME link = "up", UNCHANGED <<sess, reg>>, NEW w \in Workers,
              Start(w) \/ ReserveStale(w) \/ CreateOk(w) \/ CreateConflict(w)
                \/ CreateRefused(w) \/ CreateForbidden(w) \/ Record(w) \/ Finish(w) \/ UpCheck(w) \/ UpIrc(w)
       PROVE  Cardinality(Slots') <= Cardinality(Booked')
  <2>1. UNCHANGED sid /\ (budget' = budget \/ budget' = BudgetRemove(1))
    BY <1>10 DEF Start, ReserveStale, CreateOk, CreateConflict, CreateRefused, CreateForbidden, Record, Finish, UpCheck, UpIrc, objVars
  <2>2. budget' = budget => Slots' = Slots
    BY DEF Slots
  <2>3. Cardinality(Slots') <= Cardinality(Slots)
    BY <1>1, <2>1, <2>2, RemoveFrees
  <2> QED
    BY <1>1, <1>4, <1>10, <2>1, <2>3, StillBooked
<1> QED
  BY <1>5, <1>6, <1>7, <1>8, <1>9, <1>10, LiveSteps

(* The budget has a slot for both topics of every channel. *)
Capacity == Cardinality(Channels) * 2 <= ConnsPerUser * SubsPerConn

(* Then a topic that is not booked yet finds a slot. *)
LEMMA RoomForChat ==
  ASSUME Capacity, TypeSupervisor, NEW c \in Channels, NEW t \in DOMAIN Topics, <<c, t>> \notin Booked,
         Cardinality(Slots) <= Cardinality(Booked)
  PROVE  BudgetOk
<1> SUFFICES ASSUME ~BudgetOk PROVE FALSE
  OBVIOUS
<1>1. budget \in Seq(0 .. SubsPerConn) /\ Len(budget) <= ConnsPerUser /\ SubsPerConn \in Nat \ {0} /\ ConnsPerUser \in Nat \ {0}
  BY EventSubAssumption DEF TypeSupervisor
<1>2. Len(budget) = ConnsPerUser /\ DOMAIN budget = 1 .. ConnsPerUser /\ \A i \in 1 .. ConnsPerUser : budget[i] = SubsPerConn
  <2>1. Len(budget) = ConnsPerUser /\ DOMAIN budget = 1 .. ConnsPerUser
    BY <1>1 DEF BudgetOk
  <2> QED
    BY <1>1, <2>1 DEF BudgetOk, HasRoom
<1>3. Slots = (1 .. ConnsPerUser) \X (1 .. SubsPerConn)
  <2>1. ASSUME NEW p \in (1 .. ConnsPerUser) \X (1 .. SubsPerConn) PROVE p[2] <= budget[p[1]]
    <3>1. p[1] \in 1 .. ConnsPerUser /\ p[2] \in 1 .. SubsPerConn
      OBVIOUS
    <3> QED
      BY <1>1, <1>2, <3>1
  <2> QED
    BY <1>2, <2>1 DEF Slots
<1>4. Cardinality(Slots) = ConnsPerUser * SubsPerConn
  <2>1. /\ IsFiniteSet(1 .. ConnsPerUser) /\ Cardinality(1 .. ConnsPerUser) = ConnsPerUser
        /\ IsFiniteSet(1 .. SubsPerConn) /\ Cardinality(1 .. SubsPerConn) = SubsPerConn
    BY <1>1, FS_Interval
  <2>2. PICK A : A = 1 .. ConnsPerUser
    OBVIOUS
  <2>3. PICK B : B = 1 .. SubsPerConn
    OBVIOUS
  <2>4. Cardinality(A \X B) = Cardinality(A) * Cardinality(B)
    BY <2>1, <2>2, <2>3, FS_Product
  <2> QED
    BY <1>3, <2>1, <2>2, <2>3, <2>4
<1>5. Cardinality(Channels \X DOMAIN Topics) = Cardinality(Channels) * 2
  <2>1. IsFiniteSet({1}) /\ Cardinality({1}) = 1
    BY FS_Singleton
  <2>2. IsFiniteSet({1} \cup {2}) /\ Cardinality({1} \cup {2}) = 2
    <3>1. PICK S : S = {1}
      OBVIOUS
    <3>2. PICK x : x = 2
      OBVIOUS
    <3>3. x \notin S
      BY <3>1, <3>2
    <3>4. IsFiniteSet(S) /\ Cardinality(S) = 1
      BY <2>1, <3>1
    <3>5. IsFiniteSet(S \cup {x}) /\ Cardinality(S \cup {x}) = 2
      BY <3>3, <3>4, FS_AddElement
    <3> QED
      BY <3>1, <3>2, <3>5
  <2>3. DOMAIN Topics = {1} \cup {2}
    BY TopicsFacts
  <2>4. IsFiniteSet(DOMAIN Topics) /\ Cardinality(DOMAIN Topics) = 2
    BY <2>2, <2>3
  <2>5. Cardinality(Channels \X DOMAIN Topics) = Cardinality(Channels) * Cardinality(DOMAIN Topics)
    BY <2>4, EventSubAssumption, FS_Product
  <2> QED
    BY <2>4, <2>5
<1>6. Cardinality(Booked) + 1 <= Cardinality(Channels \X DOMAIN Topics)
  <2>1. Booked \cup {<<c, t>>} \subseteq Channels \X DOMAIN Topics
    BY DEF Booked
  <2>2. Cardinality(Booked \cup {<<c, t>>}) = Cardinality(Booked) + 1
    BY BookedFinite, FS_AddElement
  <2> QED
    BY <2>1, <2>2, BookedFinite, FS_Subset
<1>7. Cardinality(Booked) \in Nat /\ Cardinality(Channels) \in Nat
  BY BookedFinite, EventSubAssumption, FS_CardinalityType
<1>8. PICK m : m = ConnsPerUser * SubsPerConn
  OBVIOUS
<1>9. m \in Nat
  BY <1>1, <1>8
<1>10. Cardinality(Channels) * 2 <= m /\ m <= Cardinality(Booked) /\ Cardinality(Booked) + 1 <= Cardinality(Channels) * 2
  BY <1>4, <1>5, <1>6, <1>8 DEF Capacity
<1> QED
  BY <1>7, <1>9, <1>10

(* The chat of a registered channel is subscribed on the session, or a goroutine of this session
   has yet to subscribe it, unless the onWelcome of an older session came last and took its place. *)
Handles(w, c) ==
  /\ Subscribes(w)
  /\ \/ Object(c) \in wtodo[w]
     \/ wobj[w] = Object(c) /\ (wpc[w] = "start" \/ (wpc[w] \in {"reserve", "create"} /\ wtop[w] = Chat))
Overtaken == sid # sess /\ \A w \in Workers : ~Greets(w)
Served(c) == Subscribed(c) \/ Overtaken \/ \E w \in Workers : Greets(w) \/ Handles(w, c)
SubscribesAll == link = "up" => \A c \in Channels : reg[c] # 0 => Served(c)

(* The goroutine that has the channel subscribes it, or goes on. *)
LEMMA HandlerServes ==
  ASSUME Capacity, EsTyped, Calm, Works, OwnIds, OneEach, BudgetBooked, ~Cancelled, link = "up", UNCHANGED <<reg, sess, link>>,
         NEW w \in Workers,
         Start(w) \/ ReserveStale(w) \/ Reserve(w) \/ CreateOk(w) \/ CreateConflict(w)
           \/ CreateRefused(w) \/ CreateForbidden(w) \/ Record(w) \/ Finish(w) \/ UpCheck(w) \/ UpIrc(w),
         NEW c \in Channels, Handles(w, c)
  PROVE  Subscribed(c)' \/ Handles(w, c)' \/ ReserveStale(w)
<1>1. WorkersOk /\ TypeSupervisor /\ TypeTwitch /\ Chat = 1 /\ Chat \in DOMAIN Topics
  BY TopicsFacts DEF EsTyped, TypeOK, WorkersOk
<1>2. wpc[w] \in SubscribePcs /\ wsid[w] = sess /\ Object(c)' = Object(c) /\ Object(c)[1] = c
  BY DEF Handles, Subscribes, Object
<1>3. ASSUME SubscribeReturns(w), Object(c) \in wtodo[w] PROVE Handles(w, c)'
  <2>1. Takes(w, wtodo[w])
    BY <1>1, <1>3, ReturnFacts DEF Returns
  <2> QED
    BY <1>2, <1>3, <2>1 DEF Takes, Handles, Subscribes, SubscribePcs
<1>4. ASSUME NEW step \in SubscribePcs, GoesOn(w, step),
             Object(c) \in wtodo[w] \/ (step \in {"reserve", "create"} /\ wtop'[w] = Chat /\ wobj[w] = Object(c))
      PROVE  Handles(w, c)'
  BY <1>2, <1>4 DEF GoesOn, Handles, Subscribes
<1>5. CASE Start(w)
  <2>1. GoesOn(w, "reserve") /\ wtop'[w] = Chat /\ wpc[w] = "start"
    BY <1>1, <1>5, StartFacts
  <2> QED
    BY <1>4, <2>1 DEF Handles, SubscribePcs
<1>6. CASE Reserve(w)
  <2>1. wpc[w] = "reserve" /\ sid = sess
    BY <1>2, <1>6 DEF Reserve
  <2>2. ASSUME Object(c) \notin wtodo[w] PROVE BudgetOk /\ wobj[w] = Object(c) /\ wtop[w] = Chat
    <3>1. wobj[w] = Object(c) /\ wtop[w] = Chat
      BY <2>1, <2>2 DEF Handles
    <3>2. Ahead(w, c, Chat)
      BY <1>1, <2>1, <3>1 DEF Ahead, Handles
    <3>3. <<c, Chat>> \notin Booked
      BY <3>2 DEF Booked
    <3>4. Cardinality(Slots) <= Cardinality(Booked)
      BY <2>1 DEF BudgetBooked
    <3> QED
      BY <1>1, <3>1, <3>3, <3>4, RoomForChat
  <2>3. PICK step \in {"create", "finish"} : Goto(w, step) /\ (BudgetOk => step = "create")
    BY <1>6 DEF Reserve
  <2>4. GoesOn(w, step) /\ wtop'[w] = wtop[w]
    BY <1>1, <2>3, GotoFacts
  <2> QED
    BY <1>4, <2>2, <2>3, <2>4 DEF SubscribePcs
<1>7. CASE CreateOk(w) \/ CreateConflict(w) \/ CreateRefused(w) \/ CreateForbidden(w)
  <2>1. wpc[w] = "create" /\ \E a : Answer(w, a)
    BY <1>7 DEF CreateOk, CreateConflict, CreateRefused, CreateForbidden
  <2>2. GoesOn(w, "record")
    BY <1>1, <2>1, AnswerFacts
  <2>3. CASE Object(c) \in wtodo[w]
    BY <1>4, <2>2, <2>3 DEF SubscribePcs
  <2>4. CASE Object(c) \notin wtodo[w]
    <3>1. wobj[w] = Object(c) /\ wobj[w][1] = c /\ wtop[w] = Chat
      BY <1>2, <2>1, <2>4 DEF Handles
    <3>2. ~CreateRefused(w) /\ ~CreateForbidden(w)
      BY <1>2, <3>1 DEF CreateRefused, CreateForbidden, SessionKnown
    <3>3. CreateOk(w) => Subscribed(c)'
      BY <1>1, <3>1, AnsweredFacts DEF Subscribed
    <3>4. CreateConflict(w) => Subscribed(c)'
      BY <3>1 DEF CreateConflict, Enabled, Subscribed, twitchVars
    <3> QED
      BY <1>7, <3>2, <3>3, <3>4
  <2> QED
    BY <2>3, <2>4
<1>8. CASE Record(w)
  <2>1. wpc[w] = "record" /\ (GoesOn(w, "reserve") \/ GoesOn(w, "finish"))
    BY <1>1, <1>8, RecordFacts
  <2> QED
    BY <1>4, <2>1 DEF Handles, SubscribePcs
<1>9. CASE Finish(w) \/ UpCheck(w) \/ UpIrc(w)
  <2>1. wpc[w] \in {"finish", "upcheck", "upirc"} /\ (SubscribeReturns(w) \/ \E step \in {"upcheck", "upirc"} : Goto(w, step))
    BY <1>9 DEF Finish, UpCheck, UpIrc
  <2>2. Object(c) \in wtodo[w]
    BY <2>1 DEF Handles
  <2>3. ASSUME NEW step \in {"upcheck", "upirc"}, Goto(w, step) PROVE Handles(w, c)'
    BY <1>1, <1>4, <2>2, <2>3, GotoFacts DEF SubscribePcs
  <2> QED
    BY <1>3, <2>1, <2>2, <2>3
<1> QED
  BY <1>5, <1>6, <1>7, <1>8, <1>9

(* Every registered channel is subscribed on the live session, or somebody is about to subscribe it. *)
LEMMA SubscribesAllKept ==
  ASSUME Capacity, EsTyped, Calm, Works, OwnIds, OneEach, BudgetBooked, SubscribesAll, [Next]_vars, Calm', moves = 0, moves' = 0
  PROVE  SubscribesAll'
<1> SUFFICES ASSUME link' = "up", NEW c \in Channels, reg'[c] # 0 PROVE Served(c)'
  BY DEF SubscribesAll
<1>1. WorkersOk /\ TypeSupervisor /\ TypeTwitch /\ ~Cancelled /\ Chat \in DOMAIN Topics
  BY CalmSteps, TopicsFacts DEF EsTyped, TypeOK, WorkersOk
<1>2. CASE \E w \in Workers : Alone(w) /\ Begins(w, "welcome", NoObj, sess) /\ UNCHANGED sess
  BY <1>2 DEF Begins, Served, Greets
<1>3. CASE link = "up" /\ UNCHANGED <<sess, reg, sid, budget, tsub, workVars>>
  BY <1>3 DEF SubscribesAll, Served, Subscribed, Overtaken, Greets, Handles, Subscribes, Object, workVars
<1>4. ASSUME link = "up", UNCHANGED <<sess, tsub>>, NEW d \in Channels, Register(d) PROVE Served(c)'
  <2>1. UNCHANGED <<sid, budget>>
    BY <1>1, <1>4, RegisterFacts
  <2>2. CASE UNCHANGED <<reg, workVars>>
    BY <1>3, <1>4, <2>1, <2>2
  <2>3. ASSUME NEW g, reg[d] = 0, reg' = [reg EXCEPT ![d] = g],
               \/ sid = 0 /\ UNCHANGED workVars
               \/ \E w \in Workers : Alone(w) /\ Begins(w, "start", <<d, g>>, sid)
        PROVE  Served(c)'
    <3>1. ASSUME NEW v \in Workers, wpc[v] # "free" PROVE wpc'[v] = wpc[v] /\ wobj'[v] = wobj[v] /\ wsid'[v] = wsid[v] /\ wtop'[v] = wtop[v] /\ wtodo'[v] = wtodo[v]
      BY <2>3, <3>1 DEF workVars, Alone, Begins
    <3>2. ASSUME NEW v \in Workers, Greets(v) PROVE Greets(v)'
      BY <1>4, <3>1, <3>2 DEF Greets
    <3>3. ASSUME NEW v \in Workers, Greets(v)' PROVE Greets(v)
      BY <1>4, <2>3, <3>3 DEF Greets, workVars, Alone, Begins
    <3>4. sid # sess => Overtaken' \/ \E v \in Workers : Greets(v)'
      BY <1>4, <2>1, <3>3 DEF Overtaken
    <3>5. CASE c # d
      <4>1. reg'[c] = reg[c] /\ Object(c)' = Object(c)
        BY <1>1, <2>3, <3>5 DEF TypeSupervisor, Object
      <4>2. ASSUME NEW v \in Workers, Handles(v, c) PROVE Handles(v, c)'
        BY <1>4, <3>1, <4>1, <4>2 DEF Handles, Subscribes, SubscribePcs
      <4>3. Served(c)
        BY <1>4, <4>1 DEF SubscribesAll
      <4> QED
        BY <1>4, <2>1, <3>2, <3>4, <4>2, <4>3 DEF Served, Subscribed, Overtaken
    <3>6. CASE c = d /\ sid = sess
      <4>1. sess # 0
        BY <1>4 DEF OwnIds
      <4>2. PICK w \in Workers : Alone(w) /\ Begins(w, "start", <<d, g>>, sid)
        BY <2>3, <3>6, <4>1
      <4>3. Object(c)' = <<c, g>>
        BY <1>1, <2>3, <3>6 DEF TypeSupervisor, Object
      <4>4. Handles(w, c)'
        BY <1>4, <3>6, <4>2, <4>3 DEF Begins, Handles, Subscribes, SubscribePcs
      <4> QED
        BY <4>4 DEF Served
    <3>7. CASE sid # sess
      BY <3>4, <3>7 DEF Served
    <3> QED
      BY <3>5, <3>6, <3>7
  <2> QED
    <3>1. PICK g : g = gen[d] + 1
      OBVIOUS
    <3> QED
      BY <1>1, <1>4, <2>2, <2>3, <3>1, RegisterFacts
<1>5. ASSUME link = "up", UNCHANGED <<sess, reg, link>>, NEW w \in Workers, Advances(w), Served(c),
             Subscribed(c) => Subscribed(c)',
             sid' = sid \/ (sid' = wsid[w] /\ wpc[w] = "welcome"),
             Greets(w) \/ Handles(w, c) => Served(c)'
      PROVE  Served(c)'
  <2>1. ASSUME NEW v \in Workers \ {w} PROVE Greets(v)' = Greets(v) /\ Handles(v, c)' = Handles(v, c)
    BY <1>5, <2>1 DEF Advances, Alone, Greets, Handles, Subscribes, Object
  <2>2. ~Greets(w)'
    BY <1>5 DEF Advances, Ends, Greets, SubscribePcs
  <2>3. Overtaken => Overtaken'
    BY <1>5, <2>1, <2>2 DEF Overtaken, Greets
  <2> QED
    BY <1>5, <2>1, <2>3 DEF Served
<1>6. ASSUME link = "up", UNCHANGED <<sess, reg>>, NEW w \in Workers, OnWelcome(w) PROVE Served(c)'
  <2>1. Served(c) /\ UNCHANGED tsub /\ Advances(w) /\ UNCHANGED link
    BY <1>1, <1>6, WorkersAdvance DEF SubscribesAll, OnWelcome, twitchVars
  <2>2. ASSUME Greets(w) PROVE Served(c)'
    <3>1. Object(c) \in Registrants
      BY <1>6 DEF Registrants
    <3>2. Takes(w, Registrants)
      BY <1>1, <1>6, <2>2, <3>1, WelcomeFacts DEF Greets
    <3>3. Handles(w, c)'
      BY <1>6, <2>2, <3>1, <3>2 DEF Takes, Handles, Subscribes, Greets, SubscribePcs, Object
    <3> QED
      BY <3>3 DEF Served
  <2>3. ~Handles(w, c)
    BY <1>6 DEF OnWelcome, Handles, Subscribes, SubscribePcs
  <2>4. sid' = wsid[w] /\ wpc[w] = "welcome"
    BY <1>6 DEF OnWelcome, OwnIds
  <2> QED
    BY <1>5, <1>6, <2>1, <2>2, <2>3, <2>4 DEF Subscribed
<1>7. ASSUME link = "up", UNCHANGED <<sess, reg>>, NEW w \in Workers,
             Start(w) \/ ReserveStale(w) \/ Reserve(w) \/ CreateOk(w) \/ CreateConflict(w)
               \/ CreateRefused(w) \/ CreateForbidden(w) \/ Record(w) \/ Finish(w) \/ UpCheck(w) \/ UpIrc(w)
      PROVE  Served(c)'
  <2>1. Served(c) /\ Advances(w) /\ UNCHANGED <<link, sid>>
    <3>1. UNCHANGED sid
      BY <1>7 DEF Start, ReserveStale, Reserve, CreateOk, CreateConflict, CreateRefused, CreateForbidden, Record, Finish, UpCheck, UpIrc, objVars
    <3> QED
      BY <1>1, <1>7, <3>1, WorkersAdvance DEF SubscribesAll
  <2>2. Subscribed(c) => Subscribed(c)'
    <3>1. CASE CreateOk(w)
      BY <1>1, <3>1, AnsweredFacts DEF Subscribed
    <3>2. CASE ~CreateOk(w)
      BY <1>7, <3>2 DEF Start, ReserveStale, Reserve, CreateConflict, CreateRefused, CreateForbidden, Record, Finish, UpCheck, UpIrc,
         Subscribed, twitchVars
    <3> QED
      BY <3>1, <3>2
  <2>3. wpc[w] # "welcome"
    BY <1>7 DEF Start, ReserveStale, Reserve, CreateOk, CreateConflict, CreateRefused, CreateForbidden, Record, Finish, UpCheck, UpIrc
  <2>4. ASSUME Handles(w, c), ReserveStale(w) PROVE Served(c)'
    <3>1. sid' # sess /\ UNCHANGED sess
      BY <1>7, <2>1, <2>4 DEF ReserveStale, Handles, Subscribes
    <3> QED
      BY <3>1 DEF Served, Overtaken
  <2>5. Handles(w, c) => Served(c)'
    BY <1>1, <1>7, <2>1, <2>4, HandlerServes DEF Served
  <2> QED
    BY <1>5, <1>7, <2>1, <2>2, <2>3, <2>5 DEF Greets
<1> QED
  BY <1>2, <1>3, <1>4, <1>6, <1>7, LiveSteps

-----------------------------------------------------------------------------
(* The invariant, and what it says of a settled session.                      *)

EsInv ==
  /\ EsTyped
  /\ Calm => Works /\ Listens
  /\ Calm /\ losses = 0 => MovedOnly
  /\ Calm /\ moves = 0 => OwnIds /\ OneEach /\ BudgetBooked /\ SubscribesAll

(* It holds before the sign-in, every step keeps it, and so it always holds. *)
LEMMA EsInvInit == Init => EsInv
<1> SUFFICES ASSUME Init PROVE EsInv
  OBVIOUS
<1>1. EsTyped
  BY EsTypedInit
<1>2. \A w \in Workers : wpc[w] = "free" /\ wsid[w] = 0 /\ wtodo[w] = {}
  BY DEF Init
<1>3. Works /\ Listens
  BY <1>2 DEF Works, SubscribePcs, Listens, Init
<1>4. MovedOnly
  BY <1>2 DEF MovedOnly, Dialled, Backed, SubscribePcs, OnIrc, Init
<1>5. OwnIds
  BY <1>2 DEF OwnIds, Init
<1>6. link = "dead"
  BY DEF Init
<1> QED
  BY <1>1, <1>3, <1>4, <1>5, <1>6 DEF EsInv, OneEach, BudgetBooked, SubscribesAll

LEMMA EsInvNext == ASSUME Capacity, EsInv, [Next]_vars PROVE EsInv'
<1>1. EsTyped /\ EsTyped'
  BY EsTypedNext DEF EsInv
<1>2. Counts /\ Counts' /\ Grown
  BY <1>1, CountsKept DEF EsTyped
<1>3. (losses' = 0 => losses = 0) /\ (moves' = 0 => moves = 0)
  BY <1>2 DEF Counts, Bounds, Grown
<1>4. ASSUME Calm' PROVE Calm /\ Works' /\ Listens' /\ Works /\ Listens
  <2>1. Calm /\ Works /\ Listens
    BY <1>1, <1>4, CalmWas DEF EsInv
  <2> QED
    BY <1>1, <1>4, <2>1, WorksKept, ListensKept
<1>5. ASSUME Calm', losses' = 0 PROVE MovedOnly'
  <2>1. Calm /\ Works /\ losses = 0 /\ MovedOnly
    BY <1>3, <1>4, <1>5 DEF EsInv
  <2> QED
    BY <1>1, <1>5, <2>1, MovedKept
<1>6. ASSUME Calm', moves' = 0 PROVE OwnIds' /\ OneEach' /\ BudgetBooked' /\ SubscribesAll'
  <2>1. Calm /\ Works /\ moves = 0 /\ OwnIds /\ OneEach /\ BudgetBooked /\ SubscribesAll
    BY <1>3, <1>4, <1>6 DEF EsInv
  <2> QED
    BY <1>1, <1>6, <2>1, OwnIdsKept, OneEachKept, BudgetBookedKept, SubscribesAllKept
<1> QED
  BY <1>1, <1>4, <1>5, <1>6 DEF EsInv

LEMMA EsInvAlways == ASSUME Capacity PROVE Spec => []EsInv
<1>1. EsInv /\ [Next]_vars => EsInv'
  BY EsInvNext
<1> QED
  BY <1>1, EsInvInit, PTL DEF Spec

(* In a settled session a registered channel has its chat subscription, if sessions were only lost. *)
LEMMA SettledServes ==
  ASSUME EsInv, Settled, Calm, moves = 0, NEW c \in Channels, reg[c] # 0
  PROVE  Subscribed(c)
<1>1. link = "up" /\ sid = sess /\ \A w \in Workers : wpc[w] = "free"
  BY DEF Settled, AtRest
<1>2. Served(c)
  BY <1>1 DEF EsInv, SubscribesAll
<1> QED
  BY <1>1, <1>2 DEF Served, Overtaken, Greets, Handles, Subscribes, SubscribePcs

(* onESState: the feed of a joined channel survives every connection that is lost, or moved, whatever
   the callbacks' order: when the session is settled, IRC or the session's subscription reads it. *)
THEOREM FeedSettles == ASSUME Capacity PROVE Spec => []ReadAtRest
<1>1. EsInv => ReadAtRest
  <2> SUFFICES ASSUME EsInv PROVE ReadAtRest
    OBVIOUS
  <2>1. TypeOK
    BY DEF EsInv, EsTyped
  <2>2. ASSUME Settled, Undisturbed, NEW c \in joined PROVE Read(c)
    <3>1. Calm /\ (losses = 0 \/ moves = 0) /\ link = "up" /\ c \in Channels /\ pc[c] = "idle"
      BY <2>1, <2>2 DEF Undisturbed, Calm, Settled, AtRest, TypeOK, TypeAdapter
    <3>2. CASE losses = 0
      BY <2>2, <3>1, <3>2 DEF EsInv, MovedOnly, OnIrc, Subscribed, Read
    <3>3. CASE moves = 0
      <4>1. c \in irc \/ reg[c] # 0
        BY <2>2, <3>1 DEF EsInv, Listens
      <4>2. c \in irc \/ Subscribed(c)
        BY <2>2, <3>1, <3>3, <4>1, SettledServes
      <4> QED
        BY <3>1, <4>2 DEF Subscribed, Read
    <3> QED
      BY <3>1, <3>2, <3>3
  <2> QED
    BY <2>1, <2>2 DEF ReadAtRest
<1> QED
  BY <1>1, EsInvAlways, PTL

(* channelUp: a channel that a settled session marks up has its chat subscription on that session, so
   that a callback which takes it off IRC, and a sign-out which asks channelUp, act on what is so. *)
THEOREM UpMeansLive == ASSUME Capacity PROVE Spec => []UpIsLive
<1>1. EsInv => UpIsLive
  <2> SUFFICES ASSUME EsInv, Settled, Undisturbed, NEW c \in Channels, IsUp(c) PROVE tsub[c][Chat] # 0
    BY DEF UpIsLive
  <2>1. Calm /\ (losses = 0 \/ moves = 0) /\ reg[c] # 0
    BY DEF Undisturbed, Calm, IsUp
  <2>2. CASE losses = 0
    <3>1. reg[c] \in Gens
      BY <2>1 DEF EsInv, EsTyped, TypeOK, TypeSupervisor, Gens
    <3>2. up[c][reg[c]] = "yes"
      BY DEF IsUp
    <3> QED
      BY <2>1, <2>2, <3>1, <3>2 DEF EsInv, MovedOnly, Subscribed
  <2>3. CASE moves = 0
    BY <2>1, <2>3, SettledServes DEF Subscribed
  <2> QED
    BY <2>1, <2>2, <2>3
<1> QED
  BY <1>1, EsInvAlways, PTL
=============================================================================
