----------------------------- MODULE Moderation -----------------------------
(* Moderating a channel: the composer's slash commands (command.Parse,         *)
(* dispatch.Sender.Do and Moderate, the calls of the Twitch adapter to Helix  *)
(* and of the Kick adapter to Kick's API) and the queue of messages that AutoMod holds (held.Queue, the       *)
(* approve and deny requests, Twitch's own notifications).                    *)
(*                                                                            *)
(* Durations are Go's: a signed number of Bits bits counting units of which   *)
(* Second make a second, so a product can wrap around.                        *)
EXTENDS Integers, Sequences, SequencesExt

CONSTANTS
  HeldIds, HeldCap,        \* messages AutoMod may hold; maxPerChannel
  Moderators,              \* requests that approve or deny at the same time
  Bits, Second,            \* width and unit of time.Duration
  Minute,                  \* seconds in a minute
  DefaultTimeout, MaxTimeout,  \* seconds: defaultTimeout and clampTimeout's 600; twitchMaxTimeout
  KickMaxTimeout,          \* seconds: kick's maxTimeout
  Numbers,                 \* the numbers a user may type
  MaxDuplicates            \* bound on notifications that Twitch repeats

ASSUME ModerationConstants ==
  /\ {HeldCap, Bits, Second, Minute, DefaultTimeout, MaxTimeout, KickMaxTimeout} \subseteq Nat \ {0}
  /\ DefaultTimeout <= MaxTimeout /\ Numbers \subseteq Int /\ MaxDuplicates \in Nat
  /\ KickMaxTimeout % Minute = 0      \* a number of minutes
  /\ 2 ^ (Bits - 1) \in Nat \ {0}

VARIABLES
  moRows,      \* held.Queue of the channel: identifiers, oldest first
  moEvicted,   \* identifiers that evict has dropped
  moTwitch,    \* what Twitch has done with each message
  moPipe,      \* events on their way to the held sink
  moResolve,   \* the approve or deny request of each moderator
  moLast,      \* the last composer input and what became of it
  moDups       \* repeated notifications so far

moVars == <<moRows, moEvicted, moTwitch, moPipe, moResolve, moLast, moDups>>

-----------------------------------------------------------------------------
(* Slash commands. *)

\* Go's time.Duration(n) * unit.
Wrap(x) == LET half == 2 ^ (Bits - 1) IN ((x + half) % (2 * half)) - half
Times(n, unit) == Wrap(n * unit)
InUnits(d, unit) == IF d >= 0 THEN d \div unit ELSE -((-d) \div unit)
Seconds(d) == InUnits(d, Second)

\* A composer input: text that does not start with "/", starts with "//", or a
\* command with its arguments, each a word or a number.
Word == [num |-> FALSE, n |-> 0]
Num(n) == [num |-> TRUE, n |-> n]
ArgLists == {<<>>, <<Word>>, <<Word, Word>>} \cup {<<Num(n)>> : n \in Numbers}
              \cup {<<Word, Num(n)>> : n \in Numbers}
Toggles == {"slowoff", "followersoff", "emoteonly", "emoteonlyoff", "uniquechat", "uniquechatoff"}
Commands == {"ban", "unban", "timeout", "untimeout", "delete", "clear", "slow", "followers"} \cup Toggles
Inputs == [form : {"plain", "escaped"}]
            \cup [form : {"command"}, name : Commands \cup {"me", "help", "nonsense"}, args : ArgLists]

Hint == [kind |-> "hint"]
Mod(type, dur, on) == [kind |-> "mod", type |-> type, dur |-> dur, on |-> on]

\* The builders of the table of commands.
BuildTimeout(args) ==
  CASE args = <<>> -> Hint
    [] Len(args) >= 2 /\ args[2].num ->
         IF args[2].n <= 0 THEN Hint ELSE Mod("timeout", Times(args[2].n, Second), FALSE)
    [] OTHER -> Mod("timeout", Times(DefaultTimeout, Second), FALSE)
BuildCounted(type, args, default, unit, off) ==
  IF args # <<>> /\ (~args[1].num \/ args[1].n < 0) THEN Hint
  ELSE LET n == IF args = <<>> THEN default ELSE args[1].n IN Mod(type, Times(n, unit), off => n > 0)
Build(name, args) ==
  CASE name \in {"ban", "unban", "untimeout", "delete"} -> IF args = <<>> THEN Hint ELSE Mod(name, 0, FALSE)
    [] name = "timeout" -> BuildTimeout(args)
    [] name = "clear" -> Mod("clear", 0, FALSE)
    [] name = "slow" -> BuildCounted("slow", args, 30, Second, TRUE)
    [] name = "followers" -> BuildCounted("followers", args, 0, Minute * Second, FALSE)
    [] name \in {"slowoff", "followersoff", "emoteonlyoff", "uniquechatoff"} -> Mod(name, 0, FALSE)
    [] OTHER -> Mod(name, 0, TRUE)

\* A bug for comparison: unknown commands are sent as text.
ParseSendsUnknown(input, caps) ==
  CASE input.form # "command" \/ input.name \notin Commands -> [kind |-> "send"]
    [] OTHER -> IF caps.moderation THEN Build(input.name, input.args) ELSE Hint

Parse(input, caps) ==
  IF input.form # "command" THEN [kind |-> "send"]
  ELSE IF input.name = "me" THEN [kind |-> "send"]
  ELSE IF input.name = "help" THEN [kind |-> "help"]
  ELSE IF input.name \notin Commands \/ ~caps.moderation THEN Hint
  ELSE Build(input.name, input.args)

\* A bug for comparison: the duration reaches Twitch as it was computed.
UnclampedTimeout(d) == Seconds(d)
ClampTimeout(d) ==
  IF Seconds(d) <= 0 THEN DefaultTimeout ELSE IF Seconds(d) > MaxTimeout THEN MaxTimeout ELSE Seconds(d)

\* The wait in seconds or the follow age in minutes, only when enabling.
ChatSettingsPatch(action) ==
  IF ~action.on THEN 0
  ELSE InUnits(action.dur, IF action.type = "followers" THEN Minute * Second ELSE Second)

Nothing == [call |-> "none", secs |-> 0]

\* Adapter.Moderate: the Helix call of an action.  A ban without seconds is
\* permanent.
HelixCall(action) ==
  CASE action.type = "ban" -> [call |-> "ban", secs |-> 0]
    [] action.type = "timeout" -> [call |-> "ban", secs |-> ClampTimeout(action.dur)]
    [] action.type \in {"unban", "untimeout"} -> [call |-> "unban", secs |-> 0]
    [] action.type \in {"delete", "clear"} -> [call |-> action.type, secs |-> 0]
    [] OTHER -> [call |-> "settings", secs |-> ChatSettingsPatch(action)]

\* A bug for comparison: whole minutes are counted, as for Twitch's seconds.
KickMinutesFloor(d) == d \div (Minute * Second)
KickMinutes(d) == (d + Minute * Second - 1) \div (Minute * Second)

\* APIClient.Moderate and Ban: timeouts in whole minutes, rounded up, and
\* refused beyond the maximum; Kick has no chat settings.
KickCall(action) ==
  LET d == IF action.dur <= 0 THEN Minute * Second ELSE action.dur IN
  CASE action.type = "ban" -> [call |-> "ban", secs |-> 0]
    [] action.type = "timeout" /\ d <= KickMaxTimeout * Second ->
         [call |-> "ban", secs |-> KickMinutes(d) * Minute]
    [] action.type \in {"unban", "untimeout"} -> [call |-> "unban", secs |-> 0]
    [] action.type = "delete" -> [call |-> "delete", secs |-> 0]
    [] OTHER -> Nothing

\* Sender.Do: a send needs the capability, a moderation action the account.
Do(plat, input, caps) ==
  LET p == Parse(input, caps) IN
    /\ moLast' = [plat |-> plat, input |-> input,
                  done |-> CASE p.kind = "send" /\ caps.send -> [call |-> "send", secs |-> 0]
                             [] p.kind = "mod" -> IF plat = "kick" THEN KickCall(p) ELSE HelixCall(p)
                             [] OTHER -> Nothing]
    /\ UNCHANGED <<moRows, moEvicted, moTwitch, moPipe, moResolve, moDups>>

-----------------------------------------------------------------------------
(* Held messages. *)

NoResolve == [pc |-> "idle"]
NoInput == [plat |-> "none", input |-> [form |-> "plain"], done |-> Nothing]
ModerationInit ==
  /\ moRows = <<>> /\ moEvicted = {} /\ moPipe = <<>> /\ moDups = 0
  /\ moTwitch = [i \in HeldIds |-> "none"]
  /\ moResolve = [m \in Moderators |-> NoResolve]
  /\ moLast = NoInput

\* AutoMod holds a message, perhaps telling us twice (heldFromEvent).
TwitchHolds(i) ==
  /\ moTwitch[i] = "none"
  /\ moTwitch' = [moTwitch EXCEPT ![i] = "held"]
  /\ moPipe' = Append(moPipe, [type |-> "held", id |-> i, approved |-> FALSE])
  /\ UNCHANGED <<moRows, moEvicted, moResolve, moLast, moDups>>
TwitchRepeats(i) ==
  /\ moTwitch[i] = "held" /\ moDups < MaxDuplicates
  /\ moDups' = moDups + 1
  /\ moPipe' = Append(moPipe, [type |-> "held", id |-> i, approved |-> FALSE])
  /\ UNCHANGED <<moRows, moEvicted, moTwitch, moResolve, moLast>>

\* Another moderator decides; Twitch reports it (heldResolvedFromEvent).
Resolved(i, approve) == [type |-> "resolved", id |-> i, approved |-> approve]
TwitchResolves(i, approve) ==
  /\ moTwitch[i] = "held"
  /\ moTwitch' = [moTwitch EXCEPT ![i] = IF approve THEN "approved" ELSE "denied"]
  /\ moPipe' = Append(moPipe, Resolved(i, approve))
  /\ UNCHANGED <<moRows, moEvicted, moResolve, moLast, moDups>>

\* Queue.Consume: add, which ignores an identifier it has and drops the oldest
\* beyond the cap, and remove.
HeldAdd(rows, i) ==
  IF Contains(rows, i) THEN rows
  ELSE LET more == Append(rows, i) IN SubSeq(more, IF Len(more) > HeldCap THEN 2 ELSE 1, Len(more))
HeldRemove(rows, i) ==
  IF Contains(rows, i) THEN RemoveAt(rows, CHOOSE k \in DOMAIN rows : rows[k] = i) ELSE rows

\* A bug for comparison: only an approval clears the row.
HeldConsumeApproved ==
  /\ moPipe # <<>>
  /\ LET ev == Head(moPipe) IN
       moRows' = IF ev.type = "held" THEN HeldAdd(moRows, ev.id)
                 ELSE IF ev.approved THEN HeldRemove(moRows, ev.id) ELSE moRows
  /\ moEvicted' = moEvicted \cup (ToSet(moRows) \ ToSet(moRows'))
  /\ moPipe' = Tail(moPipe)
  /\ UNCHANGED <<moTwitch, moResolve, moLast, moDups>>

HeldConsume ==
  /\ moPipe # <<>>
  /\ LET ev == Head(moPipe) IN
       /\ moRows' = IF ev.type = "held" THEN HeldAdd(moRows, ev.id) ELSE HeldRemove(moRows, ev.id)
       /\ moEvicted' = IF ev.type = "held" THEN moEvicted \cup (ToSet(moRows) \ ToSet(moRows')) ELSE moEvicted
  /\ moPipe' = Tail(moPipe)
  /\ UNCHANGED <<moTwitch, moResolve, moLast, moDups>>

\* resolveHeld and heldControl.resolve: the row is looked up, Twitch is asked,
\* and on success the same event is submitted as for a decision made elsewhere.
ResolveHeld(m, i, approve) ==
  /\ moResolve[m] = NoResolve /\ Contains(moRows, i)
  /\ moResolve' = [moResolve EXCEPT ![m] = [pc |-> "ask", id |-> i, approve |-> approve]]
  /\ UNCHANGED <<moRows, moEvicted, moTwitch, moPipe, moLast, moDups>>
ManageHeldMessage(m) ==
  /\ moResolve[m].pc = "ask"
  /\ LET i == moResolve[m].id IN
       IF moTwitch[i] = "held"
         THEN /\ moTwitch' = [moTwitch EXCEPT ![i] = IF moResolve[m].approve THEN "approved" ELSE "denied"]
              /\ moPipe' = Append(moPipe, Resolved(i, moResolve[m].approve))
              /\ moResolve' = [moResolve EXCEPT ![m].pc = "emit"]
         ELSE moResolve' = [moResolve EXCEPT ![m] = NoResolve] /\ UNCHANGED <<moTwitch, moPipe>>
  /\ UNCHANGED <<moRows, moEvicted, moLast, moDups>>
ManageHeldFails(m) ==
  /\ moResolve[m].pc = "ask"
  /\ moResolve' = [moResolve EXCEPT ![m] = NoResolve]
  /\ UNCHANGED <<moRows, moEvicted, moTwitch, moPipe, moLast, moDups>>
EmitResolved(m) ==
  /\ moResolve[m].pc = "emit"
  /\ moPipe' = Append(moPipe, Resolved(moResolve[m].id, moResolve[m].approve))
  /\ moResolve' = [moResolve EXCEPT ![m] = NoResolve]
  /\ UNCHANGED <<moRows, moEvicted, moTwitch, moLast, moDups>>

HeldNext ==
  \/ \E i \in HeldIds :
       \/ TwitchHolds(i) \/ TwitchRepeats(i)
       \/ \E approve \in BOOLEAN : TwitchResolves(i, approve) \/ \E m \in Moderators : ResolveHeld(m, i, approve)
  \/ HeldConsume
  \/ \E m \in Moderators : ManageHeldMessage(m) \/ ManageHeldFails(m) \/ EmitResolved(m)

\* Commands and held messages share no state, so they are explored apart.
\* A command leaves no state behind, so one is enough.
CommandsNext ==
  /\ moLast = NoInput
  /\ \E plat \in {"twitch", "kick"}, input \in Inputs, caps \in [send : BOOLEAN, moderation : BOOLEAN] :
       Do(plat, input, caps)

ModerationSpec == ModerationInit /\ [][HeldNext \/ CommandsNext]_moVars

-----------------------------------------------------------------------------
ModerationTypeOK ==
  /\ moRows \in Seq(HeldIds) /\ Len(moRows) <= HeldCap
  /\ moTwitch \in [HeldIds -> {"none", "held", "approved", "denied"}]
  /\ moLast.done.secs \in Int

\* Once the events are through, the rows that moderators see are the messages
\* that Twitch still holds, each once, but for the ones the cap has dropped:
\* whoever decided, however many decided at once, and however often Twitch
\* repeated itself.
HeldRowsAreHeld ==
  moPipe = <<>> =>
    /\ ToSet(moRows) \subseteq {i \in HeldIds : moTwitch[i] = "held"}
    /\ {i \in HeldIds : moTwitch[i] = "held"} \subseteq ToSet(moRows) \cup moEvicted
    /\ \A i, j \in 1 .. Len(moRows) : moRows[i] = moRows[j] => i = j

\* What was typed keeps its meaning at the platform: a command is never sent as
\* chat text ("never sent") except /me, only /ban bans for good, and a timeout
\* ends within the platform's ceiling even when its duration has wrapped around;
\* Kick's "shorter durations round up to a minute, longer ones are refused
\* rather than silently shortened".
CommandsKeepMeaning ==
  LET in == moLast.input  do == moLast.done IN
    /\ do.call = "send" => in.form # "command" \/ in.name = "me"
    /\ do.call = "ban" /\ do.secs = 0 => in.name = "ban"
    /\ do.call = "ban" /\ in.name = "timeout" =>
         /\ do.secs \in 1 .. (IF moLast.plat = "kick" THEN KickMaxTimeout ELSE MaxTimeout)
         /\ moLast.plat = "kick" /\ Len(in.args) = 2 /\ in.args[2].num /\ in.args[2].n * Second < 2 ^ (Bits - 1)
              => do.secs >= in.args[2].n

\* What moderators decide and type reaches the platform as meant: the held
\* queue shows what Twitch still holds, whoever decides first, and a command
\* keeps its meaning through parsing, wrapping durations and the adapters.
ModerationFaithful == ModerationTypeOK /\ HeldRowsAreHeld /\ CommandsKeepMeaning
=============================================================================
