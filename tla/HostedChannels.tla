--------------------------- MODULE HostedChannels ---------------------------
(* The channels and profiles of hosted users: what channelControl, the        *)
(* profile, import, filter and connection routes do for a request that        *)
(* carries a user id, over the profiles table, whose queries are scoped to    *)
(* that user, and over what all users share: the engine's set of channels and *)
(* the one profiles.Manager with its active document.                         *)
(*                                                                            *)
(* A document is its channels.  A step is one query, one call of the engine   *)
(* or what the manager does between two releases of a lock.                   *)
EXTENDS Access

CONSTANTS
  HoClients, HoOwner,   \* requests in progress at the same time, and whose they are
  HoChannels, HoNames,  \* channels; names of profiles
  Local,                \* the user_id '' of a single-user installation
  MaxHoRequests         \* bound on the requests of a behaviour

HoUsers == {HoOwner[c] : c \in HoClients}
ASSUME HostedConstants ==
  Local \notin HoUsers /\ "Default" \in HoNames /\ MaxHoRequests \in Nat

VARIABLES
  hoRows,      \* profiles table: the rows ever inserted, default, plain or gone, by their ids
  hoEngine,    \* channels the engine has joined
  hoActive,    \* Manager.activeID (0 before the first switch) and the channels of Manager.active
  hoCall,      \* the request of each client
  hoAsked,     \* what each user's requests, one after the other, make of the default profile
  hoOwn,       \* channels each user joined, imported or was given with a profile
  hoMixed,     \* users whose requests overlapped, or who saved the shared document
  hoRequests   \* requests so far

hoVars == <<hoRows, hoEngine, hoActive, hoCall, hoAsked, hoOwn, hoMixed, hoRequests>>

\* A call under way: its rest of channels to add and to drop, the row it deals
\* with, and the document in its hands.
HoIdle == [pc |-> "idle", op |-> "none", add |-> {}, drop |-> {}, id |-> 0,
           doc |-> {}, name |-> "Default", kind |-> "plain"]
HoAt(c, pc) == hoCall[c].pc = pc
HoGoto(c, call) == hoCall' = [hoCall EXCEPT ![c] = call] /\ UNCHANGED hoRequests
HoBegin(c, call) ==
  /\ hoCall[c] = HoIdle /\ hoCall' = [hoCall EXCEPT ![c] = call]
  /\ hoRequests < MaxHoRequests /\ hoRequests' = hoRequests + 1
  /\ hoMixed' = IF \E d \in HoClients \ {c} : HoOwner[d] = HoOwner[c] /\ hoCall[d] # HoIdle
                  THEN hoMixed \cup {HoOwner[c]} ELSE hoMixed
HoEnds(c) == HoGoto(c, HoIdle) /\ UNCHANGED hoMixed

\* The rows of a user, and those that Default may return with its LIMIT 1.
RowsOf(u) == {i \in 1 .. Len(hoRows) : hoRows[i].kind # "gone" /\ hoRows[i].user = u}
DefaultRows(u) == {i \in RowsOf(u) : hoRows[i].kind = "default"}

\* A bug for comparison: the row is found by its id alone.
UpdateRowUnscoped(i, u, chans) ==
  IF i \in 1 .. Len(hoRows) THEN [hoRows EXCEPT ![i] = [@ EXCEPT !.chans = chans]] ELSE hoRows
\* Update: WHERE id = ? AND user_id = ?
UpdateRow(i, u, chans) ==
  IF i \in RowsOf(u) THEN [hoRows EXCEPT ![i] = [@ EXCEPT !.chans = chans]] ELSE hoRows

\* The table may hold the profile of a single-user installation, which is
\* named "default" where a hosted user's is named "Default"; Start has joined
\* what it can of its channels.
HostedInit ==
  /\ \E S \in SUBSET HoChannels :
       /\ hoRows \in {<<>>, <<[user |-> Local, name |-> "default", kind |-> "default", chans |-> S]>>}
       /\ hoEngine \in SUBSET S /\ (hoRows = <<>> => S = {})
       /\ hoAsked = [u \in HoUsers \cup {Local} |-> IF u = Local THEN S ELSE {}]
       /\ hoOwn = hoAsked
  /\ hoActive = [id |-> 0, chans |-> {}]
  /\ hoCall = [c \in HoClients |-> HoIdle] /\ hoMixed = {} /\ hoRequests = 0

-----------------------------------------------------------------------------
(* Join and leave. *)

\* Join: the engine joins, or drops the channel when the adapter cannot; then
\* the user's profile is seen to.
HostedJoin(c, ch, ok) ==
  /\ HoBegin(c, IF ok THEN [HoIdle EXCEPT !.pc = "ensure", !.op = "edit", !.add = {ch}] ELSE HoIdle)
  /\ hoEngine' = IF ok THEN hoEngine \cup {ch} ELSE hoEngine \ {ch}
  /\ hoOwn' = IF ok THEN [hoOwn EXCEPT ![HoOwner[c]] = @ \cup {ch}] ELSE hoOwn
  /\ UNCHANGED <<hoRows, hoActive, hoAsked>>

\* Leave: only the profile; the engine stays in the channel.
HostedLeave(c, ch) ==
  /\ HoBegin(c, [HoIdle EXCEPT !.pc = "ensure", !.op = "edit", !.drop = {ch}])
  /\ UNCHANGED <<hoRows, hoEngine, hoActive, hoAsked, hoOwn>>

\* ensureUserProfile: a missing profile is seeded from the engine's channels.
EnsureUserProfile(c) ==
  /\ HoAt(c, "ensure")
  /\ HoGoto(c, IF DefaultRows(HoOwner[c]) # {} THEN [hoCall[c] EXCEPT !.pc = "read"]
               ELSE [hoCall[c] EXCEPT !.pc = "count", !.doc = hoEngine])
  /\ UNCHANGED <<hoRows, hoEngine, hoActive, hoAsked, hoOwn, hoMixed>>

\* AddChannelForUser and RemoveChannelForUser: read the default profile, if
\* there is one, and write the changed document back, unless a channel to add
\* is there already.
EditedDoc(call) == (call.doc \cup call.add) \ call.drop
HoEdits(c) ==
  LET u == HoOwner[c] IN
    /\ hoAsked' = [hoAsked EXCEPT ![u] = (@ \cup hoCall[c].add) \ hoCall[c].drop]
    /\ HoEnds(c)
ReadUserProfile(c) ==
  /\ HoAt(c, "read")
  /\ \/ DefaultRows(HoOwner[c]) = {} /\ HoEdits(c)
     \/ \E i \in DefaultRows(HoOwner[c]) :
          IF hoCall[c].drop = {} /\ hoCall[c].add \subseteq hoRows[i].chans THEN HoEdits(c)
          ELSE /\ HoGoto(c, [hoCall[c] EXCEPT !.pc = "write", !.id = i, !.doc = hoRows[i].chans])
               /\ UNCHANGED <<hoAsked, hoMixed>>
  /\ UNCHANGED <<hoRows, hoEngine, hoActive, hoOwn>>
WriteUserProfile(c) ==
  /\ HoAt(c, "write")
  /\ hoRows' = UpdateRow(hoCall[c].id, HoOwner[c], EditedDoc(hoCall[c]))
  /\ HoEdits(c)
  /\ UNCHANGED <<hoEngine, hoActive, hoOwn>>

-----------------------------------------------------------------------------
(* Profiles are created, imported and deleted. *)

\* handleCreateProfile with an empty document, handleImportProfile with any.
HostedCreate(c, name, chans) ==
  /\ HoBegin(c, [HoIdle EXCEPT !.pc = "count", !.op = "create", !.name = name, !.doc = chans])
  /\ UNCHANGED <<hoRows, hoEngine, hoActive, hoAsked, hoOwn>>

\* profileRepo.Create: a user's first profile is the default one; names are
\* unique over all users.  The caller ignores or reports a conflict.
CountProfiles(c) ==
  /\ HoAt(c, "count")
  /\ HoGoto(c, [hoCall[c] EXCEPT !.pc = "insert", !.kind = IF RowsOf(HoOwner[c]) = {} THEN "default" ELSE "plain"])
  /\ UNCHANGED <<hoRows, hoEngine, hoActive, hoAsked, hoOwn, hoMixed>>
NameTaken(name) == \E i \in 1 .. Len(hoRows) : hoRows[i].kind # "gone" /\ hoRows[i].name = name
InsertProfile(c) ==
  /\ HoAt(c, "insert")
  /\ LET call == hoCall[c]  u == HoOwner[c] IN
       /\ IF NameTaken(call.name) THEN UNCHANGED <<hoRows, hoAsked, hoOwn>>
          ELSE /\ hoRows' = Append(hoRows, [user |-> u, name |-> call.name, kind |-> call.kind, chans |-> call.doc])
               /\ hoAsked' = IF call.kind = "default" THEN [hoAsked EXCEPT ![u] = call.doc] ELSE hoAsked
               /\ hoOwn' = [hoOwn EXCEPT ![u] = @ \cup call.doc]
       /\ HoGoto(c, IF call.op = "create" THEN HoIdle
                    ELSE [HoIdle EXCEPT !.pc = "read", !.op = "edit", !.add = call.add, !.drop = call.drop])
  /\ UNCHANGED <<hoEngine, hoActive, hoMixed>>

\* Manager.Delete: not the active profile and not a default one.
HostedDelete(c, i) ==
  /\ i # hoActive.id /\ i \in RowsOf(HoOwner[c]) \ DefaultRows(HoOwner[c])
  /\ HoBegin(c, [HoIdle EXCEPT !.pc = "delete", !.op = "delete", !.id = i])
  /\ UNCHANGED <<hoRows, hoEngine, hoActive, hoAsked, hoOwn>>
DeleteProfile(c) ==
  /\ HoAt(c, "delete")
  /\ LET i == hoCall[c].id IN
       hoRows' = IF i \in RowsOf(HoOwner[c]) THEN [hoRows EXCEPT ![i] = [@ EXCEPT !.kind = "gone"]] ELSE hoRows
  /\ HoEnds(c)
  /\ UNCHANGED <<hoEngine, hoActive, hoAsked, hoOwn>>

-----------------------------------------------------------------------------
(* The active document, which all users share. *)

\* handleActivateProfile and Manager.Activate: under activateMu the user's row
\* is read and the difference to the active document taken; then every removed
\* channel is left in the engine and every added one joined.
HostedActivate(c, i) ==
  /\ \A d \in HoClients : hoCall[d].op # "activate"
  /\ i \in RowsOf(HoOwner[c])
  /\ LET next == hoRows[i].chans IN
       HoBegin(c, [HoIdle EXCEPT !.pc = "move", !.op = "activate", !.id = i, !.doc = next,
                                 !.drop = hoActive.chans \ next, !.add = next \ hoActive.chans])
  /\ UNCHANGED <<hoRows, hoEngine, hoActive, hoAsked, hoOwn>>
ActivateLeaves(c, ch) ==
  /\ HoAt(c, "move") /\ ch \in hoCall[c].drop
  /\ hoEngine' = hoEngine \ {ch}
  /\ HoGoto(c, [hoCall[c] EXCEPT !.drop = @ \ {ch}])
  /\ UNCHANGED <<hoRows, hoActive, hoAsked, hoOwn, hoMixed>>
ActivateJoins(c, ch, ok) ==
  /\ HoAt(c, "move") /\ hoCall[c].drop = {} /\ ch \in hoCall[c].add
  /\ hoEngine' = IF ok THEN hoEngine \cup {ch} ELSE hoEngine \ {ch}
  /\ HoGoto(c, [hoCall[c] EXCEPT !.add = @ \ {ch}])
  /\ UNCHANGED <<hoRows, hoActive, hoAsked, hoOwn, hoMixed>>
\* The filters of an imported document may not compile, which ends the switch.
ActivateSwaps(c, compiles) ==
  /\ HoAt(c, "move") /\ hoCall[c].drop = {} /\ hoCall[c].add = {}
  /\ hoActive' = IF compiles THEN [id |-> hoCall[c].id, chans |-> hoCall[c].doc] ELSE hoActive
  /\ HoEnds(c)
  /\ UNCHANGED <<hoRows, hoEngine, hoAsked, hoOwn>>

\* SetMethod: the active document's channels of one platform are left and
\* joined again, whoever's they are.
HostedSetMethod(c, chans) ==
  /\ hoActive.id # 0 /\ chans \subseteq hoActive.chans
  /\ HoBegin(c, [HoIdle EXCEPT !.pc = "rejoin", !.op = "method", !.add = chans])
  /\ UNCHANGED <<hoRows, hoEngine, hoActive, hoAsked, hoOwn>>
MethodLeaves(c, ch) ==
  /\ HoAt(c, "rejoin") /\ hoCall[c].drop = {} /\ ch \in hoCall[c].add
  /\ hoEngine' = hoEngine \ {ch}
  /\ HoGoto(c, [hoCall[c] EXCEPT !.add = @ \ {ch}, !.drop = {ch}])
  /\ UNCHANGED <<hoRows, hoActive, hoAsked, hoOwn, hoMixed>>
MethodJoins(c, ok) ==
  /\ HoAt(c, "rejoin") /\ hoCall[c].drop # {}
  /\ hoEngine' = IF ok THEN hoEngine \cup hoCall[c].drop ELSE hoEngine \ hoCall[c].drop
  /\ HoGoto(c, [hoCall[c] EXCEPT !.drop = {}])
  /\ UNCHANGED <<hoRows, hoActive, hoAsked, hoOwn, hoMixed>>

\* save, of SetMethod and of SetFilters: the active document and its id are
\* read under mu, then the row is written.
SaveCall == [HoIdle EXCEPT !.pc = "save", !.op = "save", !.id = hoActive.id, !.doc = hoActive.chans]
MethodSaves(c) ==
  /\ HoAt(c, "rejoin") /\ hoCall[c].drop = {} /\ hoCall[c].add = {}
  /\ HoGoto(c, SaveCall)
  /\ UNCHANGED <<hoRows, hoEngine, hoActive, hoAsked, hoOwn, hoMixed>>
HostedSetFilters(c) ==
  /\ hoActive.id # 0 /\ HoBegin(c, SaveCall)
  /\ UNCHANGED <<hoRows, hoEngine, hoActive, hoAsked, hoOwn>>
SaveProfile(c) ==
  /\ HoAt(c, "save")
  /\ hoRows' = UpdateRow(hoCall[c].id, HoOwner[c], hoCall[c].doc)
  /\ hoMixed' = IF hoCall[c].id \in RowsOf(HoOwner[c]) THEN hoMixed \cup {HoOwner[c]} ELSE hoMixed
  /\ HoGoto(c, HoIdle)
  /\ UNCHANGED <<hoEngine, hoActive, hoAsked, hoOwn>>

\* A restart: no document is active, and joinAllHostedChannels lists the
\* profiles with a context that carries no user, which profileRepo.List reads
\* as user_id ''.
HostedRestart ==
  /\ hoEngine' \in SUBSET UNION {hoRows[i].chans : i \in RowsOf(Local)}
  /\ hoActive' = [id |-> 0, chans |-> {}]
  /\ hoCall' = [c \in HoClients |-> HoIdle]
  /\ UNCHANGED <<hoRows, hoAsked, hoOwn, hoMixed, hoRequests>>

HostedNext ==
  \/ HostedRestart
  \/ \E c \in HoClients :
       \/ EnsureUserProfile(c) \/ ReadUserProfile(c) \/ WriteUserProfile(c)
       \/ CountProfiles(c) \/ InsertProfile(c) \/ DeleteProfile(c)
       \/ MethodSaves(c) \/ HostedSetFilters(c) \/ SaveProfile(c)
       \/ \E i \in 1 .. Len(hoRows) : HostedDelete(c, i) \/ HostedActivate(c, i)
       \/ \E chans \in SUBSET HoChannels :
            HostedSetMethod(c, chans) \/ \E name \in HoNames : HostedCreate(c, name, chans)
       \/ \E ch \in HoChannels : HostedLeave(c, ch) \/ ActivateLeaves(c, ch) \/ MethodLeaves(c, ch)
       \/ \E ok \in BOOLEAN :
            \/ ActivateSwaps(c, ok) \/ MethodJoins(c, ok)
            \/ \E ch \in HoChannels : HostedJoin(c, ch, ok) \/ ActivateJoins(c, ch, ok)

\* Both parts of the daemon, interleaved.
AccessSpec ==
  /\ AccessInit /\ HostedInit
  /\ [][(AccessNext /\ UNCHANGED hoVars) \/ (HostedNext /\ UNCHANGED acVars)]_<<acVars, hoVars>>

-----------------------------------------------------------------------------
\* "One user's leave does not affect the shared in-memory manager or other
\* users' profiles" (manager.go:208), and no other request of one does: the
\* default profile of a user is what that user's own requests made of it,
\* whatever others join, leave, activate, save or delete meanwhile.  A user's
\* own requests may overwrite each other when they overlap, and so does a save
\* of the shared document, which may be older than the row (hoMixed).
OwnRequestsOnly ==
  \A u \in HoUsers \cup {Local} : u \notin hoMixed =>
    \A i \in DefaultRows(u) : hoRows[i].chans = hoAsked[u]

\* "Each user manages their own profiles" (wire.go:1490), although all share
\* one active document which any of them may save: no profile ever names a
\* channel that its user neither joined nor imported nor was given with a
\* first profile.
OwnChannelsOnly ==
  \A u \in HoUsers \cup {Local} : \A i \in RowsOf(u) : hoRows[i].chans \subseteq hoOwn[u]

\* A request is served only to a holder entitled to it, when tokens are
\* revoked, sessions expire and the daemon restarts in between; failed logins
\* are bounded in a window; and among hosted users a profile is changed by the
\* requests of its own user only.
AccessKept == RequestsEntitled /\ OwnRequestsOnly /\ OwnChannelsOnly

-----------------------------------------------------------------------------
(* What the code does not keep: no run checks these.                          *)

\* "the engine is a shared connection pool" (wire.go:1488): a channel that the
\* default profile of a hosted user names stays joined.  Not when another user
\* activates a profile without it, when somebody's join of it fails, or after
\* a restart; and importing or creating a profile joins nothing.
SharedChannelsStay ==
  \A u \in HoUsers : \A i \in DefaultRows(u) : hoRows[i].chans \subseteq hoEngine

\* "reads every profile from the DB (all users, no user_id filter) and joins
\* each channel in the shared engine" (wire.go:1560): a start may join every
\* channel that some profile names.  List filters on user_id '' (core.go:240),
\* so it joins none of a hosted user's.
StartReadsEveryProfile ==
  [][HostedRestart => \A u \in HoUsers : \A i \in DefaultRows(u) : hoRows[i].chans \subseteq hoEngine']_hoVars

\* "ensure the user has a profile (creates one seeded from engine if not), then
\* persist the new channel to it" (wire.go:647): what a user's requests asked
\* for is in a profile once they have returned.
HostedJoinSaved ==
  \A u \in HoUsers \ hoMixed :
    hoAsked[u] # {} /\ (\A c \in HoClients : HoOwner[c] = u => hoCall[c] = HoIdle)
      => \E i \in DefaultRows(u) : hoAsked[u] \subseteq hoRows[i].chans

\* "persist the new channel to it" also when the user then edits the filters:
\* a save writes the document as it was activated, without what was joined
\* since.
SavesKeepJoins ==
  \A u \in HoUsers : (\A c \in HoClients : HoOwner[c] = u => hoCall[c] = HoIdle)
    => \A i \in DefaultRows(u) : hoAsked[u] \subseteq hoRows[i].chans
=============================================================================
