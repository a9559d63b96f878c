------------------------------ MODULE Profiles ------------------------------
(* The workspace profiles of single-user mode: profiles.Manager over the      *)
(* profile repository, the engine's set of joined channels and the live       *)
(* filter ruleset, with the HTTP requests that switch profiles, edit the      *)
(* active one, create, import and delete them.  Requests run concurrently; a  *)
(* step is what a request does between two releases of Manager.mu, or one     *)
(* call of the repository, the engine or the filter stage.                    *)
(*                                                                            *)
(* A document is the channels to join and the name of its filter rules.  The  *)
(* connection method of a channel is carried along by the code and not told   *)
(* apart here: pinning one leaves and rejoins the channels.                   *)
EXTENDS Integers, FiniteSets

CONSTANTS
  PrCallers, PrChannels, PrProfiles, PrRules,
  DefaultProfile,   \* the profile that EnsureDefault creates
  BadRules,         \* the rules that do not compile
  MaxRequests       \* bound on the requests of a behaviour

ASSUME ProfilesConstants ==
  DefaultProfile \in PrProfiles /\ BadRules \subseteq PrRules /\ "none" \in PrRules \ BadRules
    /\ "no document" \notin PrRules /\ MaxRequests \in Nat

VARIABLES
  prStored,     \* the profiles table: documents, or NoDoc
  prDefault,    \* the rows with is_default = 1
  prActive,     \* Manager.active and Manager.activeID ("" before the first switch)
  prJoined,     \* Engine.joined
  prFilter,     \* the ruleset of the filter stage
  prCall,       \* the request that each caller is in
  prRequests,   \* requests so far
  prGranted,    \* the channels that were ever put in a profile, for each identifier given out
  prFailed,     \* channels of the active profile whose join failed
  prMixed       \* an edit has overlapped another request, or a switch was abandoned

prVars == <<prStored, prDefault, prActive, prJoined, prFilter, prCall, prRequests,
            prGranted, prFailed, prMixed>>

PrDocs == [chans : SUBSET PrChannels, rules : PrRules]
NewDoc == [chans |-> {}, rules |-> "none"]
NoDoc == [chans |-> {}, rules |-> "no document"]
NoCall == [op |-> "idle"]
HasRow(p) == prStored[p] # NoDoc
Compiles(rules) == rules \notin BadRules

\* EnsureDefault on the first run; Start then activates that profile.
ProfilesInit ==
  /\ prStored = [p \in PrProfiles |-> IF p = DefaultProfile THEN NewDoc ELSE NoDoc]
  /\ prDefault = {DefaultProfile}
  /\ prActive = [id |-> DefaultProfile, doc |-> NewDoc]
  /\ prJoined = {} /\ prFailed = {} /\ prFilter = "none"
  /\ prCall = [c \in PrCallers |-> NoCall] /\ prRequests = 0
  /\ prGranted = [p \in {DefaultProfile} |-> {}]
  /\ prMixed = FALSE

-----------------------------------------------------------------------------
(* Requests begin and end. *)

PrEdits == {"join", "leave", "filters", "method"}
PrBusy(ops) == \E c \in PrCallers : prCall[c].op \in ops
PrBegin(c, call) ==
  /\ prCall[c] = NoCall /\ prRequests < MaxRequests
  /\ prRequests' = prRequests + 1
  /\ prCall' = [prCall EXCEPT ![c] = call]
  /\ prMixed' = (prMixed \/ PrBusy(PrEdits)
                   \/ (call.op \in PrEdits /\ \E d \in PrCallers : prCall[d] # NoCall))
PrGoto(c, call) == prCall' = [prCall EXCEPT ![c] = call] /\ UNCHANGED <<prRequests, prMixed>>
PrReturn(c) == PrGoto(c, NoCall)
PrAt(c, op, pc) == prCall[c].op = op /\ prCall[c].pc = pc

-----------------------------------------------------------------------------
(* Manager.Activate. *)

\* diffChannels
DiffAdded(prev, next) == next \ prev
DiffRemovedAll(prev, next) == prev
DiffRemoved(prev, next) == prev \ next

SwitchUnlocked == FALSE
\* handleActivateProfile: activateMu is taken and the document read and decoded.
SwitchLocked == PrBusy({"activate"})
HandleActivateProfile(c, p) ==
  /\ ~SwitchLocked /\ HasRow(p)
  /\ PrBegin(c, [op |-> "activate", pc |-> "read", id |-> p, doc |-> prStored[p]])
  /\ UNCHANGED <<prStored, prDefault, prActive, prJoined, prFilter, prGranted, prFailed>>

\* The previous document is read under mu and the difference taken.
ActivateDiff(c) ==
  /\ PrAt(c, "activate", "read")
  /\ LET next == prCall[c].doc.chans IN
       PrGoto(c, [op |-> "activate", pc |-> "move", id |-> prCall[c].id, doc |-> prCall[c].doc,
                remove |-> DiffRemoved(prActive.doc.chans, next), add |-> DiffAdded(prActive.doc.chans, next)])
  /\ UNCHANGED <<prStored, prDefault, prActive, prJoined, prFilter, prGranted, prFailed>>

\* Every removed channel is left, then every added one joined; a join may fail.
ActivateLeave(c, ch) ==
  /\ PrAt(c, "activate", "move") /\ ch \in prCall[c].remove
  /\ prJoined' = prJoined \ {ch}
  /\ PrGoto(c, [prCall[c] EXCEPT !.remove = @ \ {ch}])
  /\ prFailed' = prFailed \ {ch}
  /\ UNCHANGED <<prStored, prDefault, prActive, prFilter, prGranted>>
ActivateJoin(c, ch, ok) ==
  /\ PrAt(c, "activate", "move") /\ prCall[c].remove = {} /\ ch \in prCall[c].add
  /\ prJoined' = IF ok THEN prJoined \cup {ch} ELSE prJoined \ {ch}
  /\ prFailed' = IF ok THEN prFailed \ {ch} ELSE prFailed \cup {ch}
  /\ PrGoto(c, [prCall[c] EXCEPT !.add = @ \ {ch}])
  /\ UNCHANGED <<prStored, prDefault, prActive, prFilter, prGranted>>

\* filter.Compile: an error ends the switch here, after the joins and leaves.
ActivateFilters(c) ==
  /\ PrAt(c, "activate", "move") /\ prCall[c].remove = {} /\ prCall[c].add = {}
  /\ IF Compiles(prCall[c].doc.rules)
       THEN /\ prFilter' = prCall[c].doc.rules
            /\ PrGoto(c, [op |-> "activate", pc |-> "swap", id |-> prCall[c].id, doc |-> prCall[c].doc])
       ELSE /\ prCall' = [prCall EXCEPT ![c] = NoCall]
            /\ prMixed' = TRUE
            /\ UNCHANGED <<prFilter, prRequests>>
  /\ UNCHANGED <<prStored, prDefault, prActive, prJoined, prGranted, prFailed>>

\* The new document becomes the active one and the change is announced.
ActivateSwap(c) ==
  /\ PrAt(c, "activate", "swap")
  /\ prActive' = [id |-> prCall[c].id, doc |-> prCall[c].doc]
  /\ PrReturn(c)
  /\ UNCHANGED <<prStored, prDefault, prJoined, prFilter, prGranted, prFailed>>

-----------------------------------------------------------------------------
(* PrEdits of the active profile.  Each ends with save, which reads the active  *)
(* document and its identifier under mu and then writes the row.              *)

\* channelControl.Join: Engine.Join, then AddChannel.
HandleJoinChannel(c, ch, ok) ==
  /\ PrBegin(c, IF ok THEN [op |-> "join", pc |-> "doc", ch |-> ch] ELSE NoCall)
  /\ prJoined' = IF ok THEN prJoined \cup {ch} ELSE prJoined \ {ch}
  /\ prFailed' = IF ok THEN prFailed \ {ch} ELSE prFailed \cup {ch}
  /\ UNCHANGED <<prStored, prDefault, prActive, prFilter, prGranted>>
AddChannel(c) ==
  /\ PrAt(c, "join", "doc")
  /\ LET ch == prCall[c].ch IN
       IF ch \in prActive.doc.chans THEN PrReturn(c) /\ UNCHANGED <<prActive, prGranted>>
       ELSE /\ prActive' = [prActive EXCEPT !.doc.chans = @ \cup {ch}]
            /\ prGranted' = [prGranted EXCEPT ![prActive.id] = @ \cup {ch}]
            /\ PrGoto(c, [op |-> "join", pc |-> "save"])
  /\ UNCHANGED <<prStored, prDefault, prJoined, prFilter, prFailed>>

\* channelControl.Leave: Engine.Leave, then RemoveChannel.
HandleLeaveChannel(c, ch) ==
  /\ PrBegin(c, [op |-> "leave", pc |-> "doc", ch |-> ch])
  /\ prJoined' = prJoined \ {ch}
  /\ UNCHANGED <<prStored, prDefault, prActive, prFilter, prGranted, prFailed>>
RemoveChannel(c) ==
  /\ PrAt(c, "leave", "doc")
  /\ LET ch == prCall[c].ch IN
       IF ch \notin prActive.doc.chans THEN PrReturn(c) /\ UNCHANGED prActive
       ELSE /\ prActive' = [prActive EXCEPT !.doc.chans = @ \ {ch}]
            /\ PrGoto(c, [op |-> "leave", pc |-> "save"])
  /\ UNCHANGED <<prStored, prDefault, prJoined, prFilter, prGranted, prFailed>>

\* filterControl.SetFilters: bad rules change nothing; good ones are recorded
\* under mu and then swapped in.
HandleSetFilters(c, rules) ==
  /\ Compiles(rules)
  /\ PrBegin(c, [op |-> "filters", pc |-> "swap", rules |-> rules])
  /\ prActive' = [prActive EXCEPT !.doc.rules = rules]
  /\ UNCHANGED <<prStored, prDefault, prJoined, prFilter, prGranted, prFailed>>
SetRuleset(c) ==
  /\ PrAt(c, "filters", "swap")
  /\ prFilter' = prCall[c].rules
  /\ PrGoto(c, [op |-> "filters", pc |-> "save"])
  /\ UNCHANGED <<prStored, prDefault, prActive, prJoined, prGranted, prFailed>>

\* connectionsControl.SetMethod: the channels are snapshot under mu, then each
\* is left and joined again.
HandleSetMethod(c) ==
  /\ PrBegin(c, [op |-> "method", pc |-> "rejoin", todo |-> prActive.doc.chans])
  /\ UNCHANGED <<prStored, prDefault, prActive, prJoined, prFilter, prGranted, prFailed>>
Rejoin(c, ch, ok) ==
  /\ PrAt(c, "method", "rejoin") /\ ch \in prCall[c].todo
  /\ prJoined' = IF ok THEN prJoined \cup {ch} ELSE prJoined \ {ch}
  /\ prFailed' = IF ok THEN prFailed \ {ch} ELSE prFailed \cup {ch}
  /\ PrGoto(c, [prCall[c] EXCEPT !.todo = @ \ {ch}])
  /\ UNCHANGED <<prStored, prDefault, prActive, prFilter, prGranted>>
Rejoined(c) ==
  /\ PrAt(c, "method", "rejoin") /\ prCall[c].todo = {}
  /\ PrGoto(c, [op |-> "method", pc |-> "save"])
  /\ UNCHANGED <<prStored, prDefault, prActive, prJoined, prFilter, prGranted, prFailed>>

\* A bug for comparison: the identifier is read when the row is written.
SaveReadsDoc(c) ==
  /\ prCall[c].op \in PrEdits /\ prCall[c].pc = "save"
  /\ PrGoto(c, [op |-> prCall[c].op, pc |-> "write", id |-> DefaultProfile, doc |-> prActive.doc])
  /\ UNCHANGED <<prStored, prDefault, prActive, prJoined, prFilter, prGranted, prFailed>>

\* save
SaveReads(c) ==
  /\ prCall[c].op \in PrEdits /\ prCall[c].pc = "save"
  /\ PrGoto(c, [op |-> prCall[c].op, pc |-> "write", id |-> prActive.id, doc |-> prActive.doc])
  /\ UNCHANGED <<prStored, prDefault, prActive, prJoined, prFilter, prGranted, prFailed>>

\* repo.Update, which finds no row when the profile is gone.
SaveWrites(c) ==
  /\ prCall[c].op \in PrEdits /\ prCall[c].pc = "write"
  /\ prStored' = IF HasRow(prCall[c].id) THEN [prStored EXCEPT ![prCall[c].id] = prCall[c].doc]
                 ELSE prStored
  /\ PrReturn(c)
  /\ UNCHANGED <<prDefault, prActive, prJoined, prFilter, prGranted, prFailed>>

-----------------------------------------------------------------------------
(* Profiles come and go. *)

\* profileRepo.Create: an identifier that was never used is generated, the rows
\* are counted, then the row is inserted.  Create stores an empty document,
\* ImportProfile whatever was uploaded.
BeginCreate(c, p, doc) ==
  /\ p \notin DOMAIN prGranted
  /\ PrBegin(c, [op |-> "create", pc |-> "insert", id |-> p, doc |-> doc, first |-> \A q \in PrProfiles : ~HasRow(q)])
  /\ prGranted' = [q \in DOMAIN prGranted \cup {p} |-> IF q = p THEN doc.chans ELSE prGranted[q]]
  /\ UNCHANGED <<prStored, prDefault, prActive, prJoined, prFilter, prFailed>>
HandleCreateProfile(c, p) == BeginCreate(c, p, NewDoc)
ImportProfile(c, p, doc) == BeginCreate(c, p, doc)
CreateInserts(c) ==
  /\ PrAt(c, "create", "insert")
  /\ LET p == prCall[c].id IN
       /\ prStored' = [prStored EXCEPT ![p] = prCall[c].doc]
       /\ prDefault' = IF prCall[c].first THEN prDefault \cup {p} ELSE prDefault
  /\ PrReturn(c)
  /\ UNCHANGED <<prActive, prJoined, prFilter, prGranted, prFailed>>

\* Manager.Delete: not the active one, then not the default, then the row.
HandleDeleteProfile(c, p) ==
  /\ p # prActive.id
  /\ PrBegin(c, [op |-> "delete", pc |-> "check", id |-> p])
  /\ UNCHANGED <<prStored, prDefault, prActive, prJoined, prFilter, prGranted, prFailed>>
MayDeleteAny(p) == HasRow(p)
MayDelete(p) == HasRow(p) /\ p \notin prDefault
DeleteChecks(c) ==
  /\ PrAt(c, "delete", "check")
  /\ IF MayDelete(prCall[c].id) THEN PrGoto(c, [prCall[c] EXCEPT !.pc = "row"]) ELSE PrReturn(c)
  /\ UNCHANGED <<prStored, prDefault, prActive, prJoined, prFilter, prGranted, prFailed>>
DeleteRow(c) ==
  /\ PrAt(c, "delete", "row")
  /\ prStored' = [prStored EXCEPT ![prCall[c].id] = NoDoc]
  /\ prDefault' = prDefault \ {prCall[c].id}
  /\ PrReturn(c)
  /\ UNCHANGED <<prActive, prJoined, prFilter, prGranted, prFailed>>

ProfilesNext ==
  \E c \in PrCallers :
    \/ ActivateDiff(c) \/ ActivateFilters(c) \/ ActivateSwap(c)
    \/ AddChannel(c) \/ RemoveChannel(c) \/ SetRuleset(c) \/ HandleSetMethod(c) \/ Rejoined(c)
    \/ SaveReads(c) \/ SaveWrites(c) \/ CreateInserts(c) \/ DeleteChecks(c) \/ DeleteRow(c)
    \/ \E ch \in PrChannels : ActivateLeave(c, ch) \/ HandleLeaveChannel(c, ch)
    \/ \E ch \in PrChannels, ok \in BOOLEAN :
         ActivateJoin(c, ch, ok) \/ HandleJoinChannel(c, ch, ok) \/ Rejoin(c, ch, ok)
    \/ \E p \in PrProfiles :
         \/ HandleActivateProfile(c, p) \/ HandleCreateProfile(c, p) \/ HandleDeleteProfile(c, p)
         \/ \E doc \in PrDocs : ImportProfile(c, p, doc)
    \/ \E rules \in PrRules : HandleSetFilters(c, rules)

ProfilesSpec == ProfilesInit /\ [][ProfilesNext]_prVars

-----------------------------------------------------------------------------
ProfilesTypeOK ==
  /\ \A p \in PrProfiles : HasRow(p) => prStored[p] \in PrDocs
  /\ prDefault \subseteq PrProfiles
  /\ prActive \in [id : PrProfiles, doc : PrDocs]
  /\ prJoined \subseteq PrChannels /\ prFilter \in PrRules

ProfilesAtRest == \A c \in PrCallers : prCall[c] = NoCall

\* "activateMu serializes whole activations so two concurrent switches can't
\* diff against the same stale previous profile and leave the engine joined to
\* a mix of both": when the switches are over, every channel of the active
\* profile is joined unless its join failed, no other is, and the live filter
\* is the profile's.  PrEdits that overlap a switch are left out, and so are
\* switches to a document that does not compile, which are abandoned half-way.
SwitchesCompose ==
  ProfilesAtRest /\ ~prMixed =>
    /\ prJoined = prActive.doc.chans \ prFailed
    /\ prFilter = prActive.doc.rules

\* A profile never holds a channel that was put in another: whatever overlaps,
\* save writes a document under the identifier it was active with.
ProfilesApart ==
  \A p \in PrProfiles : HasRow(p) => p \in DOMAIN prGranted /\ prStored[p].chans \subseteq prGranted[p]

\* "The active profile and the default profile cannot be deleted": a switch or
\* an import that runs between Delete's checks and its DELETE never costs the
\* daemon the profile it starts with.
DefaultKept == prDefault # {} /\ \A p \in prDefault : HasRow(p)

\* "persisting changes to the active profile so a user's channel edits survive
\* a restart": when every request is answered the row holds the active document.
EditsSurvive ==
  ProfilesAtRest /\ HasRow(prActive.id) => prStored[prActive.id].chans = prActive.doc.chans

\* Profiles survive overlapping requests: switches leave the engine and the
\* filter as the active document says, no profile takes over a channel of
\* another, and the default profile is never lost.
ProfilesKept == ProfilesTypeOK /\ SwitchesCompose /\ ProfilesApart /\ DefaultKept
=============================================================================
