--------------------------- MODULE ServicesProofs ---------------------------
(* Services around the feed whose requests overlap: switches and edits of     *)
(* profiles leave the engine and the filter as the active document says, no   *)
(* reply, goroutine or connection of the OBS integration is left behind, and  *)
(* every webhook endpoint is posted its events in order; the tokens of an     *)
(* account survive concurrent refreshes and sign-ins, a code is redeemed      *)
(* once, and Close leaves nothing behind; an installed plugin keeps its       *)
(* files, and a restart brings it back.  For any number of callers.           *)
EXTENDS Profiles, ObsWebSocket, Webhooks, Auth, Plugins,
        FiniteSetTheorems, SequenceTheorems, TLAPS

-----------------------------------------------------------------------------
(* Profiles: the inductive invariant.                                         *)

(* What a caller's request carries at each of its steps. *)
PrCalls ==
  [op : {"idle"}]
  \cup [op : {"activate"}, pc : {"read", "swap"}, id : PrProfiles, doc : PrDocs]
  \cup [op : {"activate"}, pc : {"move"}, id : PrProfiles, doc : PrDocs,
        remove : SUBSET PrChannels, add : SUBSET PrChannels]
  \cup [op : {"join", "leave"}, pc : {"doc"}, ch : PrChannels]
  \cup [op : {"filters"}, pc : {"swap"}, rules : PrRules]
  \cup [op : {"method"}, pc : {"rejoin"}, todo : SUBSET PrChannels]
  \cup [op : PrEdits, pc : {"save"}]
  \cup [op : PrEdits, pc : {"write"}, id : PrProfiles, doc : PrDocs]
  \cup [op : {"create"}, pc : {"insert"}, id : PrProfiles, doc : PrDocs, first : BOOLEAN]
  \cup [op : {"delete"}, pc : {"check", "row"}, id : PrProfiles]
PrTyped ==
  /\ prStored \in [PrProfiles -> PrDocs \cup {NoDoc}]
  /\ prActive \in [id : PrProfiles, doc : PrDocs]
  /\ prJoined \subseteq PrChannels /\ prFailed \subseteq PrChannels /\ prFilter \in PrRules
  /\ prCall \in [PrCallers -> PrCalls] /\ prMixed \in BOOLEAN
  /\ DOMAIN prGranted \subseteq PrProfiles /\ prGranted = [p \in DOMAIN prGranted |-> prGranted[p]]

(* A document that is stored, active or on its way to the table holds only channels
   granted to the profile it goes with.                                       *)
Grants(p, doc) == p \in DOMAIN prGranted /\ doc.chans \subseteq prGranted[p]
Carried(c) ==
  \/ prCall[c].op \in {"activate", "create"}
  \/ prCall[c].op \in PrEdits /\ prCall[c].pc = "write"
PrGranted ==
  /\ \A p \in PrProfiles : HasRow(p) => Grants(p, prStored[p])
  /\ Grants(prActive.id, prActive.doc)
  /\ \A c \in PrCallers : Carried(c) => Grants(prCall[c].id, prCall[c].doc)

(* The default stays the one row that was first, and what is being deleted is another. *)
PrDefaulted ==
  /\ prDefault = {DefaultProfile} /\ HasRow(DefaultProfile)
  /\ \A c \in PrCallers : PrAt(c, "delete", "row") => prCall[c].id # DefaultProfile
  /\ \A c \in PrCallers : prCall[c].op = "create" => ~prCall[c].first

(* One switch at a time; while nothing was mixed an edit is alone, and the engine and
   the filter are where the request in progress has got to.                   *)
Switching(c) == PrAt(c, "activate", "move") \/ PrAt(c, "activate", "swap")
Listing(c) == PrAt(c, "join", "doc") \/ PrAt(c, "leave", "doc")
Filtering(c) == PrAt(c, "activate", "swap") \/ PrAt(c, "filters", "swap")
Joined(S) == prJoined = S \ prFailed
PrSingle == \A c, d \in PrCallers : prCall[c].op = "activate" /\ prCall[d].op = "activate" => c = d
PrProgress(c) ==
  /\ PrAt(c, "activate", "move") =>
       /\ prCall[c].remove \cap prCall[c].doc.chans = {} /\ prCall[c].add \subseteq prCall[c].doc.chans
       /\ Joined((prCall[c].doc.chans \ prCall[c].add) \cup prCall[c].remove)
  /\ PrAt(c, "activate", "swap") => Joined(prCall[c].doc.chans) /\ prFilter = prCall[c].doc.rules
  /\ PrAt(c, "join", "doc") => Joined(prActive.doc.chans \cup {prCall[c].ch}) /\ prCall[c].ch \notin prFailed
  /\ PrAt(c, "leave", "doc") => Joined(prActive.doc.chans \ {prCall[c].ch})
  /\ PrAt(c, "filters", "swap") => prCall[c].rules = prActive.doc.rules
  /\ PrAt(c, "method", "rejoin") => prCall[c].todo \subseteq prActive.doc.chans
PrApplied ==
  ~prMixed =>
    /\ \A c, d \in PrCallers : prCall[c].op \in PrEdits /\ d # c => prCall[d] = NoCall
    /\ (\A c \in PrCallers : ~Switching(c) /\ ~Listing(c)) => Joined(prActive.doc.chans)
    /\ (\A c \in PrCallers : ~Filtering(c)) => prFilter = prActive.doc.rules
    /\ \A c \in PrCallers : PrProgress(c)
PrInv == PrTyped /\ PrGranted /\ PrDefaulted /\ PrSingle /\ PrApplied

-----------------------------------------------------------------------------
(* Profiles: requests.                                                        *)

(* Which kind of request a caller is in says where it can be. *)
LEMMA CallShapes ==
  ASSUME NEW r \in PrCalls
  PROVE  /\ r.op \in {"idle", "activate", "create", "delete"} \cup PrEdits
         /\ r.op = "activate" /\ r.pc # "move" => r \in [op : {"activate"}, pc : {"read", "swap"}, id : PrProfiles, doc : PrDocs]
         /\ r.op = "activate" /\ r.pc = "move" =>
              r \in [op : {"activate"}, pc : {"move"}, id : PrProfiles, doc : PrDocs,
                     remove : SUBSET PrChannels, add : SUBSET PrChannels]
         /\ r.op \in PrEdits /\ r.pc = "write" => r \in [op : PrEdits, pc : {"write"}, id : PrProfiles, doc : PrDocs]
         /\ r.op = "join" /\ r.pc = "doc" => r.ch \in PrChannels
         /\ r.op = "leave" /\ r.pc = "doc" => r.ch \in PrChannels
         /\ r.op = "filters" /\ r.pc = "swap" => r.rules \in PrRules
         /\ r.op = "method" /\ r.pc = "rejoin" => r \in [op : {"method"}, pc : {"rejoin"}, todo : SUBSET PrChannels]
         /\ r.op = "create" =>
              r \in [op : {"create"}, pc : {"insert"}, id : PrProfiles, doc : PrDocs, first : BOOLEAN]
         /\ r.op = "delete" => r \in [op : {"delete"}, pc : {"check", "row"}, id : PrProfiles]
         /\ r.op \in {"activate", "create"} => r.id \in PrProfiles /\ r.doc \in PrDocs
<1>1. CASE r \in [op : {"idle"}]
  BY <1>1 DEF PrEdits
<1>2. CASE r \in [op : {"activate"}, pc : {"read", "swap"}, id : PrProfiles, doc : PrDocs]
  BY <1>2 DEF PrEdits
<1>3. CASE r \in [op : {"activate"}, pc : {"move"}, id : PrProfiles, doc : PrDocs,
                  remove : SUBSET PrChannels, add : SUBSET PrChannels]
  BY <1>3 DEF PrEdits
<1>4. CASE r \in [op : {"join", "leave"}, pc : {"doc"}, ch : PrChannels]
  BY <1>4 DEF PrEdits
<1>5. CASE r \in [op : {"filters"}, pc : {"swap"}, rules : PrRules]
  BY <1>5 DEF PrEdits
<1>6. CASE r \in [op : {"method"}, pc : {"rejoin"}, todo : SUBSET PrChannels]
  BY <1>6 DEF PrEdits
<1>7. CASE r \in [op : PrEdits, pc : {"save"}]
  BY <1>7 DEF PrEdits
<1>8. CASE r \in [op : PrEdits, pc : {"write"}, id : PrProfiles, doc : PrDocs]
  BY <1>8 DEF PrEdits
<1>9. CASE r \in [op : {"create"}, pc : {"insert"}, id : PrProfiles, doc : PrDocs, first : BOOLEAN]
  BY <1>9 DEF PrEdits
<1>10. CASE r \in [op : {"delete"}, pc : {"check", "row"}, id : PrProfiles]
  BY <1>10 DEF PrEdits
<1> QED
  BY <1>1, <1>2, <1>3, <1>4, <1>5, <1>6, <1>7, <1>8, <1>9, <1>10 DEF PrCalls

(* A step of one request leaves the others where they are. *)
LEMMA CallSet ==
  ASSUME PrTyped, NEW c \in PrCallers, NEW r \in PrCalls, prCall' = [prCall EXCEPT ![c] = r]
  PROVE  /\ prCall' \in [PrCallers -> PrCalls] /\ prCall'[c] = r
         /\ \A d \in PrCallers : d # c => prCall'[d] = prCall[d]
BY DEF PrTyped

(* What a step has to show when it moves request c and grants nothing. *)
LEMMA GrantFrame ==
  ASSUME PrTyped, PrGranted, NEW c \in PrCallers, NEW r \in PrCalls, prCall' = [prCall EXCEPT ![c] = r],
         UNCHANGED <<prStored, prActive, prGranted>>,
         r.op \in {"activate", "create"} \/ (r.op \in PrEdits /\ r.pc = "write") => Grants(r.id, r.doc)
  PROVE  PrGranted'
<1>1. prCall'[c] = r /\ \A d \in PrCallers : d # c => prCall'[d] = prCall[d]
  BY CallSet
<1>2. \A d \in PrCallers : Carried(d)' => Grants(prCall'[d].id, prCall'[d].doc)
  BY <1>1 DEF PrGranted, Carried
<1>3. \A p, doc : Grants(p, doc)' <=> Grants(p, doc)
  BY DEF Grants
<1> QED
  BY <1>2, <1>3 DEF PrGranted, HasRow, Grants

LEMMA DefaultFrame ==
  ASSUME PrTyped, PrDefaulted, NEW c \in PrCallers, NEW r \in PrCalls, prCall' = [prCall EXCEPT ![c] = r],
         prDefault' = prDefault, HasRow(DefaultProfile)',
         r.op = "delete" /\ r.pc = "row" => r.id # DefaultProfile,
         r.op = "create" => ~r.first
  PROVE  PrDefaulted'
<1>1. prCall'[c] = r /\ \A d \in PrCallers : d # c => prCall'[d] = prCall[d]
  BY CallSet
<1> QED
  BY <1>1 DEF PrDefaulted, PrAt

LEMMA SingleFrame ==
  ASSUME PrTyped, PrSingle, NEW c \in PrCallers, NEW r \in PrCalls, prCall' = [prCall EXCEPT ![c] = r],
         r.op = "activate" => prCall[c].op = "activate" \/ \A d \in PrCallers : prCall[d].op # "activate"
  PROVE  PrSingle'
<1>1. prCall'[c] = r /\ \A d \in PrCallers : d # c => prCall'[d] = prCall[d]
  BY CallSet
<1> QED
  BY <1>1 DEF PrSingle

(* A step that moves request c between states in which engine and filter agree with the
   active document.                                                           *)
Plain(r) ==
  /\ r.op = "activate" => r.pc = "read"
  /\ r.op \in {"join", "leave"} => r.pc # "doc"
  /\ r.op = "filters" => r.pc # "swap"
Alone(c, r) ==
  /\ r.op \in PrEdits => \A d \in PrCallers : d # c => prCall[d] = NoCall
  /\ r # NoCall => \A d \in PrCallers : d # c => prCall[d].op \notin PrEdits
LEMMA AppliedFrame ==
  ASSUME PrTyped, PrApplied, NEW c \in PrCallers, NEW r \in PrCalls, prCall' = [prCall EXCEPT ![c] = r],
         ~prMixed' => ~prMixed /\ Alone(c, r),
         UNCHANGED <<prActive, prJoined, prFilter, prFailed>>,
         Plain(prCall[c]), Plain(r),
         ~prMixed /\ r.op = "method" /\ r.pc = "rejoin" => r.todo \subseteq prActive.doc.chans
  PROVE  PrApplied'
<1>1. prCall'[c] = r /\ \A d \in PrCallers : d # c => prCall'[d] = prCall[d]
  BY CallSet
<1> SUFFICES ASSUME ~prMixed' PROVE
      /\ \A b, d \in PrCallers : prCall'[b].op \in PrEdits /\ d # b => prCall'[d] = NoCall
      /\ (\A b \in PrCallers : ~Switching(b)' /\ ~Listing(b)') => Joined(prActive.doc.chans)'
      /\ (\A b \in PrCallers : ~Filtering(b)') => prFilter = prActive.doc.rules
      /\ \A b \in PrCallers : PrProgress(b)'
  BY DEF PrApplied
<1>2. ~prMixed /\ Alone(c, r)
  OBVIOUS
<1>3. \A b, d \in PrCallers : prCall'[b].op \in PrEdits /\ d # b => prCall'[d] = NoCall
  <2> SUFFICES ASSUME NEW b \in PrCallers, NEW d \in PrCallers, prCall'[b].op \in PrEdits, d # b
               PROVE  prCall'[d] = NoCall
    OBVIOUS
  <2>1. CASE b = c
    BY <1>1, <1>2, <2>1 DEF Alone
  <2>2. CASE b # c /\ d = c
    BY <1>1, <1>2, <2>2 DEF Alone
  <2>3. CASE b # c /\ d # c
    BY <1>1, <1>2, <2>3 DEF PrApplied
  <2> QED
    BY <2>1, <2>2, <2>3
<1>4. /\ ~Switching(c) /\ ~Listing(c) /\ ~Filtering(c)
      /\ ~Switching(c)' /\ ~Listing(c)' /\ ~Filtering(c)'
  BY <1>1 DEF Plain, Switching, Listing, Filtering, PrAt
<1>5. \A d \in PrCallers : /\ Switching(d)' <=> Switching(d)
                           /\ Listing(d)' <=> Listing(d)
                           /\ Filtering(d)' <=> Filtering(d)
  BY <1>1, <1>4 DEF Switching, Listing, Filtering, PrAt
<1>6. PrProgress(c)'
  BY <1>1, <1>2 DEF PrProgress, Plain, PrAt
<1>7. \A d \in PrCallers : d # c => PrProgress(d)'
  BY <1>1, <1>2 DEF PrApplied, PrProgress, PrAt, Joined
<1>8. \A S : Joined(S)' <=> Joined(S)
  BY DEF Joined
<1> QED
  BY <1>2, <1>3, <1>5, <1>6, <1>7, <1>8 DEF PrApplied

(* A step of the one request that switches or edits. *)
Passive(d) == prCall[d].op \notin {"activate"} \cup PrEdits
LEMMA OthersPassive ==
  ASSUME PrInv, NEW c \in PrCallers, ~prMixed, prCall[c].op \in {"activate"} \cup PrEdits
  PROVE  \A d \in PrCallers : d # c => Passive(d) /\ (prCall[c].op \in PrEdits => prCall[d] = NoCall)
BY DEF PrInv, PrApplied, PrSingle, Passive, NoCall, PrEdits

LEMMA AppliedOne ==
  ASSUME PrTyped, NEW c \in PrCallers, NEW r \in PrCalls, prCall' = [prCall EXCEPT ![c] = r],
         ~prMixed' =>
           /\ \A d \in PrCallers : d # c => Passive(d) /\ (r.op \in PrEdits => prCall[d] = NoCall)
           /\ ~Switching(c)' /\ ~Listing(c)' => Joined(prActive.doc.chans)'
           /\ ~Filtering(c)' => prFilter' = prActive'.doc.rules
           /\ PrProgress(c)'
  PROVE  PrApplied'
<1>1. prCall'[c] = r /\ \A d \in PrCallers : d # c => prCall'[d] = prCall[d]
  BY CallSet
<1>2. ASSUME NEW d \in PrCallers, d # c, Passive(d)
      PROVE  PrProgress(d)' /\ prCall'[d].op \notin PrEdits
  BY <1>1, <1>2 DEF Passive, PrProgress, PrAt, PrEdits
<1> QED
  BY <1>1, <1>2 DEF PrApplied

LEMMA BeginFacts ==
  ASSUME PrTyped, NEW c \in PrCallers, NEW r, PrBegin(c, r)
  PROVE  /\ prCall[c] = NoCall /\ prCall' = [prCall EXCEPT ![c] = r] /\ prMixed' \in BOOLEAN
         /\ ~prMixed' => ~prMixed /\ Alone(c, r)
<1>1. /\ prCall[c] = NoCall /\ prCall' = [prCall EXCEPT ![c] = r]
      /\ prMixed' = (prMixed \/ PrBusy(PrEdits)
                       \/ (r.op \in PrEdits /\ \E d \in PrCallers : prCall[d] # NoCall))
  BY DEF PrBegin
<1>2. prMixed' \in BOOLEAN
  BY <1>1 DEF PrTyped
<1>3. ~prMixed' => Alone(c, r)
  BY <1>1 DEF Alone, PrBusy
<1> QED
  BY <1>1, <1>2, <1>3

LEMMA PlainIdle == NoCall \in PrCalls /\ Plain(NoCall) /\ NoCall.op = "idle"
BY DEF NoCall, PrCalls, Plain

(* A step that changes no document, neither engine nor filter. *)
LEMMA QuietRequest ==
  ASSUME PrInv, NEW c \in PrCallers, NEW r \in PrCalls, prCall' = [prCall EXCEPT ![c] = r],
         prMixed' \in BOOLEAN, ~prMixed' => ~prMixed /\ Alone(c, r),
         UNCHANGED <<prStored, prDefault, prActive, prJoined, prFilter, prFailed, prGranted>>,
         Plain(prCall[c]), Plain(r),
         ~prMixed /\ r.op = "method" /\ r.pc = "rejoin" => r.todo \subseteq prActive.doc.chans,
         r.op \in {"activate", "create"} \/ (r.op \in PrEdits /\ r.pc = "write") => Grants(r.id, r.doc),
         r.op = "delete" /\ r.pc = "row" => r.id # DefaultProfile,
         r.op = "create" => ~r.first,
         r.op = "activate" => \A d \in PrCallers : prCall[d].op # "activate"
  PROVE  PrInv'
<1>1. PrTyped'
  BY CallSet DEF PrInv, PrTyped
<1>2. PrGranted'
  BY GrantFrame DEF PrInv
<1>3. HasRow(DefaultProfile)'
  BY DEF PrInv, PrDefaulted, HasRow
<1>4. PrDefaulted'
  BY <1>3, DefaultFrame DEF PrInv
<1>5. PrSingle'
  BY SingleFrame DEF PrInv
<1>6. PrApplied'
  BY AppliedFrame DEF PrInv
<1> QED
  BY <1>1, <1>2, <1>4, <1>5, <1>6 DEF PrInv

LEMMA BeginActivate ==
  ASSUME PrInv, NEW c \in PrCallers, NEW p \in PrProfiles, HandleActivateProfile(c, p) PROVE PrInv'
<1> DEFINE r == [op |-> "activate", pc |-> "read", id |-> p, doc |-> prStored[p]]
<1>1. /\ ~SwitchLocked /\ HasRow(p) /\ PrBegin(c, r)
      /\ UNCHANGED <<prStored, prDefault, prActive, prJoined, prFilter, prFailed, prGranted>>
  BY DEF HandleActivateProfile
<1>2. prStored[p] \in PrDocs /\ Grants(p, prStored[p])
  BY <1>1 DEF PrInv, PrTyped, PrGranted, HasRow
<1>3. r \in PrCalls /\ Plain(r) /\ r.op = "activate" /\ r.id = p /\ r.doc = prStored[p]
  BY <1>2 DEF PrCalls, Plain
<1>4. \A d \in PrCallers : prCall[d].op # "activate"
  BY <1>1 DEF SwitchLocked, PrBusy
<1> HIDE DEF r
<1>5. /\ prCall[c] = NoCall /\ prCall' = [prCall EXCEPT ![c] = r] /\ prMixed' \in BOOLEAN
      /\ ~prMixed' => ~prMixed /\ Alone(c, r)
  BY <1>1, BeginFacts DEF PrInv
<1>6. Plain(prCall[c])
  BY <1>5, PlainIdle
<1> QED
  BY <1>1, <1>2, <1>3, <1>4, <1>5, <1>6, QuietRequest

LEMMA BeginOthers ==
  ASSUME PrInv, NEW c \in PrCallers, HandleSetMethod(c) \/ \E p \in PrProfiles : HandleDeleteProfile(c, p)
  PROVE  PrInv'
<1>1. CASE HandleSetMethod(c)
  <2> DEFINE r == [op |-> "method", pc |-> "rejoin", todo |-> prActive.doc.chans]
  <2>1. PrBegin(c, r) /\ UNCHANGED <<prStored, prDefault, prActive, prJoined, prFilter, prFailed, prGranted>>
    BY <1>1 DEF HandleSetMethod
  <2>2. prActive.doc.chans \in SUBSET PrChannels
    BY DEF PrInv, PrTyped, PrDocs
  <2>3. r \in PrCalls /\ Plain(r) /\ r.op = "method" /\ r.todo = prActive.doc.chans /\ r.pc = "rejoin"
    BY <2>2 DEF PrCalls, Plain
  <2> HIDE DEF r
  <2>4. /\ prCall[c] = NoCall /\ prCall' = [prCall EXCEPT ![c] = r] /\ prMixed' \in BOOLEAN
        /\ ~prMixed' => ~prMixed /\ Alone(c, r)
    BY <2>1, BeginFacts DEF PrInv
  <2>5. Plain(prCall[c])
    BY <2>4, PlainIdle
  <2> QED
    BY <2>1, <2>3, <2>4, <2>5, QuietRequest
<1>2. ASSUME NEW p \in PrProfiles, HandleDeleteProfile(c, p) PROVE PrInv'
  <2> DEFINE r == [op |-> "delete", pc |-> "check", id |-> p]
  <2>1. PrBegin(c, r) /\ UNCHANGED <<prStored, prDefault, prActive, prJoined, prFilter, prFailed, prGranted>>
    BY <1>2 DEF HandleDeleteProfile
  <2>2. r \in PrCalls /\ Plain(r) /\ r.op = "delete" /\ r.pc = "check" /\ r.op \notin PrEdits
    BY DEF PrCalls, Plain, PrEdits
  <2> HIDE DEF r
  <2>3. /\ prCall[c] = NoCall /\ prCall' = [prCall EXCEPT ![c] = r] /\ prMixed' \in BOOLEAN
        /\ ~prMixed' => ~prMixed /\ Alone(c, r)
    BY <2>1, BeginFacts DEF PrInv
  <2>4. Plain(prCall[c])
    BY <2>3, PlainIdle
  <2> QED
    BY <2>1, <2>2, <2>3, <2>4, QuietRequest
<1> QED
  BY <1>1, <1>2

LEMMA CreateBegins ==
  ASSUME PrInv, NEW c \in PrCallers, NEW p \in PrProfiles, NEW doc \in PrDocs, BeginCreate(c, p, doc)
  PROVE  PrInv'
<1> DEFINE r == [op |-> "create", pc |-> "insert", id |-> p, doc |-> doc, first |-> \A q \in PrProfiles : ~HasRow(q)]
<1>1. /\ p \notin DOMAIN prGranted /\ PrBegin(c, r)
      /\ prGranted' = [q \in DOMAIN prGranted \cup {p} |-> IF q = p THEN doc.chans ELSE prGranted[q]]
      /\ UNCHANGED <<prStored, prDefault, prActive, prJoined, prFilter, prFailed>>
  BY DEF BeginCreate
<1>2. (\A q \in PrProfiles : ~HasRow(q)) = FALSE
  BY ProfilesConstants DEF PrInv, PrDefaulted
<1>3. r \in PrCalls /\ Plain(r) /\ r.op = "create" /\ ~r.first /\ r.op \notin PrEdits /\ r.id = p /\ r.doc = doc
  BY <1>2 DEF PrCalls, Plain, PrEdits
<1> HIDE DEF r
<1>4. /\ prCall[c] = NoCall /\ prCall' = [prCall EXCEPT ![c] = r] /\ prMixed' \in BOOLEAN
      /\ ~prMixed' => ~prMixed /\ Alone(c, r)
  BY <1>1, BeginFacts DEF PrInv
<1>5. Plain(prCall[c])
  BY <1>4, PlainIdle
<1>6. prCall'[c] = r /\ \A d \in PrCallers : d # c => prCall'[d] = prCall[d]
  BY <1>3, <1>4, CallSet DEF PrInv
<1>7. \A q \in DOMAIN prGranted : q \in DOMAIN prGranted' /\ prGranted'[q] = prGranted[q]
  BY <1>1
<1>8. p \in DOMAIN prGranted' /\ prGranted'[p] = doc.chans
  BY <1>1
<1>9. PrTyped'
  BY <1>1, <1>3, <1>4, CallSet DEF PrInv, PrTyped
<1>10. PrGranted'
  <2>1. ASSUME NEW d \in PrCallers, Carried(d)'
        PROVE  /\ prCall'[d].id \in DOMAIN prGranted'
               /\ prCall'[d].doc.chans \subseteq prGranted'[prCall'[d].id]
    <3>1. CASE d = c
      BY <1>3, <1>6, <1>8, <3>1
    <3>2. CASE d # c
      <4>1. prCall'[d] = prCall[d]
        BY <1>6, <3>2
      <4>2. Carried(d)
        BY <2>1, <4>1 DEF Carried
      <4>3. Grants(prCall[d].id, prCall[d].doc)
        BY <4>2 DEF PrInv, PrGranted
      <4> QED
        BY <1>7, <4>1, <4>3 DEF Grants
    <3> QED
      BY <3>1, <3>2
  <2>2. \A q \in PrProfiles : HasRow(q)' => Grants(q, prStored[q])
    BY <1>1 DEF PrInv, PrGranted, HasRow
  <2>3. Grants(prActive.id, prActive.doc)
    BY DEF PrInv, PrGranted
  <2> QED
    BY <1>1, <1>7, <2>1, <2>2, <2>3 DEF PrGranted, Grants
<1>11. PrDefaulted'
  <2>1. HasRow(DefaultProfile)'
    BY <1>1 DEF PrInv, PrDefaulted, HasRow
  <2> QED
    BY <1>1, <1>3, <1>4, <2>1, DefaultFrame DEF PrInv
<1>12. PrSingle'
  BY <1>3, <1>4, SingleFrame DEF PrInv
<1>13. PrApplied'
  BY <1>1, <1>3, <1>4, <1>5, AppliedFrame DEF PrInv
<1> QED
  BY <1>9, <1>10, <1>11, <1>12, <1>13 DEF PrInv

(* A request that goes on stays alone if it is an edit. *)
LEMMA AloneStays ==
  ASSUME PrInv, ~prMixed, NEW c \in PrCallers, NEW r, prCall[c] # NoCall,
         r.op \in PrEdits => prCall[c].op \in PrEdits
  PROVE  Alone(c, r)
<1>1. \A d \in PrCallers : d # c => prCall[d].op \notin PrEdits
  BY DEF PrInv, PrApplied
<1>2. r.op \in PrEdits => \A d \in PrCallers : d # c => prCall[d] = NoCall
  BY DEF PrInv, PrApplied
<1> QED
  BY <1>1, <1>2 DEF Alone

LEMMA QuietGoesOn ==
  ASSUME PrInv, NEW c \in PrCallers, SaveReads(c) \/ Rejoined(c) \/ DeleteChecks(c) PROVE PrInv'
<1>0. Plain(NoCall) /\ NoCall.op = "idle" /\ NoCall \in PrCalls
  BY PlainIdle
<1>1. CASE SaveReads(c)
  <2> DEFINE r == [op |-> prCall[c].op, pc |-> "write", id |-> prActive.id, doc |-> prActive.doc]
  <2>1. /\ prCall[c].op \in PrEdits /\ prCall[c].pc = "save" /\ prCall' = [prCall EXCEPT ![c] = r]
        /\ UNCHANGED <<prMixed, prStored, prDefault, prActive, prJoined, prFilter, prFailed, prGranted>>
    BY <1>1 DEF SaveReads, PrGoto
  <2>2. r \in PrCalls
    BY <2>1 DEF PrInv, PrTyped, PrCalls
  <2>3. Plain(r) /\ Plain(prCall[c]) /\ prCall[c] # NoCall
    BY <2>1 DEF Plain, PrEdits, NoCall
  <2>4. /\ r.op = prCall[c].op /\ r.pc = "write" /\ r.id = prActive.id /\ r.doc = prActive.doc
        /\ r.op \notin {"activate", "create", "delete"}
    BY <2>1 DEF PrEdits
  <2>5. Grants(r.id, r.doc)
    BY <2>4 DEF PrInv, PrGranted
  <2> HIDE DEF r
  <2>6. ~prMixed => Alone(c, r)
    BY <2>1, <2>3, AloneStays
  <2>7. prMixed' \in BOOLEAN
    BY <2>1 DEF PrInv, PrTyped
  <2> QED
    BY <2>1, <2>2, <2>3, <2>4, <2>5, <2>6, <2>7, QuietRequest
<1>2. CASE Rejoined(c)
  <2> DEFINE r == [op |-> "method", pc |-> "save"]
  <2>1. /\ prCall[c].op = "method" /\ prCall[c].pc = "rejoin" /\ prCall' = [prCall EXCEPT ![c] = r]
        /\ UNCHANGED <<prMixed, prStored, prDefault, prActive, prJoined, prFilter, prFailed, prGranted>>
    BY <1>2 DEF Rejoined, PrGoto, PrAt
  <2>2. r \in PrCalls /\ Plain(r) /\ r.op = "method" /\ r.pc = "save" /\ "method" \in PrEdits
    BY DEF PrCalls, PrEdits, Plain
  <2>3. Plain(prCall[c]) /\ prCall[c] # NoCall
    BY <2>1 DEF Plain, PrEdits, NoCall
  <2> HIDE DEF r
  <2>4. ~prMixed => Alone(c, r)
    BY <2>1, <2>2, <2>3, AloneStays
  <2>5. prMixed' \in BOOLEAN
    BY <2>1 DEF PrInv, PrTyped
  <2> QED
    BY <2>1, <2>2, <2>3, <2>4, <2>5, QuietRequest
<1>3. CASE DeleteChecks(c)
  <2>1. /\ prCall[c].op = "delete" /\ prCall[c].pc = "check"
        /\ UNCHANGED <<prMixed, prStored, prDefault, prActive, prJoined, prFilter, prFailed, prGranted>>
        /\ IF MayDelete(prCall[c].id) THEN prCall' = [prCall EXCEPT ![c] = [prCall[c] EXCEPT !.pc = "row"]]
           ELSE prCall' = [prCall EXCEPT ![c] = NoCall]
    BY <1>3 DEF DeleteChecks, PrGoto, PrReturn, PrAt
  <2>2. Plain(prCall[c]) /\ prCall[c] # NoCall /\ prMixed' \in BOOLEAN
    BY <2>1 DEF Plain, NoCall, PrInv, PrTyped
  <2>3. CASE MayDelete(prCall[c].id)
    <3>1. prCall[c] \in [op : {"delete"}, pc : {"check", "row"}, id : PrProfiles]
      BY <2>1, CallShapes DEF PrInv, PrTyped
    <3>2. PICK r : r = [prCall[c] EXCEPT !.pc = "row"]
      OBVIOUS
    <3>3. r \in [op : {"delete"}, pc : {"check", "row"}, id : PrProfiles] /\ r.op = "delete" /\ r.id = prCall[c].id
      BY <3>1, <3>2
    <3>4. r \in PrCalls /\ Plain(r) /\ r.op \notin PrEdits
      BY <3>3 DEF PrCalls, Plain, PrEdits
    <3>5. r.id # DefaultProfile
      BY <2>3, <3>3 DEF MayDelete, PrInv, PrDefaulted
    <3>6. ~prMixed => Alone(c, r)
      BY <2>2, <3>4, AloneStays
    <3>7. prCall' = [prCall EXCEPT ![c] = r]
      BY <2>1, <2>3, <3>2
    <3> QED
      BY <2>1, <2>2, <3>3, <3>4, <3>5, <3>6, <3>7, QuietRequest
  <2>4. CASE ~MayDelete(prCall[c].id)
    <3>1. prCall' = [prCall EXCEPT ![c] = NoCall]
      BY <2>1, <2>4
    <3>2. NoCall.op \notin PrEdits
      BY <1>0 DEF PrEdits
    <3>3. ~prMixed => Alone(c, NoCall)
      BY <2>2, <3>2, AloneStays
    <3> QED
      BY <1>0, <2>1, <2>2, <3>1, <3>2, <3>3, QuietRequest
  <2> QED
    BY <2>3, <2>4
<1> QED
  BY <1>1, <1>2, <1>3

(* A step that writes a row of the table. *)
LEMMA RowWritten ==
  ASSUME PrInv, NEW c \in PrCallers, NEW p \in PrProfiles, NEW doc \in PrDocs \cup {NoDoc},
         doc = NoDoc => p # DefaultProfile,
         doc # NoDoc => Grants(p, doc),
         prStored' = [prStored EXCEPT ![p] = doc] \/ prStored' = prStored,
         prDefault' = prDefault, prCall' = [prCall EXCEPT ![c] = NoCall], prCall[c] # NoCall, Plain(prCall[c]),
         UNCHANGED <<prMixed, prActive, prJoined, prFilter, prFailed, prGranted>>
  PROVE  PrInv'
<1>0. Plain(NoCall) /\ NoCall.op = "idle" /\ NoCall \in PrCalls /\ "idle" \notin PrEdits
  BY PlainIdle DEF PrEdits
<1>1. prStored \in [PrProfiles -> PrDocs \cup {NoDoc}]
  BY DEF PrInv, PrTyped
<1>2. /\ prStored' \in [PrProfiles -> PrDocs \cup {NoDoc}]
      /\ \A q \in PrProfiles : prStored'[q] = prStored[q] \/ (q = p /\ prStored'[q] = doc)
  BY <1>1
<1>3. PrTyped'
  BY <1>0, <1>2, CallSet DEF PrInv, PrTyped
<1>4. prCall'[c] = NoCall /\ \A d \in PrCallers : d # c => prCall'[d] = prCall[d]
  BY <1>0, CallSet DEF PrInv
<1>5. PrGranted'
  <2>1. \A d \in PrCallers : Carried(d)' => Carried(d) /\ prCall'[d] = prCall[d]
    BY <1>0, <1>4 DEF Carried
  <2>2. \A d \in PrCallers : Carried(d)' => Grants(prCall'[d].id, prCall'[d].doc)
    BY <2>1 DEF PrInv, PrGranted
  <2>3. \A q \in PrProfiles : HasRow(q)' => Grants(q, prStored'[q])
    BY <1>2 DEF PrInv, PrGranted, HasRow
  <2>4. Grants(prActive.id, prActive.doc)
    BY DEF PrInv, PrGranted
  <2> QED
    BY <2>2, <2>3, <2>4 DEF PrGranted, Grants
<1>6. PrDefaulted'
  <2>1. HasRow(DefaultProfile)'
    BY <1>2, ProfilesConstants DEF PrInv, PrDefaulted, HasRow
  <2> QED
    BY <1>0, <2>1, DefaultFrame DEF PrInv
<1>7. PrSingle'
  BY <1>0, SingleFrame DEF PrInv
<1>8. ~prMixed => Alone(c, NoCall)
  BY <1>0, AloneStays
<1>9. PrApplied'
  BY <1>0, <1>8, AppliedFrame DEF PrInv
<1> QED
  BY <1>3, <1>5, <1>6, <1>7, <1>9 DEF PrInv

LEMMA RowSteps ==
  ASSUME PrInv, NEW c \in PrCallers, SaveWrites(c) \/ CreateInserts(c) \/ DeleteRow(c) PROVE PrInv'
<1>0. /\ prCall[c] \in PrCalls
      /\ NoDoc \notin PrDocs
  BY ProfilesConstants DEF PrInv, PrTyped, PrDocs, NoDoc
<1>1. CASE SaveWrites(c)
  <2>1. /\ prCall[c].op \in PrEdits /\ prCall[c].pc = "write" /\ prCall' = [prCall EXCEPT ![c] = NoCall]
        /\ prStored' = (IF HasRow(prCall[c].id) THEN [prStored EXCEPT ![prCall[c].id] = prCall[c].doc] ELSE prStored)
        /\ UNCHANGED <<prMixed, prDefault, prActive, prJoined, prFilter, prFailed, prGranted>>
    BY <1>1 DEF SaveWrites, PrReturn, PrGoto
  <2>2. prCall[c].id \in PrProfiles /\ prCall[c].doc \in PrDocs
    BY <1>0, <2>1, CallShapes
  <2>3. Grants(prCall[c].id, prCall[c].doc)
    BY <2>1 DEF PrInv, PrGranted, Carried
  <2>4. Plain(prCall[c]) /\ prCall[c] # NoCall
    BY <2>1 DEF Plain, PrEdits, NoCall
  <2> QED
    BY <1>0, <2>1, <2>2, <2>3, <2>4, RowWritten
<1>2. CASE CreateInserts(c)
  <2>1. /\ prCall[c].op = "create" /\ prCall' = [prCall EXCEPT ![c] = NoCall]
        /\ prStored' = [prStored EXCEPT ![prCall[c].id] = prCall[c].doc]
        /\ prDefault' = (IF prCall[c].first THEN prDefault \cup {prCall[c].id} ELSE prDefault)
        /\ UNCHANGED <<prMixed, prActive, prJoined, prFilter, prFailed, prGranted>>
    BY <1>2 DEF CreateInserts, PrReturn, PrGoto, PrAt
  <2>2. prCall[c].id \in PrProfiles /\ prCall[c].doc \in PrDocs /\ ~prCall[c].first
    BY <1>0, <2>1, CallShapes DEF PrInv, PrDefaulted
  <2>3. Grants(prCall[c].id, prCall[c].doc)
    BY <2>1 DEF PrInv, PrGranted, Carried
  <2>4. Plain(prCall[c]) /\ prCall[c] # NoCall
    BY <2>1 DEF Plain, PrEdits, NoCall
  <2> QED
    BY <1>0, <2>1, <2>2, <2>3, <2>4, RowWritten
<1>3. CASE DeleteRow(c)
  <2>1. /\ PrAt(c, "delete", "row") /\ prCall[c].op = "delete" /\ prCall' = [prCall EXCEPT ![c] = NoCall]
        /\ prStored' = [prStored EXCEPT ![prCall[c].id] = NoDoc]
        /\ prDefault' = prDefault \ {prCall[c].id}
        /\ UNCHANGED <<prMixed, prActive, prJoined, prFilter, prFailed, prGranted>>
    BY <1>3 DEF DeleteRow, PrReturn, PrGoto, PrAt
  <2>2. prCall[c].id \in PrProfiles
    BY <1>0, <2>1, CallShapes
  <2>3. prCall[c].id # DefaultProfile /\ prDefault = {DefaultProfile}
    BY <2>1 DEF PrInv, PrDefaulted
  <2>4. Plain(prCall[c]) /\ prCall[c] # NoCall
    BY <2>1 DEF Plain, NoCall
  <2>5. prDefault' = prDefault
    BY <2>1, <2>3
  <2> QED
    BY <1>0, <2>1, <2>2, <2>3, <2>4, <2>5, RowWritten
<1> QED
  BY <1>1, <1>2, <1>3

(* A step of the request that switches or edits; no row is written. *)
LEMMA BusyStep ==
  ASSUME PrInv, NEW c \in PrCallers, NEW r \in PrCalls, prCall' = [prCall EXCEPT ![c] = r],
         prMixed' \in BOOLEAN, UNCHANGED <<prStored, prDefault>>,
         prActive' \in [id : PrProfiles, doc : PrDocs],
         prJoined' \subseteq PrChannels, prFailed' \subseteq PrChannels, prFilter' \in PrRules,
         DOMAIN prGranted' = DOMAIN prGranted, prGranted' = [p \in DOMAIN prGranted' |-> prGranted'[p]],
         \A p \in DOMAIN prGranted : prGranted[p] \subseteq prGranted'[p],
         prActive'.id \in DOMAIN prGranted, prActive'.doc.chans \subseteq prGranted'[prActive'.id],
         r.op \notin {"create", "delete"}, r.op \in PrEdits => r.pc # "write",
         r.op = "activate" => prCall[c].op = "activate" /\ Grants(r.id, r.doc),
         ~prMixed' =>
           /\ \A d \in PrCallers : d # c => Passive(d) /\ (r.op \in PrEdits => prCall[d] = NoCall)
           /\ ~Switching(c)' /\ ~Listing(c)' => Joined(prActive.doc.chans)'
           /\ ~Filtering(c)' => prFilter' = prActive'.doc.rules
           /\ PrProgress(c)'
  PROVE  PrInv'
<1>1. PrTyped'
  BY CallSet DEF PrInv, PrTyped
<1>2. prCall'[c] = r /\ \A d \in PrCallers : d # c => prCall'[d] = prCall[d]
  BY CallSet DEF PrInv
<1>3. PrGranted'
  <2>1. ASSUME NEW d \in PrCallers, Carried(d)' PROVE Grants(prCall'[d].id, prCall'[d].doc)
    <3>1. CASE d = c
      BY <1>2, <2>1, <3>1 DEF Carried
    <3>2. CASE d # c
      <4>1. prCall'[d] = prCall[d]
        BY <1>2, <3>2
      <4>2. Carried(d)
        BY <2>1, <4>1 DEF Carried
      <4> QED
        BY <4>1, <4>2 DEF PrInv, PrGranted
    <3> QED
      BY <3>1, <3>2
  <2>2. \A q \in PrProfiles : HasRow(q)' => Grants(q, prStored[q])
    BY DEF PrInv, PrGranted, HasRow
  <2> QED
    BY <2>1, <2>2 DEF PrGranted, Grants
<1>4. PrDefaulted'
  <2>1. HasRow(DefaultProfile)'
    BY DEF PrInv, PrDefaulted, HasRow
  <2> QED
    BY <2>1, DefaultFrame DEF PrInv
<1>5. PrSingle'
  BY SingleFrame DEF PrInv
<1>6. PrApplied'
  BY AppliedOne DEF PrInv
<1> QED
  BY <1>1, <1>3, <1>4, <1>5, <1>6 DEF PrInv

(* What holds of every state, for a step that changes some of it. *)
LEMMA BusyTypes ==
  ASSUME PrInv
  PROVE  /\ prActive \in [id : PrProfiles, doc : PrDocs] /\ prActive.doc.chans \subseteq PrChannels
         /\ prJoined \subseteq PrChannels /\ prFailed \subseteq PrChannels /\ prFilter \in PrRules
         /\ prGranted = [p \in DOMAIN prGranted |-> prGranted[p]]
         /\ prActive.id \in DOMAIN prGranted /\ prActive.doc.chans \subseteq prGranted[prActive.id]
         /\ prCall \in [PrCallers -> PrCalls] /\ prMixed \in BOOLEAN
BY DEF PrInv, PrTyped, PrGranted, Grants, PrDocs

LEMMA SwitchDiff == ASSUME PrInv, NEW c \in PrCallers, ActivateDiff(c) PROVE PrInv'
<1> DEFINE next == prCall[c].doc.chans
           r == [op |-> "activate", pc |-> "move", id |-> prCall[c].id, doc |-> prCall[c].doc,
                 remove |-> DiffRemoved(prActive.doc.chans, next), add |-> DiffAdded(prActive.doc.chans, next)]
<1>1. /\ prCall[c].op = "activate" /\ prCall[c].pc = "read" /\ prCall' = [prCall EXCEPT ![c] = r]
      /\ UNCHANGED <<prMixed, prStored, prDefault, prActive, prJoined, prFilter, prFailed, prGranted>>
  BY DEF ActivateDiff, PrGoto, PrAt
<1>2. prCall[c].id \in PrProfiles /\ prCall[c].doc \in PrDocs /\ Grants(prCall[c].id, prCall[c].doc)
  BY <1>1, CallShapes, BusyTypes DEF PrInv, PrGranted, Carried
<1>3. next \subseteq PrChannels
  BY <1>2 DEF PrDocs
<1>4. /\ r \in PrCalls /\ r.op = "activate" /\ r.pc = "move" /\ r.id = prCall[c].id /\ r.doc = prCall[c].doc
      /\ r.op \notin PrEdits
      /\ r.remove = prActive.doc.chans \ next /\ r.add = next \ prActive.doc.chans
  BY <1>2, <1>3, BusyTypes DEF PrCalls, DiffRemoved, DiffAdded, PrEdits
<1> HIDE DEF r
<1>5. prCall'[c] = r
  BY <1>1, <1>4, CallSet DEF PrInv
<1>6. ASSUME ~prMixed
      PROVE  /\ \A d \in PrCallers : d # c => Passive(d)
             /\ ~Filtering(c)' /\ prFilter = prActive.doc.rules
             /\ Switching(c)' /\ PrProgress(c)'
  <2>1. \A d \in PrCallers : d # c => Passive(d)
    BY <1>1, <1>6, OthersPassive
  <2>2. \A d \in PrCallers : ~Switching(d) /\ ~Listing(d) /\ ~Filtering(d)
    BY <1>1, <2>1 DEF Passive, Switching, Listing, Filtering, PrAt, PrEdits
  <2>3. Joined(prActive.doc.chans) /\ prFilter = prActive.doc.rules
    BY <1>6, <2>2 DEF PrInv, PrApplied
  <2>4. /\ r.remove \cap r.doc.chans = {} /\ r.add \subseteq r.doc.chans
        /\ (r.doc.chans \ r.add) \cup r.remove = prActive.doc.chans
    BY <1>4
  <2>5. Switching(c)' /\ ~Filtering(c)'
    BY <1>4, <1>5 DEF Switching, Filtering, PrAt
  <2>6. PrProgress(c)'
    BY <1>1, <1>4, <1>5, <2>3, <2>4 DEF PrProgress, PrAt, Joined
  <2> QED
    BY <2>1, <2>3, <2>5, <2>6
<1> QED
  BY <1>1, <1>2, <1>4, <1>6, BusyTypes, BusyStep

(* The engine leaves or joins a channel of the switch. *)
LEMMA SwitchMoves ==
  ASSUME PrInv, NEW c \in PrCallers, NEW ch \in PrChannels,
         ActivateLeave(c, ch) \/ \E ok \in BOOLEAN : ActivateJoin(c, ch, ok)
  PROVE  PrInv'
<1>1. /\ PrAt(c, "activate", "move") /\ prCall[c].op = "activate" /\ prCall[c].pc = "move"
      /\ UNCHANGED <<prMixed, prStored, prDefault, prActive, prFilter, prGranted>>
  BY DEF ActivateLeave, ActivateJoin, PrAt, PrGoto
<1>2. /\ prCall[c] \in [op : {"activate"}, pc : {"move"}, id : PrProfiles, doc : PrDocs,
                        remove : SUBSET PrChannels, add : SUBSET PrChannels]
      /\ Grants(prCall[c].id, prCall[c].doc)
  BY <1>1, CallShapes, BusyTypes DEF PrInv, PrGranted, Carried
<1>3. \E r \in PrCalls :
        /\ prCall' = [prCall EXCEPT ![c] = r]
        /\ r.op = "activate" /\ r.pc = "move" /\ r.id = prCall[c].id /\ r.doc = prCall[c].doc
        /\ \/ /\ ch \in prCall[c].remove /\ r.remove = prCall[c].remove \ {ch} /\ r.add = prCall[c].add
              /\ prJoined' = prJoined \ {ch} /\ prFailed' = prFailed \ {ch}
           \/ /\ ch \in prCall[c].add /\ r.add = prCall[c].add \ {ch} /\ r.remove = prCall[c].remove
              /\ prCall[c].remove = {}
              /\ \/ prJoined' = prJoined \cup {ch} /\ prFailed' = prFailed \ {ch}
                 \/ prJoined' = prJoined \ {ch} /\ prFailed' = prFailed \cup {ch}
  <2>1. CASE ActivateLeave(c, ch)
    <3>1. PICK r : r = [prCall[c] EXCEPT !.remove = @ \ {ch}]
      OBVIOUS
    <3>2. /\ r \in [op : {"activate"}, pc : {"move"}, id : PrProfiles, doc : PrDocs,
                    remove : SUBSET PrChannels, add : SUBSET PrChannels]
          /\ r.remove = prCall[c].remove \ {ch} /\ r.add = prCall[c].add
          /\ r.id = prCall[c].id /\ r.doc = prCall[c].doc /\ r.op = "activate" /\ r.pc = "move"
      BY <1>2, <3>1
    <3>3. /\ ch \in prCall[c].remove /\ prCall' = [prCall EXCEPT ![c] = r]
          /\ prJoined' = prJoined \ {ch} /\ prFailed' = prFailed \ {ch}
      BY <2>1, <3>1 DEF ActivateLeave, PrGoto
    <3>4. r \in PrCalls
      BY <3>2 DEF PrCalls
    <3> QED
      BY <3>2, <3>3, <3>4
  <2>2. ASSUME NEW ok \in BOOLEAN, ActivateJoin(c, ch, ok)
        PROVE  \E r \in PrCalls :
                 /\ prCall' = [prCall EXCEPT ![c] = r]
                 /\ r.op = "activate" /\ r.pc = "move" /\ r.id = prCall[c].id /\ r.doc = prCall[c].doc
                 /\ ch \in prCall[c].add /\ r.add = prCall[c].add \ {ch} /\ r.remove = prCall[c].remove
                 /\ prCall[c].remove = {}
                 /\ \/ prJoined' = prJoined \cup {ch} /\ prFailed' = prFailed \ {ch}
                    \/ prJoined' = prJoined \ {ch} /\ prFailed' = prFailed \cup {ch}
    <3>1. PICK r : r = [prCall[c] EXCEPT !.add = @ \ {ch}]
      OBVIOUS
    <3>2. /\ r \in [op : {"activate"}, pc : {"move"}, id : PrProfiles, doc : PrDocs,
                    remove : SUBSET PrChannels, add : SUBSET PrChannels]
          /\ r.add = prCall[c].add \ {ch} /\ r.remove = prCall[c].remove
          /\ r.id = prCall[c].id /\ r.doc = prCall[c].doc /\ r.op = "activate" /\ r.pc = "move"
      BY <1>2, <3>1
    <3>3. /\ prCall[c].remove = {} /\ ch \in prCall[c].add /\ prCall' = [prCall EXCEPT ![c] = r]
          /\ prJoined' = (IF ok THEN prJoined \cup {ch} ELSE prJoined \ {ch})
          /\ prFailed' = (IF ok THEN prFailed \ {ch} ELSE prFailed \cup {ch})
      BY <2>2, <3>1 DEF ActivateJoin, PrGoto
    <3>4. r \in PrCalls
      BY <3>2 DEF PrCalls
    <3> QED
      BY <3>2, <3>3, <3>4
  <2> QED
    BY <2>1, <2>2
<1>4. PICK r \in PrCalls :
        /\ prCall' = [prCall EXCEPT ![c] = r]
        /\ r.op = "activate" /\ r.pc = "move" /\ r.id = prCall[c].id /\ r.doc = prCall[c].doc
        /\ \/ /\ ch \in prCall[c].remove /\ r.remove = prCall[c].remove \ {ch} /\ r.add = prCall[c].add
              /\ prJoined' = prJoined \ {ch} /\ prFailed' = prFailed \ {ch}
           \/ /\ ch \in prCall[c].add /\ r.add = prCall[c].add \ {ch} /\ r.remove = prCall[c].remove
              /\ prCall[c].remove = {}
              /\ \/ prJoined' = prJoined \cup {ch} /\ prFailed' = prFailed \ {ch}
                 \/ prJoined' = prJoined \ {ch} /\ prFailed' = prFailed \cup {ch}
  BY <1>3
<1>5. prCall'[c] = r /\ prJoined' \subseteq PrChannels /\ prFailed' \subseteq PrChannels /\ r.op \notin PrEdits
  BY <1>4, CallSet, BusyTypes DEF PrInv, PrEdits
<1>6. ASSUME ~prMixed
      PROVE  /\ \A d \in PrCallers : d # c => Passive(d)
             /\ ~Filtering(c)' /\ prFilter = prActive.doc.rules
             /\ Switching(c)' /\ PrProgress(c)'
  <2>1. \A d \in PrCallers : d # c => Passive(d)
    BY <1>1, <1>6, OthersPassive
  <2>2. \A d \in PrCallers : ~Filtering(d)
    BY <1>1, <2>1 DEF Passive, Filtering, PrAt, PrEdits
  <2>3. /\ prFilter = prActive.doc.rules
        /\ prCall[c].remove \cap prCall[c].doc.chans = {} /\ prCall[c].add \subseteq prCall[c].doc.chans
        /\ prJoined = ((prCall[c].doc.chans \ prCall[c].add) \cup prCall[c].remove) \ prFailed
    BY <1>1, <1>6, <2>2 DEF PrInv, PrApplied, PrProgress, Joined
  <2>4. r.remove \cap r.doc.chans = {} /\ r.add \subseteq r.doc.chans
    BY <1>4, <2>3
  <2>5. prJoined' = ((r.doc.chans \ r.add) \cup r.remove) \ prFailed'
    <3>1. CASE ch \in prCall[c].remove /\ r.remove = prCall[c].remove \ {ch}
      BY <1>4, <2>3, <3>1
    <3>2. CASE ch \in prCall[c].add /\ r.add = prCall[c].add \ {ch} /\ prCall[c].remove = {}
      BY <1>4, <2>3, <3>2
    <3> QED
      BY <1>4, <3>1, <3>2
  <2>6. Switching(c)' /\ ~Filtering(c)'
    BY <1>4, <1>5 DEF Switching, Filtering, PrAt
  <2>7. PrProgress(c)'
    BY <1>4, <1>5, <2>4, <2>5 DEF PrProgress, PrAt, Joined
  <2> QED
    BY <2>1, <2>3, <2>6, <2>7
<1>7. Grants(r.id, r.doc) /\ r.op \notin {"create", "delete"}
  BY <1>2, <1>4
<1>8. prCall' = [prCall EXCEPT ![c] = r]
  BY <1>4
<1>9. /\ prActive' \in [id : PrProfiles, doc : PrDocs] /\ prFilter' \in PrRules /\ prMixed' \in BOOLEAN
      /\ DOMAIN prGranted' = DOMAIN prGranted /\ prGranted' = [p \in DOMAIN prGranted' |-> prGranted'[p]]
      /\ \A p \in DOMAIN prGranted : prGranted[p] \subseteq prGranted'[p]
      /\ prActive'.id \in DOMAIN prGranted /\ prActive'.doc.chans \subseteq prGranted'[prActive'.id]
  BY <1>1, BusyTypes
<1>10. ~prMixed' =>
         /\ \A d \in PrCallers : d # c => Passive(d) /\ (r.op \in PrEdits => prCall[d] = NoCall)
         /\ ~Switching(c)' /\ ~Listing(c)' => Joined(prActive.doc.chans)'
         /\ ~Filtering(c)' => prFilter' = prActive'.doc.rules
         /\ PrProgress(c)'
  BY <1>1, <1>5, <1>6
<1> QED
  BY <1>1, <1>5, <1>7, <1>8, <1>9, <1>10, BusyStep

(* The switch changes the filter, or is abandoned there, and then the active document. *)
LEMMA SwitchFilters == ASSUME PrInv, NEW c \in PrCallers, ActivateFilters(c) PROVE PrInv'
<1>1. /\ prCall[c].op = "activate" /\ prCall[c].pc = "move" /\ prCall[c].remove = {} /\ prCall[c].add = {}
      /\ UNCHANGED <<prStored, prDefault, prActive, prJoined, prGranted, prFailed>>
  BY DEF ActivateFilters, PrAt
<1>2. prCall[c].id \in PrProfiles /\ prCall[c].doc \in PrDocs /\ Grants(prCall[c].id, prCall[c].doc)
  BY <1>1, CallShapes, BusyTypes DEF PrInv, PrGranted, Carried
<1>3. CASE Compiles(prCall[c].doc.rules)
  <2> DEFINE r == [op |-> "activate", pc |-> "swap", id |-> prCall[c].id, doc |-> prCall[c].doc]
  <2>1. prFilter' = prCall[c].doc.rules /\ prCall' = [prCall EXCEPT ![c] = r] /\ prMixed' = prMixed
    BY <1>3 DEF ActivateFilters, PrGoto
  <2>2. /\ r \in PrCalls /\ r.op = "activate" /\ r.pc = "swap" /\ r.id = prCall[c].id /\ r.doc = prCall[c].doc
        /\ r.op \notin PrEdits
    BY <1>2 DEF PrCalls, PrEdits
  <2> HIDE DEF r
  <2>3. prCall'[c] = r
    BY <2>1, <2>2, CallSet DEF PrInv
  <2>4. ASSUME ~prMixed
        PROVE  /\ \A d \in PrCallers : d # c => Passive(d)
               /\ Filtering(c)' /\ Switching(c)' /\ PrProgress(c)'
    <3>1. \A d \in PrCallers : d # c => Passive(d)
      BY <1>1, <2>4, OthersPassive
    <3>2. prJoined = ((prCall[c].doc.chans \ prCall[c].add) \cup prCall[c].remove) \ prFailed
      BY <1>1, <2>4 DEF PrInv, PrApplied, PrProgress, PrAt, Joined
    <3>3. prJoined' = r.doc.chans \ prFailed' /\ prFilter' = r.doc.rules
      BY <1>1, <2>1, <2>2, <3>2
    <3>4. Filtering(c)' /\ Switching(c)'
      BY <2>2, <2>3 DEF Filtering, Switching, PrAt
    <3>5. PrProgress(c)'
      BY <2>2, <2>3, <3>3 DEF PrProgress, PrAt, Joined
    <3> QED
      BY <3>1, <3>4, <3>5
  <2>5. prFilter' \in PrRules
    BY <1>2, <2>1 DEF PrDocs
  <2> QED
    BY <1>1, <1>2, <2>1, <2>2, <2>4, <2>5, BusyTypes, BusyStep
<1>4. CASE ~Compiles(prCall[c].doc.rules)
  <2>1. prCall' = [prCall EXCEPT ![c] = NoCall] /\ prMixed' = TRUE /\ prFilter' = prFilter
    BY <1>4 DEF ActivateFilters
  <2>2. "idle" \notin {"create", "delete", "activate"} \cup PrEdits
    BY DEF PrEdits
  <2> QED
    BY <1>1, <2>1, <2>2, PlainIdle, BusyTypes, BusyStep
<1> QED
  BY <1>3, <1>4

LEMMA SwitchSwaps == ASSUME PrInv, NEW c \in PrCallers, ActivateSwap(c) PROVE PrInv'
<1>1. /\ prCall[c].op = "activate" /\ prCall[c].pc = "swap" /\ PrAt(c, "activate", "swap")
      /\ prActive' = [id |-> prCall[c].id, doc |-> prCall[c].doc] /\ prCall' = [prCall EXCEPT ![c] = NoCall]
      /\ UNCHANGED <<prMixed, prStored, prDefault, prJoined, prFilter, prGranted, prFailed>>
  BY DEF ActivateSwap, PrAt, PrReturn, PrGoto
<1>2. prCall[c].id \in PrProfiles /\ prCall[c].doc \in PrDocs /\ Grants(prCall[c].id, prCall[c].doc)
  BY <1>1, CallShapes, BusyTypes DEF PrInv, PrGranted, Carried
<1>3. prActive'.id = prCall[c].id /\ prActive'.doc = prCall[c].doc /\ prActive' \in [id : PrProfiles, doc : PrDocs]
  BY <1>1, <1>2
<1>4. prActive'.id \in DOMAIN prGranted /\ prActive'.doc.chans \subseteq prGranted'[prActive'.id]
  BY <1>1, <1>2, <1>3 DEF Grants
<1>5. "idle" \notin {"create", "delete", "activate"} \cup PrEdits
  BY DEF PrEdits
<1>6. prCall'[c] = NoCall
  BY <1>1, PlainIdle, CallSet DEF PrInv
<1>7. ASSUME ~prMixed
      PROVE  /\ \A d \in PrCallers : d # c => Passive(d)
             /\ Joined(prActive.doc.chans)' /\ prFilter' = prActive'.doc.rules /\ PrProgress(c)'
  <2>1. \A d \in PrCallers : d # c => Passive(d)
    BY <1>1, <1>7, OthersPassive
  <2>2. prJoined = prCall[c].doc.chans \ prFailed /\ prFilter = prCall[c].doc.rules
    BY <1>1, <1>7 DEF PrInv, PrApplied, PrProgress, Joined
  <2>3. Joined(prActive.doc.chans)' /\ prFilter' = prActive'.doc.rules
    BY <1>1, <1>3, <2>2 DEF Joined
  <2>4. PrProgress(c)'
    BY <1>5, <1>6, PlainIdle DEF PrProgress, PrAt, PrEdits
  <2> QED
    BY <2>1, <2>3, <2>4
<1>8. /\ NoCall \in PrCalls /\ NoCall.op \notin {"create", "delete", "activate"} \cup PrEdits
      /\ prMixed' \in BOOLEAN /\ prJoined' \subseteq PrChannels /\ prFailed' \subseteq PrChannels
      /\ prFilter' \in PrRules /\ prGranted' = [p \in DOMAIN prGranted' |-> prGranted'[p]]
      /\ DOMAIN prGranted' = DOMAIN prGranted /\ \A p \in DOMAIN prGranted : prGranted[p] \subseteq prGranted'[p]
  BY <1>1, <1>5, PlainIdle, BusyTypes
<1>9. ~prMixed' => /\ \A d \in PrCallers : d # c => Passive(d)
                   /\ Joined(prActive.doc.chans)' /\ prFilter' = prActive'.doc.rules /\ PrProgress(c)'
  BY <1>1, <1>7
<1> QED
  BY <1>1, <1>3, <1>4, <1>8, <1>9, BusyStep

(* While nothing was mixed and the others are passive, the request of c decides. *)
LEMMA Settled ==
  ASSUME PrInv, ~prMixed, NEW c \in PrCallers, \A d \in PrCallers : d # c => Passive(d)
  PROVE  /\ ~Switching(c) /\ ~Listing(c) => prJoined = prActive.doc.chans \ prFailed
         /\ ~Filtering(c) => prFilter = prActive.doc.rules
         /\ PrProgress(c)
<1>1. \A d \in PrCallers : d # c => ~Switching(d) /\ ~Listing(d) /\ ~Filtering(d)
  BY DEF Passive, Switching, Listing, Filtering, PrAt, PrEdits
<1> QED
  BY <1>1 DEF PrInv, PrApplied, Joined

(* A request that begins and is still unmixed finds the engine and the filter settled. *)
LEMMA BeginsSettled ==
  ASSUME PrInv, NEW c \in PrCallers, NEW r, PrBegin(c, r), r.op \in PrEdits, ~prMixed'
  PROVE  /\ \A d \in PrCallers : d # c => Passive(d) /\ prCall[d] = NoCall
         /\ prJoined = prActive.doc.chans \ prFailed /\ prFilter = prActive.doc.rules
<1>1. prCall[c] = NoCall /\ ~prMixed /\ Alone(c, r)
  BY BeginFacts DEF PrInv
<1>2. \A d \in PrCallers : d # c => Passive(d) /\ prCall[d] = NoCall
  BY <1>1, PlainIdle DEF Alone, Passive, PrEdits
<1>3. ~Switching(c) /\ ~Listing(c) /\ ~Filtering(c)
  BY <1>1, PlainIdle DEF Switching, Listing, Filtering, PrAt
<1> QED
  BY <1>1, <1>2, <1>3, Settled

(* A join that fails leaves every agreement between engine and document as it was. *)
LEMMA JoinFails == ASSUME PrInv, NEW c \in PrCallers, NEW ch \in PrChannels, HandleJoinChannel(c, ch, FALSE) PROVE PrInv'
<1>1. /\ PrBegin(c, NoCall) /\ prJoined' = prJoined \ {ch} /\ prFailed' = prFailed \cup {ch}
      /\ UNCHANGED <<prStored, prDefault, prActive, prFilter, prGranted>>
  BY DEF HandleJoinChannel
<1>2. /\ prCall' = prCall /\ prMixed' \in BOOLEAN
      /\ ~prMixed' => ~prMixed /\ \A d \in PrCallers : prCall[d].op \notin PrEdits
  BY <1>1 DEF PrBegin, PrInv, PrTyped, PrBusy
<1>3. PrTyped'
  BY <1>1, <1>2 DEF PrInv, PrTyped
<1>4. PrGranted'
  BY <1>1, <1>2 DEF PrInv, PrGranted, Grants, HasRow, Carried
<1>5. PrDefaulted' /\ PrSingle'
  BY <1>1, <1>2 DEF PrInv, PrDefaulted, PrSingle, HasRow, PrAt
<1>6. PrApplied'
  <2> SUFFICES ASSUME ~prMixed' PROVE
        /\ \A a, d \in PrCallers : prCall'[a].op \in PrEdits /\ d # a => prCall'[d] = NoCall
        /\ (\A d \in PrCallers : ~Switching(d)' /\ ~Listing(d)') => Joined(prActive.doc.chans)'
        /\ (\A d \in PrCallers : ~Filtering(d)') => prFilter' = prActive'.doc.rules
        /\ \A d \in PrCallers : PrProgress(d)'
    BY DEF PrApplied
  <2>1. \A S : prJoined = S \ prFailed => prJoined' = S \ prFailed'
    BY <1>1
  <2>2. \A d \in PrCallers : /\ Switching(d)' <=> Switching(d)
                             /\ Listing(d)' <=> Listing(d)
                             /\ Filtering(d)' <=> Filtering(d)
    BY <1>2 DEF Switching, Listing, Filtering, PrAt
  <2>3. \A d \in PrCallers : PrProgress(d)'
    <3> SUFFICES ASSUME NEW d \in PrCallers PROVE PrProgress(d)'
      OBVIOUS
    <3>1. PrProgress(d) /\ prCall'[d] = prCall[d] /\ prCall[d].op \notin PrEdits
      BY <1>2 DEF PrInv, PrApplied
    <3> QED
      BY <1>1, <2>1, <3>1 DEF PrProgress, PrAt, Joined, PrEdits
  <2>4. (\A d \in PrCallers : ~Switching(d) /\ ~Listing(d)) => prJoined = prActive.doc.chans \ prFailed
    BY <1>2 DEF PrInv, PrApplied, Joined
  <2>5. (\A d \in PrCallers : ~Filtering(d)) => prFilter = prActive.doc.rules
    BY <1>2 DEF PrInv, PrApplied
  <2>6. \A a, d \in PrCallers : prCall'[a].op \in PrEdits /\ d # a => prCall'[d] = NoCall
    BY <1>2
  <2>7. (\A d \in PrCallers : ~Switching(d)' /\ ~Listing(d)') => Joined(prActive.doc.chans)'
    BY <1>1, <2>1, <2>2, <2>4 DEF Joined
  <2>8. (\A d \in PrCallers : ~Filtering(d)') => prFilter' = prActive'.doc.rules
    BY <1>1, <2>2, <2>5
  <2> QED
    BY <2>3, <2>6, <2>7, <2>8
<1> QED
  BY <1>3, <1>4, <1>5, <1>6 DEF PrInv

(* Joining and leaving: the engine first, the document under mu after it. *)
LEMMA EditBegins ==
  ASSUME PrInv, NEW c \in PrCallers, NEW ch \in PrChannels,
         HandleJoinChannel(c, ch, TRUE) \/ HandleLeaveChannel(c, ch)
  PROVE  PrInv'
<1>1. PICK r \in PrCalls :
        /\ PrBegin(c, r) /\ r.op \in PrEdits /\ r.pc = "doc" /\ r.ch = ch
        /\ \/ r.op = "join" /\ prJoined' = prJoined \cup {ch} /\ prFailed' = prFailed \ {ch}
           \/ r.op = "leave" /\ prJoined' = prJoined \ {ch} /\ prFailed' = prFailed
  <2>1. CASE HandleJoinChannel(c, ch, TRUE)
    <3>1. [op |-> "join", pc |-> "doc", ch |-> ch] \in PrCalls
      BY DEF PrCalls
    <3>2. /\ PrBegin(c, [op |-> "join", pc |-> "doc", ch |-> ch])
          /\ prJoined' = prJoined \cup {ch} /\ prFailed' = prFailed \ {ch}
      BY <2>1 DEF HandleJoinChannel
    <3> QED
      BY <3>1, <3>2 DEF PrEdits
  <2>2. CASE HandleLeaveChannel(c, ch)
    <3>1. [op |-> "leave", pc |-> "doc", ch |-> ch] \in PrCalls
      BY DEF PrCalls
    <3>2. /\ PrBegin(c, [op |-> "leave", pc |-> "doc", ch |-> ch])
          /\ prJoined' = prJoined \ {ch} /\ prFailed' = prFailed
      BY <2>2 DEF HandleLeaveChannel
    <3> QED
      BY <3>1, <3>2 DEF PrEdits
  <2> QED
    BY <2>1, <2>2
<1>2. UNCHANGED <<prStored, prDefault, prActive, prFilter, prGranted>>
  BY DEF HandleJoinChannel, HandleLeaveChannel
<1>3. prCall' = [prCall EXCEPT ![c] = r] /\ prMixed' \in BOOLEAN
  BY <1>1, BeginFacts DEF PrInv
<1>4. prCall'[c] = r
  BY <1>3, CallSet DEF PrInv
<1>5. prJoined' \subseteq PrChannels /\ prFailed' \subseteq PrChannels
  BY <1>1, BusyTypes
<1>6. ASSUME ~prMixed'
      PROVE  /\ \A d \in PrCallers : d # c => Passive(d) /\ prCall[d] = NoCall
             /\ Listing(c)' /\ prFilter' = prActive'.doc.rules /\ PrProgress(c)'
  <2>1. /\ \A d \in PrCallers : d # c => Passive(d) /\ prCall[d] = NoCall
        /\ prJoined = prActive.doc.chans \ prFailed /\ prFilter = prActive.doc.rules
    BY <1>1, <1>6, BeginsSettled
  <2>2. CASE r.op = "join" /\ prJoined' = prJoined \cup {ch} /\ prFailed' = prFailed \ {ch}
    <3>1. prJoined' = (prActive'.doc.chans \cup {r.ch}) \ prFailed' /\ r.ch \notin prFailed'
      BY <1>1, <1>2, <2>1, <2>2
    <3>2. Listing(c)' /\ PrProgress(c)'
      BY <1>1, <1>4, <2>2, <3>1 DEF Listing, PrProgress, PrAt, Joined
    <3> QED
      BY <1>2, <2>1, <3>2
  <2>3. CASE r.op = "leave" /\ prJoined' = prJoined \ {ch} /\ prFailed' = prFailed
    <3>1. prJoined' = (prActive'.doc.chans \ {r.ch}) \ prFailed'
      BY <1>1, <1>2, <2>1, <2>3
    <3>2. Listing(c)' /\ PrProgress(c)'
      BY <1>1, <1>4, <2>3, <3>1 DEF Listing, PrProgress, PrAt, Joined
    <3> QED
      BY <1>2, <2>1, <3>2
  <2> QED
    BY <1>1, <2>2, <2>3
<1>7. r.op \notin {"activate", "create", "delete"} /\ r.pc # "write"
  BY <1>1 DEF PrEdits
<1>8. /\ prActive' \in [id : PrProfiles, doc : PrDocs] /\ prFilter' \in PrRules
      /\ DOMAIN prGranted' = DOMAIN prGranted /\ prGranted' = [p \in DOMAIN prGranted' |-> prGranted'[p]]
      /\ \A p \in DOMAIN prGranted : prGranted[p] \subseteq prGranted'[p]
      /\ prActive'.id \in DOMAIN prGranted /\ prActive'.doc.chans \subseteq prGranted'[prActive'.id]
  BY <1>2, BusyTypes
<1>9. ~prMixed' =>
        /\ \A d \in PrCallers : d # c => Passive(d) /\ (r.op \in PrEdits => prCall[d] = NoCall)
        /\ ~Switching(c)' /\ ~Listing(c)' => Joined(prActive.doc.chans)'
        /\ ~Filtering(c)' => prFilter' = prActive'.doc.rules
        /\ PrProgress(c)'
  BY <1>6
<1> QED
  BY <1>2, <1>3, <1>5, <1>7, <1>8, <1>9, BusyStep

(* The document follows the engine. *)
LEMMA DocFollows == ASSUME PrInv, NEW c \in PrCallers, AddChannel(c) \/ RemoveChannel(c) PROVE PrInv'
<1>1. /\ prCall[c].op \in PrEdits /\ prCall[c].op \in {"join", "leave"} /\ prCall[c].pc = "doc"
      /\ UNCHANGED <<prMixed, prStored, prDefault, prJoined, prFilter, prFailed>>
  BY DEF AddChannel, RemoveChannel, PrAt, PrGoto, PrReturn, PrEdits
<1>2. prCall[c].ch \in PrChannels
  BY <1>1, CallShapes, BusyTypes
<1> DEFINE ch == prCall[c].ch
<1>3. PICK r \in PrCalls : prCall' = [prCall EXCEPT ![c] = r] /\ r \in {NoCall} \cup [op : PrEdits, pc : {"save"}]
  <2>1. [op |-> "join", pc |-> "save"] \in PrCalls /\ [op |-> "join", pc |-> "save"] \in [op : PrEdits, pc : {"save"}]
    BY DEF PrCalls, PrEdits
  <2>2. [op |-> "leave", pc |-> "save"] \in PrCalls /\ [op |-> "leave", pc |-> "save"] \in [op : PrEdits, pc : {"save"}]
    BY DEF PrCalls, PrEdits
  <2>3. \/ prCall' = [prCall EXCEPT ![c] = NoCall]
        \/ prCall' = [prCall EXCEPT ![c] = [op |-> "join", pc |-> "save"]]
        \/ prCall' = [prCall EXCEPT ![c] = [op |-> "leave", pc |-> "save"]]
    BY DEF AddChannel, RemoveChannel, PrReturn, PrGoto
  <2> QED
    BY <2>1, <2>2, <2>3, PlainIdle
<1> DEFINE S == IF prCall[c].op = "join" THEN prActive.doc.chans \cup {ch} ELSE prActive.doc.chans \ {ch}
<1>3a. /\ prActive'.id = prActive.id /\ prActive'.doc.chans = S /\ prActive'.doc.rules = prActive.doc.rules
       /\ prActive' \in [id : PrProfiles, doc : PrDocs]
       /\ DOMAIN prGranted' = DOMAIN prGranted /\ prGranted' = [p \in DOMAIN prGranted' |-> prGranted'[p]]
       /\ \A p \in DOMAIN prGranted : prGranted[p] \subseteq prGranted'[p]
       /\ S \subseteq prGranted'[prActive.id]
  <2>0. /\ prActive \in [id : PrProfiles, doc : PrDocs] /\ prActive.doc \in PrDocs
        /\ prActive.doc.chans \in SUBSET PrChannels
        /\ prGranted = [p \in DOMAIN prGranted |-> prGranted[p]]
        /\ prActive.id \in DOMAIN prGranted /\ prActive.doc.chans \subseteq prGranted[prActive.id]
    BY BusyTypes
  <2>1. CASE AddChannel(c) /\ ch \in prActive.doc.chans
    <3>1. /\ prCall[c].op = "join" /\ prActive' = prActive /\ prGranted' = prGranted
      BY <2>1 DEF AddChannel, PrReturn, PrGoto, PrAt
    <3>2. prActive.doc.chans = prActive.doc.chans \cup {ch}
      BY <2>1
    <3> QED
      BY <2>0, <3>1, <3>2
  <2>2. CASE AddChannel(c) /\ ch \notin prActive.doc.chans
    <3>1. /\ prCall[c].op = "join"
          /\ prActive' = [prActive EXCEPT !.doc.chans = @ \cup {ch}]
          /\ prGranted' = [prGranted EXCEPT ![prActive.id] = @ \cup {ch}]
      BY <2>2 DEF AddChannel, PrGoto, PrAt
    <3>3. prActive.doc.chans \cup {ch} \in SUBSET PrChannels
      BY <1>2, <2>0
    <3>4. /\ prActive' \in [id : PrProfiles, doc : PrDocs] /\ prActive'.id = prActive.id
          /\ prActive'.doc.chans = prActive.doc.chans \cup {ch} /\ prActive'.doc.rules = prActive.doc.rules
      BY <2>0, <3>1, <3>3 DEF PrDocs
    <3>5. /\ DOMAIN prGranted' = DOMAIN prGranted /\ prGranted' = [p \in DOMAIN prGranted' |-> prGranted'[p]]
          /\ prGranted'[prActive.id] = prGranted[prActive.id] \cup {ch}
          /\ \A p \in DOMAIN prGranted : prGranted[p] \subseteq prGranted'[p]
      BY <2>0, <3>1
    <3> QED
      BY <2>0, <3>1, <3>3, <3>4, <3>5
  <2>3. CASE RemoveChannel(c) /\ ch \notin prActive.doc.chans
    <3>1. /\ prCall[c].op = "leave" /\ prActive' = prActive /\ prGranted' = prGranted
      BY <2>3 DEF RemoveChannel, PrReturn, PrGoto, PrAt
    <3>2. prActive.doc.chans = prActive.doc.chans \ {ch}
      BY <2>3
    <3> QED
      BY <2>0, <3>1, <3>2
  <2>4. CASE RemoveChannel(c) /\ ch \in prActive.doc.chans
    <3>1. /\ prCall[c].op = "leave"
          /\ prActive' = [prActive EXCEPT !.doc.chans = @ \ {ch}] /\ prGranted' = prGranted
      BY <2>4 DEF RemoveChannel, PrGoto, PrAt
    <3>3. prActive.doc.chans \ {ch} \in SUBSET PrChannels
      BY <2>0
    <3>4. /\ prActive' \in [id : PrProfiles, doc : PrDocs] /\ prActive'.id = prActive.id
          /\ prActive'.doc.chans = prActive.doc.chans \ {ch} /\ prActive'.doc.rules = prActive.doc.rules
      BY <2>0, <3>1, <3>3 DEF PrDocs
    <3> QED
      BY <2>0, <3>1, <3>3, <3>4
  <2> QED
    BY <2>1, <2>2, <2>3, <2>4
<1>4. prCall'[c] = r
  BY <1>3, CallSet DEF PrInv
<1>5. r.op \notin {"activate", "create", "delete"} /\ (r.op \in PrEdits => r.pc = "save")
  BY <1>3, PlainIdle DEF PrEdits
<1>6. ASSUME ~prMixed
      PROVE  /\ \A d \in PrCallers : d # c => Passive(d) /\ prCall[d] = NoCall
             /\ Joined(prActive.doc.chans)' /\ prFilter' = prActive'.doc.rules /\ PrProgress(c)'
  <2>1. \A d \in PrCallers : d # c => Passive(d) /\ prCall[d] = NoCall
    BY <1>1, <1>6, OthersPassive
  <2>2. ~Filtering(c)
    BY <1>1 DEF Filtering, PrAt
  <2>3. prFilter = prActive.doc.rules /\ PrProgress(c)
    BY <1>6, <2>1, <2>2, Settled
  <2>4. prJoined = S \ prFailed
    BY <1>1, <2>3 DEF PrProgress, PrAt, Joined
  <2>5. Joined(prActive.doc.chans)'
    BY <1>1, <1>3a, <2>4 DEF Joined
  <2>6. PrProgress(c)'
    BY <1>4, <1>5 DEF PrProgress, PrAt, PrEdits
  <2> QED
    BY <1>1, <1>3a, <2>1, <2>3, <2>5, <2>6
<1>7. /\ prCall' = [prCall EXCEPT ![c] = r] /\ prActive' \in [id : PrProfiles, doc : PrDocs]
      /\ DOMAIN prGranted' = DOMAIN prGranted /\ prGranted' = [p \in DOMAIN prGranted' |-> prGranted'[p]]
      /\ \A p \in DOMAIN prGranted : prGranted[p] \subseteq prGranted'[p]
      /\ prActive'.id \in DOMAIN prGranted /\ prActive'.doc.chans \subseteq prGranted'[prActive'.id]
  BY <1>3, <1>3a, BusyTypes
<1>8. prJoined' \subseteq PrChannels /\ prFailed' \subseteq PrChannels /\ prFilter' \in PrRules /\ prMixed' \in BOOLEAN
  BY <1>1, BusyTypes
<1>9. ~prMixed' =>
        /\ \A d \in PrCallers : d # c => Passive(d) /\ (r.op \in PrEdits => prCall[d] = NoCall)
        /\ ~Switching(c)' /\ ~Listing(c)' => Joined(prActive.doc.chans)'
        /\ ~Filtering(c)' => prFilter' = prActive'.doc.rules
        /\ PrProgress(c)'
  BY <1>1, <1>6
<1> QED
  BY <1>1, <1>5, <1>7, <1>8, <1>9, BusyStep

(* The rules are recorded in the document under mu, then swapped in. *)
LEMMA FiltersChange ==
  ASSUME PrInv, NEW c \in PrCallers, SetRuleset(c) \/ \E rules \in PrRules : HandleSetFilters(c, rules)
  PROVE  PrInv'
<1>1. CASE SetRuleset(c)
  <2> DEFINE r == [op |-> "filters", pc |-> "save"]
  <2>1. /\ prCall[c].op = "filters" /\ prCall[c].pc = "swap" /\ prFilter' = prCall[c].rules
        /\ prCall' = [prCall EXCEPT ![c] = r]
        /\ UNCHANGED <<prMixed, prStored, prDefault, prActive, prJoined, prFailed, prGranted>>
    BY <1>1 DEF SetRuleset, PrAt, PrGoto
  <2>2. r \in PrCalls /\ r.op = "filters" /\ r.pc = "save" /\ "filters" \in PrEdits
    BY DEF PrCalls, PrEdits
  <2> HIDE DEF r
  <2>3. prFilter' \in PrRules
    BY <2>1, CallShapes, BusyTypes
  <2>4. prCall'[c] = r
    BY <2>1, <2>2, CallSet DEF PrInv
  <2>5. ASSUME ~prMixed
        PROVE  /\ \A d \in PrCallers : d # c => Passive(d) /\ prCall[d] = NoCall
               /\ Joined(prActive.doc.chans)' /\ prFilter' = prActive'.doc.rules /\ PrProgress(c)'
    <3>1. \A d \in PrCallers : d # c => Passive(d) /\ prCall[d] = NoCall
      BY <2>1, <2>2, <2>5, OthersPassive
    <3>2. ~Switching(c) /\ ~Listing(c)
      BY <2>1 DEF Switching, Listing, PrAt
    <3>3. prJoined = prActive.doc.chans \ prFailed /\ PrProgress(c)
      BY <2>5, <3>1, <3>2, Settled
    <3>4. prFilter' = prActive'.doc.rules /\ Joined(prActive.doc.chans)'
      BY <2>1, <3>3 DEF PrProgress, PrAt, Joined
    <3>5. PrProgress(c)'
      BY <2>2, <2>4 DEF PrProgress, PrAt
    <3> QED
      BY <3>1, <3>4, <3>5
  <2>6. /\ prActive' \in [id : PrProfiles, doc : PrDocs] /\ prMixed' \in BOOLEAN
        /\ prJoined' \subseteq PrChannels /\ prFailed' \subseteq PrChannels
        /\ DOMAIN prGranted' = DOMAIN prGranted /\ prGranted' = [p \in DOMAIN prGranted' |-> prGranted'[p]]
        /\ \A p \in DOMAIN prGranted : prGranted[p] \subseteq prGranted'[p]
        /\ prActive'.id \in DOMAIN prGranted /\ prActive'.doc.chans \subseteq prGranted'[prActive'.id]
    BY <2>1, BusyTypes
  <2>7. ~prMixed' =>
          /\ \A d \in PrCallers : d # c => Passive(d) /\ (r.op \in PrEdits => prCall[d] = NoCall)
          /\ ~Switching(c)' /\ ~Listing(c)' => Joined(prActive.doc.chans)'
          /\ ~Filtering(c)' => prFilter' = prActive'.doc.rules
          /\ PrProgress(c)'
    BY <2>1, <2>5
  <2> QED
    BY <2>1, <2>2, <2>3, <2>6, <2>7, BusyStep
<1>2. ASSUME NEW rules \in PrRules, HandleSetFilters(c, rules) PROVE PrInv'
  <2> DEFINE r == [op |-> "filters", pc |-> "swap", rules |-> rules]
  <2>1. /\ PrBegin(c, r) /\ prActive' = [prActive EXCEPT !.doc.rules = rules]
        /\ UNCHANGED <<prStored, prDefault, prJoined, prFilter, prFailed, prGranted>>
    BY <1>2 DEF HandleSetFilters
  <2>2. r \in PrCalls /\ r.op = "filters" /\ r.pc = "swap" /\ r.rules = rules /\ "filters" \in PrEdits
    BY DEF PrCalls, PrEdits
  <2> HIDE DEF r
  <2>3. prCall' = [prCall EXCEPT ![c] = r] /\ prMixed' \in BOOLEAN
    BY <2>1, BeginFacts DEF PrInv
  <2>4. prCall'[c] = r
    BY <2>2, <2>3, CallSet DEF PrInv
  <2>5. /\ prActive' \in [id : PrProfiles, doc : PrDocs] /\ prActive'.id = prActive.id
        /\ prActive'.doc.chans = prActive.doc.chans /\ prActive'.doc.rules = rules
    BY <2>1, BusyTypes DEF PrDocs
  <2>6. ASSUME ~prMixed'
        PROVE  /\ \A d \in PrCallers : d # c => Passive(d) /\ prCall[d] = NoCall
               /\ Joined(prActive.doc.chans)' /\ Filtering(c)' /\ PrProgress(c)'
    <3>1. /\ \A d \in PrCallers : d # c => Passive(d) /\ prCall[d] = NoCall
          /\ prJoined = prActive.doc.chans \ prFailed
      BY <2>1, <2>2, <2>6, BeginsSettled
    <3>2. Joined(prActive.doc.chans)'
      BY <2>1, <2>5, <3>1 DEF Joined
    <3>3. Filtering(c)' /\ PrProgress(c)'
      BY <2>2, <2>4, <2>5 DEF Filtering, PrProgress, PrAt
    <3> QED
      BY <3>1, <3>2, <3>3
  <2>7. /\ prJoined' \subseteq PrChannels /\ prFailed' \subseteq PrChannels /\ prFilter' \in PrRules
        /\ DOMAIN prGranted' = DOMAIN prGranted /\ prGranted' = [p \in DOMAIN prGranted' |-> prGranted'[p]]
        /\ \A p \in DOMAIN prGranted : prGranted[p] \subseteq prGranted'[p]
        /\ prActive'.id \in DOMAIN prGranted /\ prActive'.doc.chans \subseteq prGranted'[prActive'.id]
    BY <2>1, <2>5, BusyTypes
  <2>8. ~prMixed' =>
          /\ \A d \in PrCallers : d # c => Passive(d) /\ (r.op \in PrEdits => prCall[d] = NoCall)
          /\ ~Switching(c)' /\ ~Listing(c)' => Joined(prActive.doc.chans)'
          /\ ~Filtering(c)' => prFilter' = prActive'.doc.rules
          /\ PrProgress(c)'
    BY <2>6
  <2> QED
    BY <2>1, <2>2, <2>3, <2>5, <2>7, <2>8, BusyStep
<1> QED
  BY <1>1, <1>2

(* A channel of the document is left and joined again. *)
LEMMA RejoinsOne ==
  ASSUME PrInv, NEW c \in PrCallers, NEW ch \in PrChannels, NEW ok \in BOOLEAN, Rejoin(c, ch, ok)
  PROVE  PrInv'
<1>1. PICK r : r = [prCall[c] EXCEPT !.todo = @ \ {ch}]
  OBVIOUS
<1>2. /\ prCall[c].op = "method" /\ prCall[c].pc = "rejoin" /\ ch \in prCall[c].todo
      /\ prCall' = [prCall EXCEPT ![c] = r]
      /\ \/ prJoined' = prJoined \cup {ch} /\ prFailed' = prFailed \ {ch}
         \/ prJoined' = prJoined \ {ch} /\ prFailed' = prFailed \cup {ch}
      /\ UNCHANGED <<prMixed, prStored, prDefault, prActive, prFilter, prGranted>>
  BY <1>1 DEF Rejoin, PrAt, PrGoto
<1>3. prCall[c] \in [op : {"method"}, pc : {"rejoin"}, todo : SUBSET PrChannels]
  BY <1>2, CallShapes, BusyTypes DEF PrEdits
<1>4. /\ r \in [op : {"method"}, pc : {"rejoin"}, todo : SUBSET PrChannels]
      /\ r.op = "method" /\ r.pc = "rejoin" /\ r.todo = prCall[c].todo \ {ch} /\ "method" \in PrEdits
  BY <1>1, <1>3 DEF PrEdits
<1>5. r \in PrCalls
  BY <1>4 DEF PrCalls
<1>6. prCall'[c] = r
  BY <1>2, <1>5, CallSet DEF PrInv
<1>7. ASSUME ~prMixed
      PROVE  /\ \A d \in PrCallers : d # c => Passive(d) /\ prCall[d] = NoCall
             /\ Joined(prActive.doc.chans)' /\ prFilter' = prActive'.doc.rules /\ PrProgress(c)'
  <2>1. \A d \in PrCallers : d # c => Passive(d) /\ prCall[d] = NoCall
    BY <1>2, <1>4, <1>7, OthersPassive
  <2>2. ~Switching(c) /\ ~Listing(c) /\ ~Filtering(c)
    BY <1>2 DEF Switching, Listing, Filtering, PrAt
  <2>3. prJoined = prActive.doc.chans \ prFailed /\ prFilter = prActive.doc.rules /\ PrProgress(c)
    BY <1>7, <2>1, <2>2, Settled
  <2>4. prCall[c].todo \subseteq prActive.doc.chans
    BY <1>2, <2>3 DEF PrProgress, PrAt
  <2>5. prJoined' = prActive.doc.chans \ prFailed'
    BY <1>2, <2>3, <2>4
  <2>6. PrProgress(c)'
    BY <1>2, <1>4, <1>6, <2>4 DEF PrProgress, PrAt
  <2> QED
    BY <1>2, <2>1, <2>3, <2>5, <2>6 DEF Joined
<1>8. prJoined' \subseteq PrChannels /\ prFailed' \subseteq PrChannels
  BY <1>2, BusyTypes
<1>9. /\ prActive' \in [id : PrProfiles, doc : PrDocs] /\ prMixed' \in BOOLEAN /\ prFilter' \in PrRules
      /\ DOMAIN prGranted' = DOMAIN prGranted /\ prGranted' = [p \in DOMAIN prGranted' |-> prGranted'[p]]
      /\ \A p \in DOMAIN prGranted : prGranted[p] \subseteq prGranted'[p]
      /\ prActive'.id \in DOMAIN prGranted /\ prActive'.doc.chans \subseteq prGranted'[prActive'.id]
  BY <1>2, BusyTypes
<1>10. ~prMixed' =>
         /\ \A d \in PrCallers : d # c => Passive(d) /\ (r.op \in PrEdits => prCall[d] = NoCall)
         /\ ~Switching(c)' /\ ~Listing(c)' => Joined(prActive.doc.chans)'
         /\ ~Filtering(c)' => prFilter' = prActive'.doc.rules
         /\ PrProgress(c)'
  BY <1>2, <1>7
<1> QED
  BY <1>2, <1>4, <1>5, <1>8, <1>9, <1>10, BusyStep

-----------------------------------------------------------------------------
(* Profiles: the invariant holds, and implies what the runs check.            *)

LEMMA PrInitial == ProfilesInit => PrInv
<1> SUFFICES ASSUME ProfilesInit PROVE PrInv
  OBVIOUS
<1>0. /\ DefaultProfile \in PrProfiles /\ "none" \in PrRules /\ "no document" \notin PrRules
      /\ NewDoc \in PrDocs /\ NewDoc # NoDoc /\ NewDoc.chans = {} /\ NewDoc.rules = "none"
  BY ProfilesConstants DEF NewDoc, NoDoc, PrDocs
<1>1. /\ prStored = [p \in PrProfiles |-> IF p = DefaultProfile THEN NewDoc ELSE NoDoc]
      /\ prDefault = {DefaultProfile} /\ prActive = [id |-> DefaultProfile, doc |-> NewDoc]
      /\ prJoined = {} /\ prFailed = {} /\ prFilter = "none"
      /\ prCall = [c \in PrCallers |-> NoCall]
      /\ prGranted = [p \in {DefaultProfile} |-> {}] /\ prMixed = FALSE
  BY DEF ProfilesInit
<1>2. \A c \in PrCallers : prCall[c] = NoCall /\ prCall[c].op = "idle"
  BY <1>1, PlainIdle
<1>3. PrTyped
  BY <1>0, <1>1, PlainIdle DEF PrTyped
<1>4. PrGranted
  BY <1>0, <1>1, <1>2 DEF PrGranted, Grants, HasRow, Carried, PrEdits
<1>5. PrDefaulted
  BY <1>0, <1>1, <1>2 DEF PrDefaulted, HasRow, PrAt
<1>6. PrSingle
  BY <1>2 DEF PrSingle
<1>7. \A c \in PrCallers : PrProgress(c)
  BY <1>2 DEF PrProgress, PrAt
<1>8. Joined(prActive.doc.chans) /\ prFilter = prActive.doc.rules
  BY <1>0, <1>1 DEF Joined
<1>9. PrApplied
  BY <1>2, <1>7, <1>8 DEF PrApplied, PrEdits
<1> QED
  BY <1>3, <1>4, <1>5, <1>6, <1>9 DEF PrInv

LEMMA PrStep == PrInv /\ [ProfilesNext]_prVars => PrInv'
<1> SUFFICES ASSUME PrInv, [ProfilesNext]_prVars PROVE PrInv'
  OBVIOUS
<1>1. ASSUME NEW c \in PrCallers,
             \/ ActivateDiff(c) \/ ActivateFilters(c) \/ ActivateSwap(c)
             \/ AddChannel(c) \/ RemoveChannel(c) \/ SetRuleset(c) \/ HandleSetMethod(c) \/ Rejoined(c)
             \/ SaveReads(c) \/ SaveWrites(c) \/ CreateInserts(c) \/ DeleteChecks(c) \/ DeleteRow(c)
      PROVE  PrInv'
  BY <1>1, SwitchDiff, SwitchFilters, SwitchSwaps, DocFollows, FiltersChange, BeginOthers, QuietGoesOn, RowSteps
<1>2. ASSUME NEW c \in PrCallers, NEW ch \in PrChannels, ActivateLeave(c, ch) \/ HandleLeaveChannel(c, ch)
      PROVE  PrInv'
  BY <1>2, SwitchMoves, EditBegins
<1>3. ASSUME NEW c \in PrCallers, NEW ch \in PrChannels, NEW ok \in BOOLEAN,
             ActivateJoin(c, ch, ok) \/ HandleJoinChannel(c, ch, ok) \/ Rejoin(c, ch, ok)
      PROVE  PrInv'
  <2>1. CASE ActivateJoin(c, ch, ok)
    BY <2>1, SwitchMoves
  <2>2. CASE HandleJoinChannel(c, ch, ok)
    <3>1. CASE ok
      <4>1. HandleJoinChannel(c, ch, TRUE)
        BY <2>2, <3>1 DEF HandleJoinChannel
      <4> QED
        BY <4>1, EditBegins
    <3>2. CASE ~ok
      <4>1. HandleJoinChannel(c, ch, FALSE)
        BY <2>2, <3>2 DEF HandleJoinChannel
      <4> QED
        BY <4>1, JoinFails
    <3> QED
      BY <3>1, <3>2
  <2>3. CASE Rejoin(c, ch, ok)
    BY <2>3, RejoinsOne
  <2> QED
    BY <1>3, <2>1, <2>2, <2>3
<1>4. ASSUME NEW c \in PrCallers, NEW p \in PrProfiles,
             HandleActivateProfile(c, p) \/ HandleCreateProfile(c, p) \/ HandleDeleteProfile(c, p)
      PROVE  PrInv'
  <2>1. NewDoc \in PrDocs
    BY ProfilesConstants DEF NewDoc, PrDocs
  <2> QED
    BY <1>4, <2>1, BeginActivate, BeginOthers, CreateBegins DEF HandleCreateProfile
<1>5. ASSUME NEW c \in PrCallers, NEW p \in PrProfiles, NEW doc \in PrDocs, ImportProfile(c, p, doc)
      PROVE  PrInv'
  BY <1>5, CreateBegins DEF ImportProfile
<1>6. ASSUME NEW c \in PrCallers, NEW rules \in PrRules, HandleSetFilters(c, rules)
      PROVE  PrInv'
  BY <1>6, FiltersChange
<1>7. CASE UNCHANGED prVars
  <2>1. UNCHANGED <<prStored, prDefault, prActive, prJoined, prFilter, prCall, prGranted, prFailed, prMixed>>
    BY <1>7 DEF prVars
  <2>2. PrTyped' /\ PrGranted' /\ PrDefaulted' /\ PrSingle'
    BY <2>1 DEF PrInv, PrTyped, PrGranted, PrDefaulted, PrSingle, Grants, HasRow, Carried, PrAt
  <2>3. \A c \in PrCallers : PrProgress(c)' <=> PrProgress(c)
    BY <2>1 DEF PrProgress, PrAt, Joined
  <2>4. PrApplied'
    BY <2>1, <2>3 DEF PrInv, PrApplied, Switching, Listing, Filtering, PrAt, Joined
  <2> QED
    BY <2>2, <2>4 DEF PrInv
<1> QED
  BY <1>1, <1>2, <1>3, <1>4, <1>5, <1>6, <1>7 DEF ProfilesNext

(* Profiles survive overlapping requests, whatever the requests, the channels, the
   profiles and the rules: when no edit overlapped another request the engine and the
   filter agree with the active document once everything is answered (activateMu), no
   row holds a channel that was put in another profile (save writes under the identifier
   it was active with), and the default profile is never deleted (Manager.Delete). *)
THEOREM ProfilesSurvive == ProfilesSpec => []ProfilesKept
<1>1. ProfilesInit => PrInv
  BY PrInitial
<1>2. PrInv /\ [ProfilesNext]_prVars => PrInv'
  BY PrStep
<1>3. PrInv => ProfilesKept
  <2> SUFFICES ASSUME PrInv PROVE ProfilesKept
    OBVIOUS
  <2>1. ProfilesTypeOK
    BY ProfilesConstants DEF PrInv, PrTyped, PrDefaulted, ProfilesTypeOK, HasRow
  <2>2. SwitchesCompose
    <3> SUFFICES ASSUME ProfilesAtRest, ~prMixed
                 PROVE  prJoined = prActive.doc.chans \ prFailed /\ prFilter = prActive.doc.rules
      BY DEF SwitchesCompose
    <3>1. \A c \in PrCallers : ~Switching(c) /\ ~Listing(c) /\ ~Filtering(c)
      BY PlainIdle DEF ProfilesAtRest, Switching, Listing, Filtering, PrAt
    <3> QED
      BY <3>1 DEF PrInv, PrApplied, Joined
  <2>3. ProfilesApart
    BY DEF PrInv, PrGranted, Grants, ProfilesApart
  <2>4. DefaultKept
    BY DEF PrInv, PrDefaulted, DefaultKept
  <2> QED
    BY <2>1, <2>2, <2>3, <2>4 DEF ProfilesKept
<1> QED
  BY <1>1, <1>2, <1>3, PTL DEF ProfilesSpec

-----------------------------------------------------------------------------
(* OBS: the inductive invariant.                                              *)

ObsClients == [open : BOOLEAN, cfg : ObsConfigs, reader : BOOLEAN, stats : BOOLEAN, version : BOOLEAN,
               cancelled : BOOLEAN, seq : Nat, pending : SUBSET Nat, replies : SUBSET Nat, answered : SUBSET Nat]
ObsRequests == [pc : {"write", "wait"}, conn : Nat, id : Nat]
ObTyped ==
  /\ obCfg \in ObsConfigs /\ obSetter \in BOOLEAN
  /\ obStop \in {"no", "asked", "waited", "done"}
  /\ obLoop \in [pc : {"top", "sleep", "ended"}] \cup [pc : {"dial"}, cfg : ObsConfigs]
                  \cup [pc : {"run", "closing"}, conn : ObsConns]
  /\ obConn \in {0} \cup ObsConns
  /\ obState \in {"disconnected", "connecting", "connected", "error"}
  /\ Cardinality(ObsConns) \in Nat /\ ObsConns = 1 .. Cardinality(ObsConns)
  /\ obClient \in [ObsConns -> ObsClients]
  /\ obCall \in [ObsCallers -> {NoObsRequest} \cup ObsRequests]

(* A reader ends and a context is cancelled only with the connection closed, and Stop has
   waited for the loop and for every goroutine before it disconnects.         *)
ObClosed == \A k \in ObsConns : ~obClient[k].reader \/ obClient[k].cancelled => ~obClient[k].open
ObStopped ==
  /\ obStop \in {"waited", "done"} =>
       LoopAt("ended") /\ \A k \in ObsConns : ~obClient[k].reader /\ ~obClient[k].stats
  /\ obStop = "done" => obConn = 0

(* A connection never gives a number twice, so that a reply has one caller at most. *)
ObsBusy(c) == obCall[c] # NoObsRequest
ObNumbered ==
  /\ \A k \in ObsConns : obClient[k].answered \subseteq 1 .. obClient[k].seq
  /\ \A c \in ObsCallers : ObsBusy(c) =>
       obCall[c].conn \in ObsConns /\ obCall[c].id \in 1 .. obClient[obCall[c].conn].seq
  /\ \A c, d \in ObsCallers :
       ObsBusy(c) /\ ObsBusy(d) /\ obCall[c].conn = obCall[d].conn /\ obCall[c].id = obCall[d].id => c = d
ObInv == ObTyped /\ ObClosed /\ ObStopped /\ ObNumbered /\ PendingIsWaiting

(* A step that leaves the requests alone: what they have to see of each connection. *)
LEMMA CallsFrame ==
  ASSUME ObTyped, ObNumbered, PendingIsWaiting, obCall' = obCall, ObsConns \subseteq ObsConns',
         \A k \in ObsConns : /\ obClient'[k].seq = obClient[k].seq /\ obClient'[k].pending = obClient[k].pending
                             /\ obClient'[k].answered = obClient[k].answered,
         \A k \in ObsConns' \ ObsConns :
           obClient'[k].seq = 0 /\ obClient'[k].pending = {} /\ obClient'[k].answered = {}
  PROVE  ObNumbered' /\ PendingIsWaiting'
<1>1. \A c \in ObsCallers : ObsBusy(c)' <=> ObsBusy(c)
  BY DEF ObsBusy
<1>2. ObNumbered'
  <2>1. \A k \in ObsConns' : obClient'[k].answered \subseteq 1 .. obClient'[k].seq
    BY DEF ObNumbered
  <2>2. \A c \in ObsCallers : ObsBusy(c) =>
          obCall'[c].conn \in ObsConns' /\ obCall'[c].id \in 1 .. obClient'[obCall'[c].conn].seq
    BY DEF ObNumbered
  <2> QED
    BY <1>1, <2>1, <2>2 DEF ObNumbered
<1>3. ASSUME NEW k \in ObsConns'
      PROVE  obClient'[k].pending =
               {id \in 1 .. obClient'[k].seq :
                  /\ id \notin obClient'[k].answered
                  /\ \E c \in ObsCallers : obCall'[c] # NoObsRequest /\ obCall'[c].conn = k /\ obCall'[c].id = id}
  <2>1. CASE k \in ObsConns
    BY <2>1 DEF PendingIsWaiting
  <2>2. CASE k \notin ObsConns
    <3>1. obClient'[k].seq = 0 /\ obClient'[k].pending = {}
      BY <1>3, <2>2
    <3>2. 1 .. 0 = {}
      OBVIOUS
    <3> QED
      BY <3>1, <3>2
  <2> QED
    BY <2>1, <2>2
<1> QED
  BY <1>2, <1>3 DEF PendingIsWaiting

(* A step of one request of caller c on connection k: the numbers it uses up and frees. *)
LEMMA CallSteps ==
  ASSUME ObTyped, ObClosed, ObStopped, NEW c \in ObsCallers, NEW k \in ObsConns, NEW r \in ObsClients,
         NEW q \in {NoObsRequest} \cup ObsRequests,
         obCall' = [obCall EXCEPT ![c] = q], obClient' = [obClient EXCEPT ![k] = r],
         r.open = obClient[k].open, r.reader = obClient[k].reader, r.stats = obClient[k].stats,
         r.cancelled = obClient[k].cancelled,
         UNCHANGED <<obCfg, obSetter, obStop, obLoop, obConn, obState>>
  PROVE  /\ ObTyped' /\ ObClosed' /\ ObStopped' /\ ObsConns' = ObsConns
         /\ obClient'[k] = r /\ obCall'[c] = q
         /\ \A j \in ObsConns : j # k => obClient'[j] = obClient[j]
         /\ \A d \in ObsCallers : d # c => obCall'[d] = obCall[d]
<1>1. /\ ObsConns' = ObsConns /\ obClient' \in [ObsConns' -> ObsClients]
      /\ obClient'[k] = r /\ \A j \in ObsConns : j # k => obClient'[j] = obClient[j]
  <2>1. obClient \in [ObsConns -> ObsClients]
    BY DEF ObTyped
  <2>2. obClient' \in [ObsConns -> ObsClients] /\ ObsConns' = ObsConns
    BY <2>1 DEF ObsConns
  <2> QED
    BY <2>1, <2>2
<1>2. /\ obCall' \in [ObsCallers -> {NoObsRequest} \cup ObsRequests]
      /\ obCall'[c] = q /\ \A d \in ObsCallers : d # c => obCall'[d] = obCall[d]
  BY DEF ObTyped
<1>3. ObTyped'
  BY <1>1, <1>2 DEF ObTyped
<1>4. \A j \in ObsConns : /\ obClient'[j].open = obClient[j].open /\ obClient'[j].reader = obClient[j].reader
                          /\ obClient'[j].stats = obClient[j].stats /\ obClient'[j].cancelled = obClient[j].cancelled
  BY <1>1
<1>5. ObClosed' /\ ObStopped'
  BY <1>1, <1>4 DEF ObClosed, ObStopped, LoopAt
<1> QED
  BY <1>1, <1>2, <1>3, <1>5

(* A request takes the next number of its connection. *)
LEMMA ObsBegins ==
  ASSUME ObInv, NEW c \in ObsCallers, NEW k \in ObsConns, ObsRequest(c, k) \/ QueryVersion(c, k) PROVE ObInv'
<1> DEFINE n == obClient[k].seq + 1
           q == [pc |-> "write", conn |-> k, id |-> n]
<1>1. PICK r : r = obClient'[k]
  OBVIOUS
<1>2. obClient[k] \in ObsClients /\ n \in Nat /\ obClient \in [ObsConns -> ObsClients] /\ k \in Nat
  BY DEF ObInv, ObTyped, ObsClients
<1>3. /\ obCall[c] = NoObsRequest /\ obCall' = [obCall EXCEPT ![c] = q]
      /\ UNCHANGED <<obCfg, obSetter, obStop, obLoop, obConn, obState>>
  BY DEF ObsRequest, QueryVersion
<1>4. /\ r \in ObsClients /\ obClient' = [obClient EXCEPT ![k] = r]
      /\ r.open = obClient[k].open /\ r.reader = obClient[k].reader /\ r.stats = obClient[k].stats
      /\ r.cancelled = obClient[k].cancelled
      /\ r.seq = n /\ r.pending = obClient[k].pending \cup {n} /\ r.answered = obClient[k].answered
  <2>1. CASE ObsRequest(c, k)
    <3>1. obClient' = [obClient EXCEPT ![k].seq = @ + 1, ![k].pending = @ \cup {n}]
      BY <2>1 DEF ObsRequest
    <3> QED
      BY <1>1, <1>2, <3>1 DEF ObsClients
  <2>2. CASE QueryVersion(c, k)
    <3>1. obClient' = [obClient EXCEPT ![k].version = FALSE, ![k].seq = @ + 1, ![k].pending = @ \cup {n}]
      BY <2>2 DEF QueryVersion
    <3> QED
      BY <1>1, <1>2, <3>1 DEF ObsClients
  <2> QED
    BY <2>1, <2>2
<1>5. q \in ObsRequests /\ q # NoObsRequest /\ q.conn = k /\ q.id = n
  BY <1>2 DEF ObsRequests, NoObsRequest
<1> HIDE DEF q
<1>6. /\ ObTyped' /\ ObClosed' /\ ObStopped' /\ ObsConns' = ObsConns
      /\ obClient'[k] = r /\ obCall'[c] = q
      /\ \A j \in ObsConns : j # k => obClient'[j] = obClient[j]
      /\ \A d \in ObsCallers : d # c => obCall'[d] = obCall[d]
  BY <1>3, <1>4, <1>5, CallSteps DEF ObInv
<1>7. obClient[k].seq \in Nat /\ \A i \in 1 .. obClient[k].seq : i \in 1 .. n /\ i # n
  BY <1>2 DEF ObsClients
<1>8. \A d \in ObsCallers : d # c /\ ObsBusy(d) /\ obCall[d].conn = k => obCall[d].id # n
  BY <1>7 DEF ObInv, ObNumbered
<1>9. ObNumbered'
  <2>1. \A j \in ObsConns : obClient'[j].answered \subseteq 1 .. obClient'[j].seq
    BY <1>4, <1>6, <1>7 DEF ObInv, ObNumbered
  <2>2. \A d \in ObsCallers : obCall'[d] # NoObsRequest =>
          obCall'[d].conn \in ObsConns /\ obCall'[d].id \in 1 .. obClient'[obCall'[d].conn].seq
    BY <1>2, <1>4, <1>5, <1>6, <1>7 DEF ObInv, ObNumbered, ObsBusy
  <2>3. \A a, b \in ObsCallers :
          obCall'[a] # NoObsRequest /\ obCall'[b] # NoObsRequest /\ obCall'[a].conn = obCall'[b].conn
            /\ obCall'[a].id = obCall'[b].id => a = b
    BY <1>5, <1>6, <1>8 DEF ObInv, ObNumbered, ObsBusy
  <2> QED
    BY <1>6, <2>1, <2>2, <2>3 DEF ObNumbered, ObsBusy
<1>10. PendingIsWaiting'
  <2>1. ASSUME NEW j \in ObsConns
        PROVE  obClient'[j].pending =
                 {id \in 1 .. obClient'[j].seq :
                    /\ id \notin obClient'[j].answered
                    /\ \E d \in ObsCallers : obCall'[d] # NoObsRequest /\ obCall'[d].conn = j /\ obCall'[d].id = id}
    <3>0. obClient[j].pending =
            {id \in 1 .. obClient[j].seq :
               /\ id \notin obClient[j].answered
               /\ \E d \in ObsCallers : obCall[d] # NoObsRequest /\ obCall[d].conn = j /\ obCall[d].id = id}
      BY <2>1 DEF ObInv, PendingIsWaiting
    <3>1. CASE j # k
      <4>1. \A id : (\E d \in ObsCallers : obCall'[d] # NoObsRequest /\ obCall'[d].conn = j /\ obCall'[d].id = id)
                <=> (\E d \in ObsCallers : obCall[d] # NoObsRequest /\ obCall[d].conn = j /\ obCall[d].id = id)
        BY <1>3, <1>5, <1>6, <3>1
      <4> QED
        BY <1>6, <3>0, <3>1, <4>1
    <3>2. CASE j = k
      <4>1. \A id : (\E d \in ObsCallers : obCall'[d] # NoObsRequest /\ obCall'[d].conn = k /\ obCall'[d].id = id)
                <=> id = n \/ (\E d \in ObsCallers : obCall[d] # NoObsRequest /\ obCall[d].conn = k /\ obCall[d].id = id)
        BY <1>3, <1>5, <1>6
      <4>2. n \notin obClient[k].answered /\ n \in 1 .. n
        BY <1>2, <1>7 DEF ObInv, ObNumbered
      <4>3. \A id \in 1 .. n : id = n \/ id \in 1 .. obClient[k].seq
        BY <1>2, <1>7
      <4> QED
        BY <1>4, <1>6, <1>7, <3>0, <3>2, <4>1, <4>2, <4>3
    <3> QED
      BY <3>1, <3>2
  <2> QED
    BY <1>6, <2>1 DEF PendingIsWaiting
<1> QED
  BY <1>6, <1>9, <1>10 DEF ObInv

(* A request ends: its number leaves the table with its caller. *)
LEMMA ObsCallEnds ==
  ASSUME ObInv, NEW c \in ObsCallers, ObsBusy(c), NEW k \in ObsConns, k = obCall[c].conn, NEW r \in ObsClients,
         obCall' = [obCall EXCEPT ![c] = NoObsRequest], obClient' = [obClient EXCEPT ![k] = r],
         r.open = obClient[k].open, r.reader = obClient[k].reader, r.stats = obClient[k].stats,
         r.cancelled = obClient[k].cancelled, r.seq = obClient[k].seq,
         r.pending = obClient[k].pending \ {obCall[c].id},
         \/ r.answered = obClient[k].answered
         \/ r.answered = obClient[k].answered \ {obCall[c].id},
         UNCHANGED <<obCfg, obSetter, obStop, obLoop, obConn, obState>>
  PROVE  ObInv'
<1>1. /\ ObTyped' /\ ObClosed' /\ ObStopped' /\ ObsConns' = ObsConns
      /\ obClient'[k] = r /\ obCall'[c] = NoObsRequest
      /\ \A j \in ObsConns : j # k => obClient'[j] = obClient[j]
      /\ \A d \in ObsCallers : d # c => obCall'[d] = obCall[d]
  BY CallSteps DEF ObInv
<1>2. ObNumbered'
  <2>1. \A j \in ObsConns : obClient'[j].seq = obClient[j].seq /\ obClient'[j].answered \subseteq obClient[j].answered
    BY <1>1
  <2>2. \A d \in ObsCallers : obCall'[d] # NoObsRequest => obCall'[d] = obCall[d]
    BY <1>1
  <2> QED
    BY <1>1, <2>1, <2>2 DEF ObInv, ObNumbered, ObsBusy
<1>3. \A d \in ObsCallers : d # c /\ obCall[d] # NoObsRequest /\ obCall[d].conn = k => obCall[d].id # obCall[c].id
  BY DEF ObInv, ObNumbered, ObsBusy
<1>4. PendingIsWaiting'
  <2>1. ASSUME NEW j \in ObsConns
        PROVE  obClient'[j].pending =
                 {id \in 1 .. obClient'[j].seq :
                    /\ id \notin obClient'[j].answered
                    /\ \E d \in ObsCallers : obCall'[d] # NoObsRequest /\ obCall'[d].conn = j /\ obCall'[d].id = id}
    <3>0. obClient[j].pending =
            {id \in 1 .. obClient[j].seq :
               /\ id \notin obClient[j].answered
               /\ \E d \in ObsCallers : obCall[d] # NoObsRequest /\ obCall[d].conn = j /\ obCall[d].id = id}
      BY <2>1 DEF ObInv, PendingIsWaiting
    <3>1. CASE j # k
      <4>1. \A id : (\E d \in ObsCallers : obCall'[d] # NoObsRequest /\ obCall'[d].conn = j /\ obCall'[d].id = id)
                <=> (\E d \in ObsCallers : obCall[d] # NoObsRequest /\ obCall[d].conn = j /\ obCall[d].id = id)
        BY <1>1, <3>1
      <4> QED
        BY <1>1, <3>0, <3>1, <4>1
    <3>2. CASE j = k
      <4>1. \A id : (\E d \in ObsCallers : obCall'[d] # NoObsRequest /\ obCall'[d].conn = k /\ obCall'[d].id = id)
                <=> /\ id # obCall[c].id
                    /\ \E d \in ObsCallers : obCall[d] # NoObsRequest /\ obCall[d].conn = k /\ obCall[d].id = id
        BY <1>1, <1>3
      <4> QED
        BY <1>1, <3>0, <3>2, <4>1
    <3> QED
      BY <3>1, <3>2
  <2> QED
    BY <1>1, <2>1 DEF PendingIsWaiting
<1> QED
  BY <1>1, <1>2, <1>4 DEF ObInv

(* What a busy caller's request says. *)
LEMMA ObsBusyCall ==
  ASSUME ObInv, NEW c \in ObsCallers, obCall[c].pc \in {"write", "wait"}
  PROVE  /\ ObsBusy(c) /\ obCall[c] \in ObsRequests /\ obCall[c].conn \in ObsConns
         /\ obClient[obCall[c].conn] \in ObsClients
         /\ obCall[c].id \in 1 .. obClient[obCall[c].conn].seq
<1>1. ObsBusy(c) /\ obCall[c] \in ObsRequests
  BY DEF ObInv, ObTyped, ObsBusy, NoObsRequest
<1>2. obCall[c].conn \in ObsConns /\ obCall[c].id \in 1 .. obClient[obCall[c].conn].seq
  BY <1>1 DEF ObInv, ObNumbered
<1>3. obClient[obCall[c].conn] \in ObsClients
  BY <1>2 DEF ObInv, ObTyped
<1> QED
  BY <1>1, <1>2, <1>3

LEMMA ObsEnds ==
  ASSUME ObInv, NEW c \in ObsCallers,
         \/ RequestReturns(c) \/ RequestTimesOut(c)
         \/ WriteFrame(c) /\ ~obClient[obCall[c].conn].open
  PROVE  ObInv'
<1>1. /\ obCall[c].pc \in {"write", "wait"} /\ obCall' = [obCall EXCEPT ![c] = NoObsRequest]
      /\ UNCHANGED <<obCfg, obSetter, obStop, obLoop, obConn, obState>>
  BY DEF RequestReturns, RequestTimesOut, WriteFrame
<1>2. PICK k \in ObsConns : k = obCall[c].conn
  BY <1>1, ObsBusyCall
<1>3. /\ ObsBusy(c) /\ obClient[k] \in ObsClients /\ obClient \in [ObsConns -> ObsClients]
  BY <1>1, <1>2, ObsBusyCall DEF ObInv, ObTyped
<1>4. PICK r : r = obClient'[k]
  OBVIOUS
<1>5. /\ r \in ObsClients /\ obClient' = [obClient EXCEPT ![k] = r]
      /\ r.open = obClient[k].open /\ r.reader = obClient[k].reader /\ r.stats = obClient[k].stats
      /\ r.cancelled = obClient[k].cancelled /\ r.seq = obClient[k].seq
      /\ r.pending = obClient[k].pending \ {obCall[c].id}
      /\ \/ r.answered = obClient[k].answered
         \/ r.answered = obClient[k].answered \ {obCall[c].id}
  <2>1. CASE RequestReturns(c)
    <3>1. obClient' = [obClient EXCEPT ![k].answered = @ \ {obCall[c].id}] /\ obCall[c].id \in obClient[k].answered
      BY <1>2, <2>1 DEF RequestReturns
    <3>2. obCall[c].id \notin obClient[k].pending
      BY <3>1 DEF ObInv, PendingIsWaiting
    <3>3. /\ r \in ObsClients /\ obClient' = [obClient EXCEPT ![k] = r]
          /\ r.open = obClient[k].open /\ r.reader = obClient[k].reader /\ r.stats = obClient[k].stats
          /\ r.cancelled = obClient[k].cancelled /\ r.seq = obClient[k].seq
          /\ r.pending = obClient[k].pending /\ r.answered = obClient[k].answered \ {obCall[c].id}
      BY <1>3, <1>4, <3>1 DEF ObsClients
    <3> QED
      BY <3>2, <3>3
  <2>2. CASE RequestTimesOut(c)
    <3>1. obClient' = [obClient EXCEPT ![k].pending = @ \ {obCall[c].id}, ![k].answered = @ \ {obCall[c].id}]
      BY <1>2, <2>2 DEF RequestTimesOut
    <3> QED
      BY <1>3, <1>4, <3>1 DEF ObsClients
  <2>3. CASE WriteFrame(c) /\ ~obClient[obCall[c].conn].open
    <3>1. obClient' = [obClient EXCEPT ![k].pending = @ \ {obCall[c].id}]
      BY <1>2, <2>3 DEF WriteFrame
    <3> QED
      BY <1>3, <1>4, <3>1 DEF ObsClients
  <2> QED
    BY <2>1, <2>2, <2>3
<1> QED
  BY <1>1, <1>2, <1>3, <1>5, ObsCallEnds

(* The frame is written: the caller waits under the number it has. *)
LEMMA ObsWritten ==
  ASSUME ObInv, NEW c \in ObsCallers, WriteFrame(c), obClient[obCall[c].conn].open PROVE ObInv'
<1>1. /\ obCall[c].pc = "write" /\ obCall' = [obCall EXCEPT ![c].pc = "wait"]
      /\ UNCHANGED <<obCfg, obSetter, obStop, obLoop, obConn, obState, obClient>>
  BY DEF WriteFrame
<1>2. obCall[c] \in ObsRequests /\ ObsBusy(c)
  BY <1>1, ObsBusyCall
<1>3. PICK q : q = [obCall[c] EXCEPT !.pc = "wait"]
  OBVIOUS
<1>4. q \in ObsRequests /\ q.conn = obCall[c].conn /\ q.id = obCall[c].id /\ q # NoObsRequest
  BY <1>2, <1>3 DEF ObsRequests, NoObsRequest
<1>5. /\ obCall' \in [ObsCallers -> {NoObsRequest} \cup ObsRequests]
      /\ obCall'[c] = q /\ \A d \in ObsCallers : d # c => obCall'[d] = obCall[d]
  BY <1>1, <1>3, <1>4 DEF ObInv, ObTyped
<1>6. ObsConns' = ObsConns
  BY <1>1 DEF ObsConns
<1>7. \A d \in ObsCallers : /\ obCall'[d] # NoObsRequest <=> obCall[d] # NoObsRequest
                            /\ obCall'[d].conn = obCall[d].conn /\ obCall'[d].id = obCall[d].id
  BY <1>2, <1>4, <1>5 DEF ObsBusy
<1>8. ObTyped' /\ ObClosed' /\ ObStopped'
  BY <1>1, <1>5, <1>6 DEF ObInv, ObTyped, ObClosed, ObStopped, LoopAt
<1>9. ObNumbered'
  BY <1>1, <1>6, <1>7 DEF ObInv, ObNumbered, ObsBusy
<1>10. PendingIsWaiting'
  BY <1>1, <1>6, <1>7 DEF ObInv, PendingIsWaiting
<1> QED
  BY <1>8, <1>9, <1>10 DEF ObInv

(* A reply comes in, and is routed to the caller that waits under its number. *)
LEMMA ObsReplies ==
  ASSUME ObInv,
         \/ \E c \in ObsCallers : ObsAnswers(c)
         \/ \E k \in ObsConns : \E id \in obClient[k].replies : RouteReply(k, id)
  PROVE  ObInv'
<1>1. ASSUME NEW c \in ObsCallers, ObsAnswers(c) PROVE ObInv'
  <2>1. /\ obCall[c].pc \in {"write", "wait"} /\ obCall' = obCall
        /\ UNCHANGED <<obCfg, obSetter, obStop, obLoop, obConn, obState>>
    BY <1>1 DEF ObsAnswers
  <2>2. PICK k \in ObsConns : k = obCall[c].conn
    BY <2>1, ObsBusyCall
  <2>3. /\ obClient[k] \in ObsClients /\ obClient \in [ObsConns -> ObsClients] /\ obCall[c].id \in Nat
        /\ obCall \in [ObsCallers -> {NoObsRequest} \cup ObsRequests] /\ obCall' = [obCall EXCEPT ![c] = obCall[c]]
    BY <2>1, <2>2, ObsBusyCall DEF ObInv, ObTyped, ObsRequests
  <2>4. PICK r : r = [obClient[k] EXCEPT !.replies = @ \cup {obCall[c].id}]
    OBVIOUS
  <2>5. obClient' = [obClient EXCEPT ![k] = r]
    BY <1>1, <2>2, <2>4 DEF ObsAnswers
  <2>6. /\ r \in ObsClients
        /\ r.open = obClient[k].open /\ r.reader = obClient[k].reader /\ r.stats = obClient[k].stats
        /\ r.cancelled = obClient[k].cancelled /\ r.seq = obClient[k].seq
        /\ r.pending = obClient[k].pending /\ r.answered = obClient[k].answered
    BY <2>3, <2>4 DEF ObsClients
  <2>7. obCall[c] \in {NoObsRequest} \cup ObsRequests
    BY <2>3
  <2>8. /\ ObTyped' /\ ObClosed' /\ ObStopped' /\ ObsConns' = ObsConns /\ obClient'[k] = r
        /\ \A j \in ObsConns : j # k => obClient'[j] = obClient[j]
    BY <2>1, <2>3, <2>5, <2>6, <2>7, CallSteps DEF ObInv
  <2>9. \A j \in ObsConns : /\ obClient'[j].seq = obClient[j].seq /\ obClient'[j].pending = obClient[j].pending
                            /\ obClient'[j].answered = obClient[j].answered
    BY <2>6, <2>8
  <2>10. ObNumbered' /\ PendingIsWaiting'
    BY <2>1, <2>8, <2>9, CallsFrame DEF ObInv
  <2> QED
    BY <2>8, <2>10 DEF ObInv
<1>2. ASSUME NEW k \in ObsConns, NEW id \in obClient[k].replies, RouteReply(k, id) PROVE ObInv'
  <2>1. obCall' = obCall /\ UNCHANGED <<obCfg, obSetter, obStop, obLoop, obConn, obState>>
    BY <1>2 DEF RouteReply
  <2>2. obClient[k] \in ObsClients /\ obClient \in [ObsConns -> ObsClients] /\ id \in Nat
    BY DEF ObInv, ObTyped, ObsClients
  <2>3. PICK r : r = obClient'[k]
    OBVIOUS
  <2>4. obClient' = [obClient EXCEPT ![k].replies = @ \ {id}, ![k].pending = @ \ {id},
                       ![k].answered = IF id \in obClient[k].pending THEN @ \cup {id} ELSE @]
    BY <1>2 DEF RouteReply
  <2>5. /\ obClient' = [obClient EXCEPT ![k] = r] /\ r \in ObsClients
        /\ r.open = obClient[k].open /\ r.reader = obClient[k].reader /\ r.stats = obClient[k].stats
        /\ r.cancelled = obClient[k].cancelled /\ r.seq = obClient[k].seq
        /\ r.pending = obClient[k].pending \ {id}
        /\ r.answered = (IF id \in obClient[k].pending THEN obClient[k].answered \cup {id} ELSE obClient[k].answered)
    BY <2>2, <2>3, <2>4 DEF ObsClients
  <2>6. ObsConns' = ObsConns /\ obClient' \in [ObsConns -> ObsClients] /\ obClient'[k] = r
        /\ \A j \in ObsConns : j # k => obClient'[j] = obClient[j]
    BY <2>2, <2>5 DEF ObsConns
  <2>7. ObTyped'
    BY <2>1, <2>6 DEF ObInv, ObTyped
  <2>8. \A j \in ObsConns : /\ obClient'[j].open = obClient[j].open /\ obClient'[j].reader = obClient[j].reader
                            /\ obClient'[j].stats = obClient[j].stats
                            /\ obClient'[j].cancelled = obClient[j].cancelled /\ obClient'[j].seq = obClient[j].seq
    BY <2>5, <2>6
  <2>9. ObClosed' /\ ObStopped'
    BY <2>1, <2>6, <2>8 DEF ObInv, ObClosed, ObStopped, LoopAt
  <2>10. obClient[k].pending \subseteq 1 .. obClient[k].seq
    BY DEF ObInv, PendingIsWaiting
  <2>11. ObNumbered'
    <3>1. \A j \in ObsConns : obClient'[j].answered \subseteq 1 .. obClient'[j].seq
      BY <2>5, <2>6, <2>8, <2>10 DEF ObInv, ObNumbered
    <3> QED
      BY <2>1, <2>6, <2>8, <3>1 DEF ObInv, ObNumbered, ObsBusy
  <2>12. ASSUME NEW j \in ObsConns
         PROVE  obClient'[j].pending =
                  {i \in 1 .. obClient'[j].seq :
                     /\ i \notin obClient'[j].answered
                     /\ \E d \in ObsCallers : obCall'[d] # NoObsRequest /\ obCall'[d].conn = j /\ obCall'[d].id = i}
    <3>0. obClient[j].pending =
            {i \in 1 .. obClient[j].seq :
               /\ i \notin obClient[j].answered
               /\ \E d \in ObsCallers : obCall[d] # NoObsRequest /\ obCall[d].conn = j /\ obCall[d].id = i}
      BY <2>12 DEF ObInv, PendingIsWaiting
    <3>1. CASE j # k
      BY <2>1, <2>6, <3>0, <3>1
    <3>2. CASE j = k
      BY <2>1, <2>5, <2>6, <3>0, <3>2
    <3> QED
      BY <3>1, <3>2
  <2> QED
    BY <2>6, <2>7, <2>9, <2>11, <2>12 DEF ObInv, PendingIsWaiting
<1> QED
  BY <1>1, <1>2

(* A step of connection k that makes no request: it can only be closed further. *)
LEMMA ConnSteps ==
  ASSUME ObInv, NEW k \in ObsConns, NEW r \in ObsClients, obCall' = obCall, obClient' = [obClient EXCEPT ![k] = r],
         r.seq = obClient[k].seq, r.pending = obClient[k].pending, r.answered = obClient[k].answered,
         r.reader => obClient[k].reader, r.stats => obClient[k].stats,
         ~r.reader \/ r.cancelled => ~r.open
  PROVE  /\ ObsConns' = ObsConns /\ obClient' \in [ObsConns -> ObsClients]
         /\ ObClosed' /\ ObNumbered' /\ PendingIsWaiting'
         /\ \A j \in ObsConns : /\ obClient'[j].reader => obClient[j].reader
                                /\ obClient'[j].stats => obClient[j].stats
<1>1. obClient \in [ObsConns -> ObsClients]
  BY DEF ObInv, ObTyped
<1>2. /\ ObsConns' = ObsConns /\ obClient' \in [ObsConns -> ObsClients]
      /\ obClient'[k] = r /\ \A j \in ObsConns : j # k => obClient'[j] = obClient[j]
  BY <1>1 DEF ObsConns
<1>3. \A j \in ObsConns : /\ obClient'[j].seq = obClient[j].seq /\ obClient'[j].pending = obClient[j].pending
                          /\ obClient'[j].answered = obClient[j].answered
  BY <1>2
<1>4. ObNumbered' /\ PendingIsWaiting'
  BY <1>2, <1>3, CallsFrame DEF ObInv
<1>5. ObClosed'
  BY <1>2 DEF ObInv, ObClosed
<1> QED
  BY <1>2, <1>4, <1>5

(* The steps that change one connection. *)
LEMMA ObsConnMoves ==
  ASSUME ObInv,
         \/ LoopLosesConn \/ LoopCloses
         \/ obConn # 0 /\ (SetConfigCloses \/ StopDisconnects)
         \/ \E k \in ObsConns : ReaderEnds(k) \/ StatsEnd(k) \/ ObsHangsUp(k)
  PROVE  ObInv'
<1>0. /\ obClient \in [ObsConns -> ObsClients] /\ obConn \in {0} \cup ObsConns
      /\ obLoop.pc = "run" => obLoop.conn \in ObsConns
      /\ obCfg \in ObsConfigs /\ obSetter \in BOOLEAN
      /\ Cardinality(ObsConns) \in Nat /\ ObsConns = 1 .. Cardinality(ObsConns)
  BY DEF ObInv, ObTyped
<1>1. CASE LoopLosesConn
  <2>1. PICK k \in ObsConns : k = obLoop.conn
    BY <1>0, <1>1 DEF LoopLosesConn, LoopAt
  <2>2. PICK r : r = [obClient[k] EXCEPT !.cancelled = TRUE]
    OBVIOUS
  <2>3. /\ obClient' = [obClient EXCEPT ![k] = r] /\ ~obClient[k].reader /\ obConn' = 0 /\ obState' = "disconnected"
        /\ obLoop.pc = "run" /\ obLoop' = [pc |-> "top"] /\ UNCHANGED <<obCfg, obSetter, obStop, obCall>>
    BY <1>1, <2>1, <2>2 DEF LoopLosesConn, LoopAt
  <2>4. ~obClient[k].open
    BY <2>3 DEF ObInv, ObClosed
  <2>5. obClient[k] \in ObsClients
    BY <1>0
  <2>6. /\ r \in ObsClients /\ r.seq = obClient[k].seq /\ r.pending = obClient[k].pending
        /\ r.answered = obClient[k].answered /\ r.reader = obClient[k].reader /\ r.stats = obClient[k].stats
        /\ r.open = obClient[k].open
    BY <2>2, <2>5 DEF ObsClients
  <2>7. /\ ObsConns' = ObsConns /\ obClient' \in [ObsConns -> ObsClients]
        /\ ObClosed' /\ ObNumbered' /\ PendingIsWaiting'
    BY <2>3, <2>4, <2>6, ConnSteps
  <2>8. ObTyped'
    BY <2>3, <2>7 DEF ObInv, ObTyped
  <2>9. ObStopped'
    BY <2>3, <2>7 DEF ObInv, ObStopped, LoopAt
  <2> QED
    BY <2>7, <2>8, <2>9 DEF ObInv
<1>2. CASE LoopCloses
  <2>1. PICK k \in ObsConns : k = obLoop.conn
    BY <1>0, <1>2 DEF LoopCloses, LoopAt
  <2>2. PICK r : r = [obClient[k] EXCEPT !.cancelled = TRUE, !.open = FALSE]
    OBVIOUS
  <2>3. /\ obLoop' = [pc |-> "closing", conn |-> k] /\ obLoop.pc = "run"
        /\ UNCHANGED <<obCfg, obSetter, obStop, obConn, obState, obCall>>
    BY <1>2, <2>1 DEF LoopCloses, LoopAt
  <2>4. obClient' = [obClient EXCEPT ![k] = r]
    BY <1>0, <1>2, <2>1, <2>2 DEF LoopCloses, ObsClients
  <2>5. obClient[k] \in ObsClients
    BY <1>0
  <2>6. /\ r \in ObsClients /\ r.seq = obClient[k].seq /\ r.pending = obClient[k].pending
        /\ r.answered = obClient[k].answered /\ r.reader = obClient[k].reader /\ r.stats = obClient[k].stats
        /\ r.open = FALSE
    BY <2>2, <2>5 DEF ObsClients
  <2>7. /\ ObsConns' = ObsConns /\ obClient' \in [ObsConns -> ObsClients]
        /\ ObClosed' /\ ObNumbered' /\ PendingIsWaiting'
    BY <2>3, <2>4, <2>6, ConnSteps
  <2>8. ObTyped'
    BY <2>3, <2>7 DEF ObInv, ObTyped
  <2>9. ObStopped'
    BY <2>3, <2>7 DEF ObInv, ObStopped, LoopAt
  <2> QED
    BY <2>7, <2>8, <2>9 DEF ObInv
<1>3. ASSUME NEW k \in ObsConns,
             \/ ReaderEnds(k) \/ StatsEnd(k) \/ ObsHangsUp(k)
             \/ k = obConn /\ (SetConfigCloses \/ StopDisconnects)
      PROVE  ObInv'
  <2>1. PICK r : r = obClient'[k]
    OBVIOUS
  <2>2. obClient[k] \in ObsClients /\ k # 0
    BY <1>0
  <2>3. /\ \/ obClient' = [obClient EXCEPT ![k].open = FALSE]
           \/ obClient' = [obClient EXCEPT ![k].reader = FALSE] /\ (~obClient[k].open \/ obClient[k].cancelled)
           \/ obClient' = [obClient EXCEPT ![k].stats = FALSE]
        /\ UNCHANGED <<obCfg, obLoop, obCall>> /\ obSetter' \in BOOLEAN
        /\ \/ obStop' = obStop /\ obConn' = obConn /\ obState' = obState
           \/ obStop = "waited" /\ obStop' = "done" /\ obConn' = 0 /\ obState' = "disconnected"
    BY <1>0, <1>3, <2>2 DEF ReaderEnds, StatsEnd, ObsHangsUp, SetConfigCloses, StopDisconnects
  <2>4. /\ obClient' = [obClient EXCEPT ![k] = r] /\ r \in ObsClients
        /\ r.seq = obClient[k].seq /\ r.pending = obClient[k].pending
        /\ r.answered = obClient[k].answered /\ r.cancelled = obClient[k].cancelled
        /\ \/ r.open = FALSE /\ r.reader = obClient[k].reader /\ r.stats = obClient[k].stats
           \/ /\ r.open = obClient[k].open /\ r.reader = FALSE /\ r.stats = obClient[k].stats
              /\ ~obClient[k].open \/ obClient[k].cancelled
           \/ r.open = obClient[k].open /\ r.reader = obClient[k].reader /\ r.stats = FALSE
    <3>1. CASE obClient' = [obClient EXCEPT ![k].open = FALSE]
      BY <1>0, <2>1, <2>2, <3>1 DEF ObsClients
    <3>2. CASE obClient' = [obClient EXCEPT ![k].reader = FALSE] /\ (~obClient[k].open \/ obClient[k].cancelled)
      BY <1>0, <2>1, <2>2, <3>2 DEF ObsClients
    <3>3. CASE obClient' = [obClient EXCEPT ![k].stats = FALSE]
      BY <1>0, <2>1, <2>2, <3>3 DEF ObsClients
    <3> QED
      BY <2>3, <3>1, <3>2, <3>3
  <2>5. ~obClient[k].reader \/ obClient[k].cancelled => ~obClient[k].open
    BY DEF ObInv, ObClosed
  <2>6. (r.reader => obClient[k].reader) /\ (r.stats => obClient[k].stats) /\ (~r.reader \/ r.cancelled => ~r.open)
    BY <2>4, <2>5
  <2>7. /\ ObsConns' = ObsConns /\ obClient' \in [ObsConns -> ObsClients]
        /\ ObClosed' /\ ObNumbered' /\ PendingIsWaiting'
        /\ \A j \in ObsConns : /\ obClient'[j].reader => obClient[j].reader
                               /\ obClient'[j].stats => obClient[j].stats
    BY <2>3, <2>4, <2>6, ConnSteps
  <2>8. ObTyped'
    BY <2>3, <2>7 DEF ObInv, ObTyped
  <2>9. ObStopped'
    BY <2>3, <2>7 DEF ObInv, ObStopped, LoopAt
  <2> QED
    BY <2>7, <2>8, <2>9 DEF ObInv
<1> QED
  BY <1>0, <1>1, <1>2, <1>3

(* The steps that change no connection. *)
LEMMA ObsQuietMoves ==
  ASSUME ObInv,
         \/ LoopStops \/ LoopReadsConfig \/ LoopWakes \/ ObsDialFails \/ LoopEnds \/ StopAsked \/ StopWaits
         \/ obConn = 0 /\ (SetConfigCloses \/ StopDisconnects)
         \/ \E enabled \in BOOLEAN : SetConfig(enabled)
         \/ UNCHANGED obVars
  PROVE  ObInv'
<1>1. obClient' = obClient /\ obCall' = obCall
  BY DEF LoopStops, LoopReadsConfig, LoopWakes, ObsDialFails, LoopEnds, StopAsked, StopWaits, SetConfigCloses,
         StopDisconnects, SetConfig, obVars
<1>2. ObsConns' = ObsConns
  BY <1>1 DEF ObsConns
<1>3. ObClosed'
  BY <1>1, <1>2 DEF ObInv, ObClosed
<1>4. ObNumbered' /\ PendingIsWaiting'
  BY <1>1, <1>2, CallsFrame DEF ObInv
<1>5. /\ obCfg \in ObsConfigs /\ obSetter \in BOOLEAN /\ obStop \in {"no", "asked", "waited", "done"}
      /\ obConn \in {0} \cup ObsConns
      /\ obState \in {"disconnected", "connecting", "connected", "error"}
      /\ obLoop \in [pc : {"top", "sleep", "ended"}] \cup [pc : {"dial"}, cfg : ObsConfigs]
                      \cup [pc : {"run", "closing"}, conn : ObsConns]
  BY DEF ObInv, ObTyped
<1>6. /\ obCfg' \in ObsConfigs
      /\ obLoop' \in [pc : {"top", "sleep", "ended"}] \cup [pc : {"dial"}, cfg : ObsConfigs]
                       \cup [pc : {"run", "closing"}, conn : ObsConns]
  <2>1. CASE \E enabled \in BOOLEAN : SetConfig(enabled)
    <3>1. PICK enabled \in BOOLEAN : SetConfig(enabled)
      BY <2>1
    <3>2. obCfg.n \in Nat /\ obCfg.n < MaxObsConfigs /\ MaxObsConfigs \in Nat
      BY <1>5, <3>1, ObsConstants DEF SetConfig, ObsConfigs
    <3>3. obCfg.n + 1 \in 0 .. MaxObsConfigs
      BY <3>2
    <3> QED
      BY <1>5, <3>1, <3>3 DEF SetConfig, ObsConfigs
  <2>2. CASE LoopReadsConfig
    BY <1>5, <2>2 DEF LoopReadsConfig
  <2>3. CASE \/ LoopStops \/ LoopWakes \/ ObsDialFails \/ LoopEnds \/ StopAsked \/ StopWaits
             \/ (obConn = 0 /\ (SetConfigCloses \/ StopDisconnects)) \/ UNCHANGED obVars
    <3>1. obCfg' = obCfg /\ (obLoop' = obLoop \/ obLoop' \in [pc : {"top", "sleep", "ended"}])
      BY <2>3 DEF LoopStops, LoopWakes, ObsDialFails, LoopEnds, StopAsked, StopWaits, SetConfigCloses,
                  StopDisconnects, obVars
    <3> QED
      BY <1>5, <3>1
  <2> QED
    BY <2>1, <2>2, <2>3
<1>7. /\ obSetter' \in BOOLEAN /\ obStop' \in {"no", "asked", "waited", "done"}
      /\ obConn' \in {0} \cup ObsConns
      /\ obState' \in {"disconnected", "connecting", "connected", "error"}
  BY <1>5 DEF LoopStops, LoopReadsConfig, LoopWakes, ObsDialFails, LoopEnds, StopAsked, StopWaits, SetConfigCloses,
              StopDisconnects, SetConfig, obVars
<1>8. ObTyped'
  BY <1>1, <1>2, <1>6, <1>7 DEF ObInv, ObTyped
<1>9. ObStopped'
  <2>1. CASE StopWaits
    <3>1. /\ obLoop' = obLoop /\ LoopAt("ended") /\ obStop' = "waited"
          /\ \A k \in ObsConns : ~obClient[k].reader /\ ~obClient[k].stats
      BY <2>1 DEF StopWaits
    <3> QED
      BY <1>1, <1>2, <3>1 DEF ObStopped, LoopAt
  <2>2. CASE StopAsked
    <3>1. obStop' = "asked"
      BY <2>2 DEF StopAsked
    <3> QED
      BY <3>1 DEF ObStopped
  <2>3. CASE StopDisconnects
    <3>1. obStop = "waited" /\ obLoop' = obLoop /\ obConn' = 0
      BY <2>3 DEF StopDisconnects
    <3> QED
      BY <1>1, <1>2, <3>1 DEF ObInv, ObStopped, LoopAt
  <2>4. CASE LoopStops \/ LoopReadsConfig \/ LoopWakes \/ ObsDialFails \/ LoopEnds
    <3>1. obLoop.pc # "ended" /\ obStop' = obStop
      BY <2>4 DEF LoopStops, LoopReadsConfig, LoopWakes, ObsDialFails, LoopEnds, LoopAt
    <3> QED
      BY <3>1 DEF ObInv, ObStopped, LoopAt
  <2>5. CASE SetConfigCloses \/ (\E enabled \in BOOLEAN : SetConfig(enabled)) \/ UNCHANGED obVars
    <3>1. obStop' = obStop /\ obLoop' = obLoop /\ obConn' = obConn
      BY <2>5 DEF SetConfigCloses, SetConfig, obVars
    <3> QED
      BY <1>1, <1>2, <3>1 DEF ObInv, ObStopped, LoopAt
  <2> QED
    BY <2>1, <2>2, <2>3, <2>4, <2>5
<1> QED
  BY <1>3, <1>4, <1>8, <1>9 DEF ObInv

(* A dial that succeeds makes a connection, with a reader and no requests. *)
LEMMA ObsDials == ASSUME ObInv, NEW pushes \in BOOLEAN, ObsDialSucceeds(pushes) PROVE ObInv'
<1> DEFINE n == Cardinality(ObsConns)
           k == n + 1
           r == [open |-> TRUE, cfg |-> obLoop.cfg, reader |-> TRUE, stats |-> pushes, version |-> TRUE,
                 cancelled |-> FALSE, seq |-> 0, pending |-> {}, replies |-> {}, answered |-> {}]
<1>1. /\ obLoop.pc = "dial" /\ obLoop' = [pc |-> "run", conn |-> k] /\ obConn' = k /\ obState' = "connected"
      /\ obClient' = [j \in 1 .. k |-> IF j < k THEN obClient[j] ELSE r]
      /\ UNCHANGED <<obCfg, obSetter, obStop, obCall>>
  BY DEF ObsDialSucceeds, LoopAt
<1>2. /\ n \in Nat /\ ObsConns = 1 .. n /\ obClient \in [ObsConns -> ObsClients]
      /\ obLoop.cfg \in ObsConfigs
  BY <1>1 DEF ObInv, ObTyped
<1>3. r \in ObsClients /\ r.open /\ r.reader /\ ~r.cancelled /\ r.seq = 0 /\ r.pending = {} /\ r.answered = {}
  BY <1>2 DEF ObsClients
<1> HIDE DEF r
<1>4. /\ ObsConns' = 1 .. k /\ k \in Nat /\ k \in 1 .. k /\ ObsConns \subseteq 1 .. k
      /\ \A j \in 1 .. k : (j \in ObsConns /\ j < k) \/ (j = k /\ j \notin ObsConns)
  BY <1>1, <1>2 DEF ObsConns
<1>5. (\A j \in ObsConns : obClient'[j] = obClient[j]) /\ obClient'[k] = r
  BY <1>1, <1>2, <1>4
<1>6. Cardinality(ObsConns)' = k
  BY <1>2, <1>4, FS_Interval
<1>7. obClient' \in [1 .. k -> ObsClients]
  BY <1>1, <1>2, <1>3, <1>4
<1>8. ObTyped'
  <2>1. /\ Cardinality(ObsConns)' \in Nat /\ ObsConns' = 1 .. Cardinality(ObsConns)'
        /\ obClient' \in [ObsConns' -> ObsClients]
    BY <1>4, <1>6, <1>7
  <2>2. obLoop' \in [pc : {"run", "closing"}, conn : ObsConns'] /\ obConn' \in ObsConns'
    BY <1>1, <1>4
  <2> QED
    BY <1>1, <2>1, <2>2 DEF ObInv, ObTyped
<1>9. ObClosed'
  BY <1>3, <1>4, <1>5 DEF ObInv, ObClosed
<1>10. ObStopped'
  BY <1>1 DEF ObInv, ObStopped, LoopAt
<1>11. ObNumbered' /\ PendingIsWaiting'
  BY <1>1, <1>3, <1>4, <1>5, CallsFrame DEF ObInv
<1> QED
  BY <1>8, <1>9, <1>10, <1>11 DEF ObInv

LEMMA ObInitial == ObsInit => ObInv
<1> SUFFICES ASSUME ObsInit PROVE ObInv
  OBVIOUS
<1>1. /\ obCfg \in [n : {0}, enabled : BOOLEAN] /\ obSetter = FALSE /\ obStop = "no"
      /\ obLoop = [pc |-> "top"] /\ obConn = 0 /\ obState = "disconnected" /\ obClient = <<>>
      /\ obCall = [c \in ObsCallers |-> NoObsRequest]
  BY DEF ObsInit
<1>2. ObsConns = {}
  BY <1>1 DEF ObsConns
<1>3. Cardinality(ObsConns) = 0 /\ 1 .. 0 = {}
  BY <1>2, FS_EmptySet
<1>4. obClient \in [ObsConns -> ObsClients]
  BY <1>1, <1>2
<1>5. obCfg \in ObsConfigs
  BY <1>1, ObsConstants DEF ObsConfigs
<1>6. ObTyped
  <2>1. Cardinality(ObsConns) \in Nat /\ ObsConns = 1 .. Cardinality(ObsConns)
    BY <1>2, <1>3
  <2>2. obCall \in [ObsCallers -> {NoObsRequest} \cup ObsRequests]
    BY <1>1
  <2>3. obLoop \in [pc : {"top", "sleep", "ended"}]
    BY <1>1
  <2> QED
    BY <1>1, <1>4, <1>5, <2>1, <2>2, <2>3 DEF ObTyped
<1>7. ObClosed /\ ObStopped /\ ObNumbered /\ PendingIsWaiting
  BY <1>1, <1>2 DEF ObClosed, ObStopped, ObNumbered, PendingIsWaiting, ObsBusy
<1> QED
  BY <1>6, <1>7 DEF ObInv

LEMMA ObStep == ObInv /\ [ObsNext]_obVars => ObInv'
<1> SUFFICES ASSUME ObInv, [ObsNext]_obVars PROVE ObInv'
  OBVIOUS
<1>1. ASSUME ObsLoop \/ SetConfigCloses \/ StopAsked \/ StopWaits \/ StopDisconnects PROVE ObInv'
  <2>1. CASE \E pushes \in BOOLEAN : ObsDialSucceeds(pushes)
    BY <2>1, ObsDials
  <2>2. CASE LoopLosesConn \/ LoopCloses \/ (obConn # 0 /\ (SetConfigCloses \/ StopDisconnects))
    BY <2>2, ObsConnMoves
  <2>3. CASE \/ LoopStops \/ LoopReadsConfig \/ LoopWakes \/ ObsDialFails \/ LoopEnds \/ StopAsked \/ StopWaits
             \/ obConn = 0 /\ (SetConfigCloses \/ StopDisconnects)
    BY <2>3, ObsQuietMoves
  <2> QED
    BY <1>1, <2>1, <2>2, <2>3 DEF ObsLoop
<1>2. ASSUME NEW enabled \in BOOLEAN, SetConfig(enabled) PROVE ObInv'
  BY <1>2, ObsQuietMoves
<1>3. ASSUME NEW k \in ObsConns,
             ReaderEnds(k) \/ StatsEnd(k) \/ ObsHangsUp(k) \/ \E id \in obClient[k].replies : RouteReply(k, id)
      PROVE  ObInv'
  BY <1>3, ObsConnMoves, ObsReplies
<1>4. ASSUME NEW c \in ObsCallers, WriteFrame(c) \/ ObsAnswers(c) \/ RequestReturns(c) \/ RequestTimesOut(c)
      PROVE  ObInv'
  BY <1>4, ObsWritten, ObsEnds, ObsReplies
<1>5. ASSUME NEW c \in ObsCallers, NEW k \in ObsConns,
             \/ ObsHandlerRequest(c, k) \/ PushStats(c, k) \/ QueryVersion(c, k)
             \/ \E type \in {"raid", "chat"} : ObsConsume(c, k, type)
      PROVE  ObInv'
  BY <1>5, ObsBegins DEF ObsHandlerRequest, PushStats, ObsConsume
<1>6. CASE UNCHANGED obVars
  BY <1>6, ObsQuietMoves
<1> QED
  BY <1>1, <1>2, <1>3, <1>4, <1>5, <1>6 DEF ObsNext

(* Requests to OBS and connections both end, whatever the callers and the number of
   connections: the table of pending replies of a connection holds exactly the requests
   that wait for one (request registers and removes its channel, readLoop routes), and
   once Stop has returned no reader, no statistics goroutine and no connection is left. *)
THEOREM ObsLeavesNothing == ObsSpec => []ObsEndsCleanly
<1>1. ObsInit => ObInv
  BY ObInitial
<1>2. ObInv /\ [ObsNext]_obVars => ObInv'
  BY ObStep
<1>3. ObInv => ObsEndsCleanly
  <2> SUFFICES ASSUME ObInv PROVE ObsEndsCleanly
    OBVIOUS
  <2>1. ObsTypeOK
    BY DEF ObInv, ObTyped, ObsTypeOK
  <2>2. ObsStoppedIsQuiet
    BY DEF ObInv, ObClosed, ObStopped, ObsStoppedIsQuiet
  <2> QED
    BY <2>1, <2>2 DEF ObInv, ObsEndsCleanly
<1> QED
  BY <1>1, <1>2, <1>3, PTL DEF ObsSpec

-----------------------------------------------------------------------------
(* Webhooks: the inductive invariant.                                         *)

WhOps == {WhIdle} \cup [op : {"register", "deregister", "persist"}, ep : Endpoints, state : WhStates]
WhDispatches == {WhIdle} \cup [op : {"dispatch"}, full : SUBSET Endpoints, todo : SUBSET Endpoints]
WhTyped ==
  /\ whConfigs \in [Endpoints -> WhStates] /\ whSettings \in [Endpoints -> WhStates]
  /\ whWorker \in [Endpoints -> {NoWebhookWorker} \cup WorkerType]
  /\ whAdmin \in WhOps /\ whSink \in WhDispatches
  /\ whPosted \in [Endpoints -> Nat]
  /\ whCount \in [dispatched : 0 .. MaxDispatched, updates : Nat, crashes : Nat]

(* A dispatch and the replacement of a worker exclude each other (Manager.mu), so every
   endpoint that is still to be served has its worker.                        *)
WhApart ==
  whSink # WhIdle =>
    /\ whAdmin.op \in {"idle", "persist"} /\ whCount.dispatched # 0 /\ whSink.full \subseteq whSink.todo
    /\ \A e \in whSink.todo : whWorker[e] # NoWebhookWorker

(* Everything posted, in delivery or queued for an endpoint is in order and not newer than
   the delivery being dispatched, and older as long as that one is not queued. *)
WhUntil == [e \in Endpoints |-> IF whSink # WhIdle /\ e \in whSink.todo THEN whCount.dispatched - 1
                                ELSE whCount.dispatched]
WhOrdered(w, posted, until) ==
  /\ Len(w.queue) <= QueueDepth
  /\ \A i \in 1 .. Len(w.queue) : posted < w.queue[i] /\ w.queue[i] <= until
  /\ \A i, j \in 1 .. Len(w.queue) : i < j => w.queue[i] < w.queue[j]
  /\ w.pc = "deliver" =>
       /\ posted <= w.cur /\ w.cur <= until
       /\ \A i \in 1 .. Len(w.queue) : w.cur < w.queue[i]
WhQueues ==
  \A e \in Endpoints :
    /\ whPosted[e] <= WhUntil[e]
    /\ whWorker[e] # NoWebhookWorker => WhOrdered(whWorker[e], whPosted[e], WhUntil[e])

(* While no update makes an endpoint inactive, a worker is told to stop only by the
   operation that then replaces or removes it.                                *)
WhChanging(e) == whAdmin.op \in {"register", "deregister"} /\ whAdmin.ep = e
WhBusy(e) == whAdmin # WhIdle /\ whAdmin.ep = e
WhAgreed ==
  \A e \in Endpoints :
    /\ WhBusy(e) => whConfigs[e] = whAdmin.state
    /\ ~WhBusy(e) => whConfigs[e] = whSettings[e]
    /\ WhChanging(e) \/ ((whConfigs[e] = "active") <=> (whWorker[e] # NoWebhookWorker))
    /\ whWorker[e] # NoWebhookWorker =>
         /\ whWorker[e].quit => WhChanging(e)
         /\ whWorker[e].pc = "done" => whWorker[e].quit
WhOp == (whAdmin.op = "register" => whAdmin.state = "active") /\ (whAdmin.op = "deregister" => whAdmin.state = "none")
WhInv ==
  /\ WhTyped /\ WhApart /\ WhQueues
  /\ ActiveValues \subseteq {TRUE} => WhAgreed /\ WhOp

-----------------------------------------------------------------------------
(* Webhooks: one worker and its queue.                                        *)

(* A worker is never taken for a missing one, and a new one has nothing to deliver. *)
LEMMA WorkerFacts ==
  /\ \A w \in WorkerType :
       /\ w # NoWebhookWorker /\ w.pc \in {"select", "deliver", "done"} /\ w.queue \in Seq(1 .. MaxDispatched)
       /\ w.cur \in 0 .. MaxDispatched /\ w.attempt \in 0 .. Retries /\ w.fails \in 0 .. PauseAfter
       /\ w.paused \in BOOLEAN /\ w.quit \in BOOLEAN
       /\ Len(w.queue) \in Nat /\ \A i \in 1 .. Len(w.queue) : w.queue[i] \in Nat
  /\ NewWebhookWorker \in WorkerType /\ NewWebhookWorker.quit = FALSE /\ NewWebhookWorker.pc = "select"
  /\ \A posted, until \in Nat : WhOrdered(NewWebhookWorker, posted, until)
  /\ NoWebhookWorker.pc = "none"
<1>1. ASSUME NEW w \in WorkerType
      PROVE  /\ w.pc \in {"select", "deliver", "done"} /\ w.queue \in Seq(1 .. MaxDispatched)
             /\ w.cur \in 0 .. MaxDispatched /\ w.attempt \in 0 .. Retries /\ w.fails \in 0 .. PauseAfter
             /\ w.paused \in BOOLEAN /\ w.quit \in BOOLEAN
  BY DEF WorkerType
<1>2. NoWebhookWorker.pc = "none"
  BY DEF NoWebhookWorker
<1>3. ASSUME NEW w \in WorkerType
      PROVE  Len(w.queue) \in Nat /\ \A i \in 1 .. Len(w.queue) : w.queue[i] \in Nat
  <2>1. \A T : \A s \in Seq(T) : Len(s) \in Nat /\ \A i \in 1 .. Len(s) : s[i] \in T
    OBVIOUS
  <2>2. Len(w.queue) \in Nat /\ \A i \in 1 .. Len(w.queue) : w.queue[i] \in 1 .. MaxDispatched
    BY <1>1, <2>1
  <2> QED
    BY <2>2
<1>4. NewWebhookWorker \in WorkerType /\ NewWebhookWorker.quit = FALSE /\ NewWebhookWorker.pc = "select"
  <2>1. 0 \in 0 .. MaxDispatched /\ 0 \in 0 .. Retries /\ 0 \in 0 .. PauseAfter /\ <<>> \in Seq(1 .. MaxDispatched)
    BY WebhooksConstants
  <2> QED
    BY <2>1 DEF NewWebhookWorker, WorkerType
<1>5. ASSUME NEW posted \in Nat, NEW until \in Nat PROVE WhOrdered(NewWebhookWorker, posted, until)
  <2>1. Len(NewWebhookWorker.queue) = 0 /\ NewWebhookWorker.pc = "select" /\ QueueDepth >= 0
    BY WebhooksConstants DEF NewWebhookWorker
  <2> QED
    BY <2>1 DEF WhOrdered
<1> QED
  BY <1>1, <1>2, <1>3, <1>4, <1>5

(* A worker that keeps its queue and starts no delivery. *)
LEMMA OrderedSame ==
  ASSUME NEW w \in WorkerType, NEW v \in WorkerType, NEW posted \in Nat, NEW until \in Nat, NEW later \in Nat,
         WhOrdered(w, posted, until), until <= later, v.queue = w.queue, v.cur = w.cur,
         v.pc = "deliver" => w.pc = "deliver"
  PROVE  WhOrdered(v, posted, later)
<1>1. PICK q : q = w.queue /\ q = v.queue
  OBVIOUS
<1>2. PICK k : k = w.cur /\ k = v.cur
  OBVIOUS
<1>3. k \in Nat /\ \A i \in 1 .. Len(q) : q[i] \in Nat
  BY <1>1, <1>2, WorkerFacts
<1>4. Len(q) <= QueueDepth /\ \A i, j \in 1 .. Len(q) : i < j => q[i] < q[j]
  BY <1>1 DEF WhOrdered
<1>5. ASSUME NEW i \in 1 .. Len(q) PROVE posted < q[i] /\ q[i] <= later
  <2>1. posted < q[i] /\ q[i] <= until
    BY <1>1 DEF WhOrdered
  <2> QED
    BY <2>1, <1>3
<1>6. w.pc = "deliver" => posted <= k /\ k <= until /\ \A i \in 1 .. Len(q) : k < q[i]
  BY <1>1, <1>2 DEF WhOrdered
<1>7. k <= until => k <= later
  BY <1>3
<1> QED
  BY <1>1, <1>2, <1>4, <1>5, <1>6, <1>7 DEF WhOrdered

(* The newest delivery goes to the end, whether or not the oldest made room for it. *)
LEMMA OrderedAppend ==
  ASSUME NEW w \in WorkerType, NEW posted \in Nat, NEW n \in 1 .. MaxDispatched, WhOrdered(w, posted, n - 1),
         posted <= n - 1, NEW q \in Seq(1 .. MaxDispatched),
         (q = w.queue /\ Len(q) < QueueDepth) \/ (w.queue # <<>> /\ q = Tail(w.queue))
  PROVE  LET v == [w EXCEPT !.queue = Append(q, n)] IN
           /\ v \in WorkerType /\ v.quit = w.quit /\ v.pc = w.pc /\ WhOrdered(v, posted, n)
<1> DEFINE v == [w EXCEPT !.queue = Append(q, n)]
<1>1. /\ w.queue \in Seq(1 .. MaxDispatched) /\ w.cur \in Nat /\ Len(w.queue) \in Nat
      /\ QueueDepth \in Nat /\ n \in Nat
      /\ \A i \in 1 .. Len(w.queue) : w.queue[i] \in Nat
  BY WorkerFacts, WebhooksConstants
<1>2. /\ Append(q, n) \in Seq(1 .. MaxDispatched) /\ Len(Append(q, n)) = Len(q) + 1
      /\ \A i \in 1 .. Len(q) : Append(q, n)[i] = q[i]
      /\ Append(q, n)[Len(q) + 1] = n /\ Len(q) \in Nat
  OBVIOUS
<1>3. /\ v \in WorkerType /\ v.quit = w.quit /\ v.pc = w.pc /\ v.cur = w.cur /\ v.queue = Append(q, n)
  BY <1>2 DEF WorkerType
<1>4. PICK k \in {0, 1} : Len(q) + k = Len(w.queue) /\ \A i \in 1 .. Len(q) : q[i] = w.queue[i + k]
  <2>1. CASE q = w.queue
    BY <1>1, <2>1
  <2>2. CASE w.queue # <<>> /\ q = Tail(w.queue)
    <3>1. Len(q) = Len(w.queue) - 1 /\ \A i \in 1 .. Len(q) : q[i] = w.queue[i + 1]
      BY <1>1, <2>2
    <3> QED
      BY <1>1, <3>1
  <2> QED
    BY <2>1, <2>2
<1>5. \A i \in 1 .. Len(q) : i + k \in 1 .. Len(w.queue) /\ q[i] = w.queue[i + k] /\ q[i] \in Nat
  <2> SUFFICES ASSUME NEW i \in 1 .. Len(q)
               PROVE  i + k \in 1 .. Len(w.queue) /\ q[i] = w.queue[i + k] /\ q[i] \in Nat
    OBVIOUS
  <2>1. i + k \in 1 .. Len(w.queue)
    BY <1>1, <1>2, <1>4
  <2>2. q[i] = w.queue[i + k]
    BY <1>4
  <2> QED
    BY <1>1, <2>1, <2>2
<1>6. /\ \A i \in 1 .. Len(q) : posted < q[i] /\ q[i] < n
      /\ \A i, j \in 1 .. Len(q) : i < j => q[i] < q[j]
      /\ w.pc = "deliver" => posted <= w.cur /\ w.cur < n /\ \A i \in 1 .. Len(q) : w.cur < q[i]
      /\ Len(q) < QueueDepth
  <2>1. /\ Len(w.queue) <= QueueDepth
        /\ \A i \in 1 .. Len(w.queue) : posted < w.queue[i] /\ w.queue[i] <= n - 1
        /\ \A i, j \in 1 .. Len(w.queue) : i < j => w.queue[i] < w.queue[j]
        /\ w.pc = "deliver" =>
             /\ posted <= w.cur /\ w.cur <= n - 1
             /\ \A i \in 1 .. Len(w.queue) : w.cur < w.queue[i]
    BY DEF WhOrdered
  <2>2. ASSUME NEW i \in 1 .. Len(q) PROVE posted < q[i] /\ q[i] < n
    <3>1. posted < w.queue[i + k] /\ w.queue[i + k] <= n - 1 /\ q[i] = w.queue[i + k] /\ q[i] \in Nat
      BY <1>5, <2>1
    <3> QED
      BY <1>1, <3>1
  <2>3. \A i, j \in 1 .. Len(q) : i < j => q[i] < q[j]
    <3> SUFFICES ASSUME NEW i \in 1 .. Len(q), NEW j \in 1 .. Len(q), i < j PROVE q[i] < q[j]
      OBVIOUS
    <3>1. i + k \in 1 .. Len(w.queue) /\ j + k \in 1 .. Len(w.queue) /\ i + k < j + k
      BY <1>5
    <3> QED
      BY <1>4, <2>1, <3>1
  <2>4. w.pc = "deliver" => posted <= w.cur /\ w.cur < n /\ \A i \in 1 .. Len(q) : w.cur < q[i]
    BY <1>1, <1>4, <1>5, <2>1
  <2>5. Len(q) < QueueDepth
    <3>1. CASE q = w.queue /\ Len(q) < QueueDepth
      BY <3>1
    <3>2. CASE w.queue # <<>> /\ q = Tail(w.queue)
      <4>1. Len(q) = Len(w.queue) - 1
        BY <1>1, <3>2
      <4> QED
        BY <1>1, <2>1, <4>1
    <3> QED
      BY <3>1, <3>2
  <2> QED
    BY <2>2, <2>3, <2>4, <2>5
<1> HIDE DEF v
<1>7. \A i \in 1 .. Len(v.queue) : i \in 1 .. Len(q) \/ i = Len(q) + 1
  BY <1>2, <1>3
<1>8. \A i \in 1 .. Len(v.queue) : posted < v.queue[i] /\ v.queue[i] <= n
  <2> SUFFICES ASSUME NEW i \in 1 .. Len(v.queue) PROVE posted < v.queue[i] /\ v.queue[i] <= n
    OBVIOUS
  <2>1. CASE i \in 1 .. Len(q)
    <3>1. v.queue[i] = q[i]
      BY <1>2, <1>3, <2>1
    <3> QED
      BY <1>5, <1>6, <2>1, <3>1
  <2>2. CASE i = Len(q) + 1
    <3>1. v.queue[i] = n
      BY <1>2, <1>3, <2>2
    <3> QED
      BY <3>1
  <2> QED
    BY <1>7, <2>1, <2>2
<1>9. \A i, j \in 1 .. Len(v.queue) : i < j => v.queue[i] < v.queue[j]
  <2> SUFFICES ASSUME NEW i \in 1 .. Len(v.queue), NEW j \in 1 .. Len(v.queue), i < j
               PROVE v.queue[i] < v.queue[j]
    OBVIOUS
  <2>1. i \in 1 .. Len(q)
    BY <1>2, <1>7
  <2>2. v.queue[i] = q[i]
    BY <1>2, <1>3, <2>1
  <2>3. CASE j \in 1 .. Len(q)
    <3>1. v.queue[j] = q[j]
      BY <1>2, <1>3, <2>3
    <3> QED
      BY <1>6, <2>1, <2>2, <2>3, <3>1
  <2>4. CASE j = Len(q) + 1
    <3>1. v.queue[j] = n
      BY <1>2, <1>3, <2>4
    <3> QED
      BY <1>6, <2>1, <2>2, <3>1
  <2> QED
    BY <1>7, <2>3, <2>4
<1>10. v.pc = "deliver" => posted <= v.cur /\ v.cur <= n /\ \A i \in 1 .. Len(v.queue) : v.cur < v.queue[i]
  <2> SUFFICES ASSUME v.pc = "deliver"
               PROVE  posted <= v.cur /\ v.cur <= n /\ \A i \in 1 .. Len(v.queue) : v.cur < v.queue[i]
    OBVIOUS
  <2>1. posted <= v.cur /\ v.cur < n
    BY <1>3, <1>6
  <2>2. ASSUME NEW i \in 1 .. Len(v.queue) PROVE v.cur < v.queue[i]
    <3>1. CASE i \in 1 .. Len(q)
      <4>1. v.queue[i] = q[i]
        BY <1>2, <1>3, <3>1
      <4> QED
        BY <1>3, <1>6, <3>1, <4>1
    <3>2. CASE i = Len(q) + 1
      <4>1. v.queue[i] = n
        BY <1>2, <1>3, <3>2
      <4> QED
        BY <2>1, <4>1
    <3> QED
      BY <1>7, <3>1, <3>2
  <2>3. v.cur <= n
    BY <1>1, <1>3, <2>1
  <2> QED
    BY <2>1, <2>2, <2>3
<1>11. Len(v.queue) <= QueueDepth
  BY <1>1, <1>2, <1>3, <1>6
<1> QED
  BY <1>3, <1>8, <1>9, <1>10, <1>11 DEF WhOrdered, v

(* The worker takes the oldest delivery: it starts to deliver it, or drops it while paused. *)
LEMMA OrderedTake ==
  ASSUME NEW w \in WorkerType, NEW posted \in Nat, NEW until \in Nat, WhOrdered(w, posted, until),
         w.pc = "select", w.queue # <<>>
  PROVE  LET v == IF w.paused THEN [w EXCEPT !.queue = Tail(@)]
                  ELSE [w EXCEPT !.queue = Tail(@), !.cur = Head(w.queue), !.pc = "deliver", !.attempt = 1]
         IN  v \in WorkerType /\ v.quit = w.quit /\ v.pc \in {"select", "deliver"} /\ WhOrdered(v, posted, until)
<1> DEFINE v == IF w.paused THEN [w EXCEPT !.queue = Tail(@)]
                ELSE [w EXCEPT !.queue = Tail(@), !.cur = Head(w.queue), !.pc = "deliver", !.attempt = 1]
<1>1. /\ w.queue \in Seq(1 .. MaxDispatched) /\ Len(w.queue) \in Nat /\ w.paused \in BOOLEAN
      /\ \A i \in 1 .. Len(w.queue) : w.queue[i] \in Nat
      /\ QueueDepth \in Nat /\ Retries \in Nat \ {0}
  BY WorkerFacts, WebhooksConstants
<1>2. Len(w.queue) # 0 /\ 1 \in 1 .. Len(w.queue)
  BY <1>1
<1>3. /\ Tail(w.queue) \in Seq(1 .. MaxDispatched) /\ Len(Tail(w.queue)) = Len(w.queue) - 1
      /\ \A i \in 1 .. Len(w.queue) - 1 : Tail(w.queue)[i] = w.queue[i + 1]
      /\ Head(w.queue) = w.queue[1]
  <2>1. ASSUME NEW T, NEW s \in Seq(T), s # <<>>
        PROVE  /\ Tail(s) \in Seq(T) /\ Len(Tail(s)) = Len(s) - 1
               /\ \A i \in 1 .. Len(s) - 1 : Tail(s)[i] = s[i + 1]
               /\ Head(s) = s[1]
    BY <2>1
  <2> QED
    BY <1>1, <2>1
<1>4. w.queue[1] \in 0 .. MaxDispatched /\ 1 \in 0 .. Retries
  <2>1. \A T : \A s \in Seq(T) : \A i \in 1 .. Len(s) : s[i] \in T
    OBVIOUS
  <2>2. w.queue[1] \in 1 .. MaxDispatched
    BY <1>1, <1>2, <2>1
  <2> QED
    BY <1>1, <2>2
<1>5. /\ v \in WorkerType /\ v.quit = w.quit /\ v.queue = Tail(w.queue)
      /\ v.pc \in {"select", "deliver"} /\ (v.pc = "deliver" => v.cur = w.queue[1])
  <2>1. CASE w.paused
    <3>1. v = [w EXCEPT !.queue = Tail(w.queue)]
      BY <2>1
    <3> QED
      BY <1>3, <3>1 DEF WorkerType
  <2>2. CASE ~w.paused
    <3>1. v = [w EXCEPT !.queue = Tail(w.queue), !.cur = w.queue[1], !.pc = "deliver", !.attempt = 1]
      BY <1>3, <2>2
    <3> HIDE DEF v
    <3> QED
      BY <1>3, <1>4, <3>1 DEF WorkerType
  <2> QED
    BY <2>1, <2>2
<1> HIDE DEF v
<1>6. \A i \in 1 .. Len(v.queue) : i + 1 \in 1 .. Len(w.queue) /\ v.queue[i] = w.queue[i + 1]
  BY <1>1, <1>3, <1>5
<1>7. /\ Len(w.queue) <= QueueDepth
      /\ \A i \in 1 .. Len(w.queue) : posted < w.queue[i] /\ w.queue[i] <= until
      /\ \A i, j \in 1 .. Len(w.queue) : i < j => w.queue[i] < w.queue[j]
  BY DEF WhOrdered
<1>8. \A i \in 1 .. Len(v.queue) : posted < v.queue[i] /\ v.queue[i] <= until
  BY <1>6, <1>7
<1>9. \A i, j \in 1 .. Len(v.queue) : i < j => v.queue[i] < v.queue[j]
  <2> SUFFICES ASSUME NEW i \in 1 .. Len(v.queue), NEW j \in 1 .. Len(v.queue), i < j
               PROVE v.queue[i] < v.queue[j]
    OBVIOUS
  <2>1. i + 1 < j + 1
    OBVIOUS
  <2> QED
    BY <1>6, <1>7, <2>1
<1>10. posted <= w.queue[1] /\ w.queue[1] <= until /\ \A i \in 1 .. Len(v.queue) : w.queue[1] < v.queue[i]
  <2>1. 1 \in 1 .. Len(w.queue) /\ w.queue[1] \in Nat
    BY <1>1, <1>2
  <2>2. posted < w.queue[1] /\ w.queue[1] <= until
    BY <1>7, <2>1
  <2>3. ASSUME NEW i \in 1 .. Len(v.queue) PROVE w.queue[1] < v.queue[i]
    <3>1. 1 < i + 1
      OBVIOUS
    <3> QED
      BY <1>6, <1>7, <2>1, <3>1
  <2> QED
    BY <2>1, <2>2, <2>3
<1>11. Len(v.queue) <= QueueDepth
  BY <1>1, <1>3, <1>5, <1>7
<1> QED
  BY <1>5, <1>8, <1>9, <1>10, <1>11 DEF WhOrdered, v

(* One attempt to post what is being delivered. *)
LEMMA OrderedPost ==
  ASSUME NEW w \in WorkerType, NEW posted \in Nat, NEW until \in Nat, WhOrdered(w, posted, until),
         w.pc = "deliver", NEW ok \in BOOLEAN
  PROVE  LET v == Attempted(w, ok) IN
           /\ v \in WorkerType /\ v.quit = w.quit /\ v.pc \in {"select", "deliver"}
           /\ w.cur \in Nat /\ w.cur <= until /\ WhOrdered(v, w.cur, until)
<1> DEFINE v == Attempted(w, ok)
<1>1. /\ w.cur \in Nat /\ w.attempt \in 0 .. Retries /\ w.fails \in 0 .. PauseAfter /\ w.paused \in BOOLEAN
      /\ PauseAfter \in Nat \ {0} /\ Retries \in Nat \ {0}
  BY WorkerFacts, WebhooksConstants
<1>2. v \in WorkerType /\ v.quit = w.quit /\ v.queue = w.queue /\ v.cur = w.cur /\ v.pc \in {"select", "deliver"}
  <2>1. CASE ok
    <3>1. v = [w EXCEPT !.pc = "select", !.fails = 0]
      BY <2>1 DEF Attempted
    <3>2. 0 \in 0 .. PauseAfter
      BY <1>1
    <3> HIDE DEF v
    <3> QED
      BY <3>1, <3>2 DEF WorkerType
  <2>2. CASE ~ok /\ w.attempt < Retries
    <3>1. v = [w EXCEPT !.attempt = w.attempt + 1]
      BY <2>2 DEF Attempted
    <3>2. w.attempt + 1 \in 0 .. Retries
      BY <1>1, <2>2
    <3> HIDE DEF v
    <3> QED
      BY <3>1, <3>2 DEF WorkerType
  <2>3. CASE ~ok /\ ~(w.attempt < Retries)
    <3>1. PICK f : f = IF w.fails < PauseAfter THEN w.fails + 1 ELSE w.fails
      OBVIOUS
    <3>2. PICK p : p = (w.paused \/ w.fails + 1 >= PauseAfter)
      OBVIOUS
    <3>3. v = [w EXCEPT !.pc = "select", !.fails = f, !.paused = p]
      BY <2>3, <3>1, <3>2 DEF Attempted
    <3>4. f \in 0 .. PauseAfter
      BY <1>1, <3>1
    <3>5. p \in BOOLEAN
      BY <3>2
    <3> HIDE DEF v
    <3> QED
      BY <1>1, <3>3, <3>4, <3>5 DEF WorkerType
  <2> QED
    BY <2>1, <2>2, <2>3
<1> HIDE DEF v
<1>3. WhOrdered(v, w.cur, until) /\ w.cur <= until
  BY <1>1, <1>2 DEF WhOrdered
<1> QED
  BY <1>1, <1>2, <1>3 DEF v

-----------------------------------------------------------------------------
(* Webhooks: frames.                                                          *)

LEMMA UntilFacts ==
  ASSUME WhTyped, WhApart
  PROVE  /\ WhUntil \in [Endpoints -> Nat] /\ whCount.dispatched \in Nat
         /\ \A e \in Endpoints : WhUntil[e] <= whCount.dispatched
<1>1. whCount.dispatched \in Nat
  BY WebhooksConstants DEF WhTyped
<1>2. whSink # WhIdle => whCount.dispatched - 1 \in Nat
  BY <1>1 DEF WhApart
<1>3. \A e \in Endpoints : WhUntil[e] = whCount.dispatched \/ (whSink # WhIdle /\ WhUntil[e] = whCount.dispatched - 1)
  BY DEF WhUntil
<1>4. \A e \in Endpoints : WhUntil[e] \in Nat /\ WhUntil[e] <= whCount.dispatched
  BY <1>1, <1>2, <1>3
<1>5. WhUntil \in [Endpoints -> Nat]
  BY <1>4 DEF WhUntil
<1> QED
  BY <1>1, <1>4, <1>5

(* The worker of one endpoint changes, and what was posted to it. *)
LEMMA WorkerOne ==
  ASSUME WhTyped, WhQueues, NEW e \in Endpoints, NEW w \in {NoWebhookWorker} \cup WorkerType, NEW p \in Nat, NEW u \in Nat,
         whWorker' = [whWorker EXCEPT ![e] = w], whPosted' = [whPosted EXCEPT ![e] = p],
         WhUntil' = [WhUntil EXCEPT ![e] = u], p <= u, w # NoWebhookWorker => WhOrdered(w, p, u)
  PROVE  /\ whWorker' \in [Endpoints -> {NoWebhookWorker} \cup WorkerType] /\ whPosted' \in [Endpoints -> Nat]
         /\ WhQueues'
<1>1. /\ whWorker' \in [Endpoints -> {NoWebhookWorker} \cup WorkerType] /\ whPosted' \in [Endpoints -> Nat]
      /\ whWorker'[e] = w /\ whPosted'[e] = p /\ WhUntil'[e] = u
      /\ \A d \in Endpoints \ {e} : whWorker'[d] = whWorker[d] /\ whPosted'[d] = whPosted[d] /\ WhUntil'[d] = WhUntil[d]
  BY DEF WhTyped, WhUntil
<1>2. ASSUME NEW d \in Endpoints
      PROVE  /\ whPosted'[d] <= WhUntil'[d]
             /\ whWorker'[d] # NoWebhookWorker => WhOrdered(whWorker'[d], whPosted'[d], WhUntil'[d])
  BY <1>1 DEF WhQueues
<1> QED
  BY <1>1, <1>2 DEF WhQueues

(* A worker goes on as it is, or a delivery reaches its queue: the endpoints agree as before. *)
LEMMA AgreedOne ==
  ASSUME WhTyped, WhAgreed, WhOp, NEW e \in Endpoints, NEW w \in WorkerType, whWorker[e] # NoWebhookWorker,
         whWorker' = [whWorker EXCEPT ![e] = w], w.quit = whWorker[e].quit, w.pc = "done" => w.quit,
         UNCHANGED <<whConfigs, whSettings, whAdmin>>
  PROVE  WhAgreed' /\ WhOp'
<1>1. w # NoWebhookWorker /\ whWorker'[e] = w /\ \A d \in Endpoints \ {e} : whWorker'[d] = whWorker[d]
  BY WorkerFacts DEF WhTyped
<1>2. ASSUME NEW d \in Endpoints
      PROVE  /\ (whWorker'[d] # NoWebhookWorker) <=> (whWorker[d] # NoWebhookWorker)
             /\ whWorker'[d] # NoWebhookWorker =>
                  /\ whWorker'[d].quit => WhChanging(d)
                  /\ whWorker'[d].pc = "done" => whWorker'[d].quit
  <2>1. CASE d = e
    BY <1>1, <2>1 DEF WhAgreed
  <2>2. CASE d # e
    BY <1>1, <2>2 DEF WhAgreed
  <2> QED
    BY <2>1, <2>2
<1>3. WhAgreed'
  BY <1>2 DEF WhAgreed, WhBusy, WhChanging
<1> QED
  BY <1>3 DEF WhOp

-----------------------------------------------------------------------------
(* Webhooks: every step.                                                      *)

(* Dispatching: who is still to be served, and what that means for the queues. *)
LEMMA SinkFacts ==
  ASSUME WhTyped, WhApart, whSink.op = "dispatch"
  PROVE  /\ whSink # WhIdle /\ whSink.full \subseteq Endpoints /\ whSink.todo \subseteq Endpoints
         /\ whSink = [op |-> "dispatch", full |-> whSink.full, todo |-> whSink.todo]
         /\ whCount.dispatched \in 1 .. MaxDispatched
         /\ \A e \in whSink.todo : WhUntil[e] = whCount.dispatched - 1 /\ whWorker[e] \in WorkerType
<1>1. whSink # WhIdle
  BY DEF WhIdle
<1>2. whSink \in [op : {"dispatch"}, full : SUBSET Endpoints, todo : SUBSET Endpoints]
  BY <1>1 DEF WhTyped, WhDispatches
<1>3. /\ whSink.full \subseteq Endpoints /\ whSink.todo \subseteq Endpoints
      /\ whSink = [op |-> "dispatch", full |-> whSink.full, todo |-> whSink.todo]
  BY <1>2
<1>4. whCount.dispatched \in 1 .. MaxDispatched
  BY <1>1, WebhooksConstants DEF WhTyped, WhApart
<1>5. \A e \in whSink.todo : WhUntil[e] = whCount.dispatched - 1 /\ whWorker[e] \in WorkerType
  BY <1>1, <1>3 DEF WhUntil, WhTyped, WhApart
<1> QED
  BY <1>1, <1>3, <1>4, <1>5

LEMMA ConsumeStep == ASSUME WhInv, NEW ev \in WhEvents, WebhooksConsume(ev) PROVE WhInv'
<1>0. WhTyped /\ WhApart /\ WhQueues
  BY DEF WhInv
<1>1. /\ whSink = WhIdle /\ whAdmin.op \in {"idle", "persist"} /\ whCount.dispatched < MaxDispatched
      /\ whCount' = [whCount EXCEPT !.dispatched = @ + 1]
      /\ UNCHANGED <<whConfigs, whSettings, whWorker, whAdmin, whPosted, whPanicked>>
  BY DEF WebhooksConsume
<1>2. PICK T \in SUBSET Endpoints :
        /\ whSink' = [op |-> "dispatch", full |-> {}, todo |-> T]
        /\ \A e \in T : whWorker[e] # NoWebhookWorker
  <2>1. PICK type : type = PipelineEventType(ev)
    OBVIOUS
  <2>2. PICK T : T = {e \in Endpoints : whWorker[e] # NoWebhookWorker /\ WebhookMatches(e, type)}
    OBVIOUS
  <2>3. whSink' = [op |-> "dispatch", full |-> {}, todo |-> T]
    BY <2>1, <2>2 DEF WebhooksConsume
  <2>4. T \in SUBSET Endpoints /\ \A e \in T : whWorker[e] # NoWebhookWorker
    BY <2>2
  <2> QED
    BY <2>3, <2>4
<1>3. /\ whCount \in [dispatched : 0 .. MaxDispatched, updates : Nat, crashes : Nat]
      /\ whCount.dispatched \in Nat /\ MaxDispatched \in Nat
  BY <1>0, WebhooksConstants DEF WhTyped
<1>4. /\ whCount'.dispatched = whCount.dispatched + 1
      /\ whCount' \in [dispatched : 0 .. MaxDispatched, updates : Nat, crashes : Nat]
  BY <1>1, <1>3
<1>5. /\ whSink' \in WhDispatches /\ whSink' # WhIdle /\ whSink'.todo = T /\ whSink'.full = {}
  BY <1>2 DEF WhDispatches, WhIdle
<1>6. WhTyped' /\ WhApart'
  BY <1>0, <1>1, <1>2, <1>3, <1>4, <1>5 DEF WhTyped, WhApart
<1>7. \A e \in Endpoints : WhUntil[e] = whCount.dispatched /\ WhUntil'[e] \in {whCount.dispatched, whCount.dispatched + 1}
  BY <1>1, <1>3, <1>4, <1>5 DEF WhUntil
<1>8. ASSUME NEW e \in Endpoints
      PROVE  /\ whPosted'[e] <= WhUntil'[e]
             /\ whWorker'[e] # NoWebhookWorker => WhOrdered(whWorker'[e], whPosted'[e], WhUntil'[e])
  <2>1. whPosted[e] \in Nat /\ whPosted[e] <= WhUntil[e] /\ WhUntil[e] \in Nat /\ WhUntil'[e] \in Nat
        /\ WhUntil[e] <= WhUntil'[e]
    BY <1>0, <1>3, <1>7 DEF WhTyped, WhQueues
  <2>2. ASSUME whWorker[e] # NoWebhookWorker PROVE WhOrdered(whWorker[e], whPosted[e], WhUntil'[e])
    <3>1. whWorker[e] \in WorkerType /\ WhOrdered(whWorker[e], whPosted[e], WhUntil[e])
      BY <1>0, <2>2 DEF WhTyped, WhQueues
    <3> QED
      BY <2>1, <3>1, OrderedSame
  <2> QED
    BY <1>1, <2>1, <2>2
<1>9. WhQueues'
  BY <1>8 DEF WhQueues
<1>10. ASSUME ActiveValues \subseteq {TRUE} PROVE WhAgreed' /\ WhOp'
  BY <1>1, <1>10 DEF WhInv, WhAgreed, WhOp, WhBusy, WhChanging
<1> QED
  BY <1>6, <1>9, <1>10 DEF WhInv

(* A delivery joins the queue of an endpoint. *)
LEMMA JoinsQueue ==
  ASSUME WhInv, whSink.op = "dispatch", NEW e \in Endpoints, e \in whSink.todo,
         NEW q \in Seq(1 .. MaxDispatched),
         (q = whWorker[e].queue /\ Len(q) < QueueDepth) \/ (whWorker[e].queue # <<>> /\ q = Tail(whWorker[e].queue)),
         whWorker' = [whWorker EXCEPT ![e].queue = Append(q, whCount.dispatched)],
         whSink' = [op |-> "dispatch", full |-> {}, todo |-> whSink.todo \ {e}],
         UNCHANGED <<whConfigs, whSettings, whAdmin, whPosted, whPanicked, whCount>>
  PROVE  WhInv'
<1>0. WhTyped /\ WhApart /\ WhQueues
  BY DEF WhInv
<1>1. /\ whSink # WhIdle /\ whSink.todo \subseteq Endpoints /\ whCount.dispatched \in 1 .. MaxDispatched
      /\ WhUntil[e] = whCount.dispatched - 1 /\ whWorker[e] \in WorkerType
  BY <1>0, SinkFacts
<1>2. PICK w : w = whWorker[e]
  OBVIOUS
<1>3. PICK n : n = whCount.dispatched
  OBVIOUS
<1>4. PICK p : p = whPosted[e]
  OBVIOUS
<1>5. w # NoWebhookWorker /\ w \in WorkerType /\ p \in Nat /\ p <= n - 1 /\ WhOrdered(w, p, n - 1)
      /\ n \in 1 .. MaxDispatched
  BY <1>0, <1>1, <1>2, <1>3, <1>4, WorkerFacts DEF WhTyped, WhQueues
<1>6. (q = w.queue /\ Len(q) < QueueDepth) \/ (w.queue # <<>> /\ q = Tail(w.queue))
  BY <1>2
<1>7. PICK v : v = [w EXCEPT !.queue = Append(q, n)]
  OBVIOUS
<1>8. v \in WorkerType /\ v.quit = w.quit /\ v.pc = w.pc /\ WhOrdered(v, p, n)
  BY <1>5, <1>6, <1>7, OrderedAppend
<1>9. whWorker' = [whWorker EXCEPT ![e] = v]
  BY <1>2, <1>3, <1>7
<1>10. whPosted' = [whPosted EXCEPT ![e] = p]
  BY <1>0, <1>4 DEF WhTyped
<1>11. whSink' \in WhDispatches /\ whSink' # WhIdle /\ whSink'.todo = whSink.todo \ {e} /\ whSink'.full = {}
  BY <1>1 DEF WhDispatches, WhIdle
<1>12. WhUntil' = [WhUntil EXCEPT ![e] = n]
  <2>1. \A d \in Endpoints : WhUntil'[d] = IF d \in whSink.todo \ {e} THEN n - 1 ELSE n
    BY <1>3, <1>11 DEF WhUntil
  <2>2. \A d \in Endpoints : WhUntil[d] = IF d \in whSink.todo THEN n - 1 ELSE n
    BY <1>1, <1>3 DEF WhUntil
  <2>3. WhUntil' = [d \in Endpoints |-> WhUntil'[d]] /\ WhUntil = [d \in Endpoints |-> WhUntil[d]]
    BY DEF WhUntil
  <2> QED
    BY <2>1, <2>2, <2>3
<1>13. n \in Nat /\ p <= n
  BY <1>5
<1>14. /\ whWorker' \in [Endpoints -> {NoWebhookWorker} \cup WorkerType] /\ whPosted' \in [Endpoints -> Nat]
       /\ WhQueues'
  BY <1>0, <1>5, <1>8, <1>9, <1>10, <1>12, <1>13, WorkerOne
<1>15. WhTyped'
  BY <1>0, <1>11, <1>14 DEF WhTyped
<1>16. WhApart'
  <2>1. \A d \in whSink'.todo : whWorker'[d] = whWorker[d] /\ whWorker[d] # NoWebhookWorker
    BY <1>0, <1>1, <1>9, <1>11 DEF WhApart, WhTyped
  <2> QED
    BY <1>0, <1>1, <1>11, <2>1 DEF WhApart
<1>17. ASSUME ActiveValues \subseteq {TRUE} PROVE WhAgreed' /\ WhOp'
  <2>1. WhAgreed /\ WhOp
    BY <1>17 DEF WhInv
  <2>2. v.pc = "done" => v.quit
    BY <1>2, <1>5, <1>8, <2>1 DEF WhAgreed
  <2>3. v.quit = whWorker[e].quit /\ whWorker[e] # NoWebhookWorker
    BY <1>2, <1>5, <1>8
  <2> QED
    BY <1>0, <1>8, <1>9, <2>1, <2>2, <2>3, AgreedOne
<1> QED
  BY <1>14, <1>15, <1>16, <1>17 DEF WhInv

LEMMA DispatchStep ==
  ASSUME WhInv, DispatchReturns \/ \E e \in Endpoints : WebhookEnqueue(e) \/ WebhookDropOldest(e)
  PROVE  WhInv'
<1>0. WhTyped /\ WhApart /\ WhQueues
  BY DEF WhInv
<1>1. ASSUME NEW e \in Endpoints, WebhookEnqueue(e), Len(whWorker[e].queue) < QueueDepth PROVE WhInv'
  <2>1. /\ whSink.op = "dispatch" /\ whSink.full = {} /\ e \in whSink.todo
        /\ whWorker' = [whWorker EXCEPT ![e].queue = Append(whWorker[e].queue, whCount.dispatched)]
        /\ whSink' = [whSink EXCEPT !.todo = whSink.todo \ {e}]
        /\ UNCHANGED <<whConfigs, whSettings, whAdmin, whPosted, whPanicked, whCount>>
    BY <1>1 DEF WebhookEnqueue
  <2>2. whSink = [op |-> "dispatch", full |-> whSink.full, todo |-> whSink.todo] /\ whWorker[e] \in WorkerType
    BY <1>0, <2>1, SinkFacts
  <2>3. whSink' = [op |-> "dispatch", full |-> {}, todo |-> whSink.todo \ {e}]
    BY <2>1, <2>2
  <2>4. PICK q : q = whWorker[e].queue
    OBVIOUS
  <2>5. q \in Seq(1 .. MaxDispatched)
    BY <2>2, <2>4, WorkerFacts
  <2>6. q = whWorker[e].queue /\ Len(q) < QueueDepth
    BY <1>1, <2>4
  <2>7. whWorker' = [whWorker EXCEPT ![e].queue = Append(q, whCount.dispatched)]
    BY <2>1, <2>4
  <2> QED
    BY <2>1, <2>3, <2>5, <2>6, <2>7, JoinsQueue
<1>2. ASSUME NEW e \in Endpoints, WebhookEnqueue(e), ~(Len(whWorker[e].queue) < QueueDepth) PROVE WhInv'
  <2>1. /\ whSink.op = "dispatch" /\ e \in whSink.todo
        /\ whSink' = [whSink EXCEPT !.full = {e}]
        /\ UNCHANGED <<whConfigs, whSettings, whWorker, whAdmin, whPosted, whPanicked, whCount>>
    BY <1>2 DEF WebhookEnqueue
  <2>2. /\ whSink = [op |-> "dispatch", full |-> whSink.full, todo |-> whSink.todo] /\ whSink # WhIdle
        /\ whSink.todo \subseteq Endpoints
    BY <1>0, <2>1, SinkFacts
  <2>3. /\ whSink' = [op |-> "dispatch", full |-> {e}, todo |-> whSink.todo]
    BY <2>1, <2>2
  <2>4. whSink' \in WhDispatches /\ whSink' # WhIdle /\ whSink'.todo = whSink.todo /\ whSink'.full = {e}
    BY <2>2, <2>3 DEF WhDispatches, WhIdle
  <2>5. WhUntil' = WhUntil
    BY <2>1, <2>2, <2>4 DEF WhUntil
  <2>6. WhTyped' /\ WhApart'
    BY <1>0, <2>1, <2>2, <2>4 DEF WhTyped, WhApart
  <2>7. WhQueues'
    BY <1>0, <2>1, <2>5 DEF WhQueues
  <2>8. ASSUME ActiveValues \subseteq {TRUE} PROVE WhAgreed' /\ WhOp'
    BY <2>1, <2>8 DEF WhInv, WhAgreed, WhOp, WhBusy, WhChanging
  <2> QED
    BY <2>6, <2>7, <2>8 DEF WhInv
<1>3. ASSUME NEW e \in Endpoints, WebhookDropOldest(e) PROVE WhInv'
  <2>1. /\ whSink.op = "dispatch" /\ e \in whSink.full /\ whWorker[e].queue # <<>>
        /\ whWorker' = [whWorker EXCEPT ![e].queue = Append(Tail(whWorker[e].queue), whCount.dispatched)]
        /\ whSink' = [whSink EXCEPT !.todo = whSink.todo \ {e}, !.full = {}]
        /\ UNCHANGED <<whConfigs, whSettings, whAdmin, whPosted, whPanicked, whCount>>
    BY <1>3 DEF WebhookDropOldest
  <2>2. e \in whSink.todo
    BY <1>0, <2>1 DEF WhApart, WhIdle
  <2>3. whSink = [op |-> "dispatch", full |-> whSink.full, todo |-> whSink.todo] /\ whWorker[e] \in WorkerType
    BY <1>0, <2>1, <2>2, SinkFacts
  <2>4. whSink' = [op |-> "dispatch", full |-> {}, todo |-> whSink.todo \ {e}]
    BY <2>1, <2>3
  <2>5. PICK q : q = Tail(whWorker[e].queue)
    OBVIOUS
  <2>6. q \in Seq(1 .. MaxDispatched)
    <3>1. \A T : \A s \in Seq(T) : s # <<>> => Tail(s) \in Seq(T)
      OBVIOUS
    <3>2. whWorker[e].queue \in Seq(1 .. MaxDispatched)
      BY <2>3, WorkerFacts
    <3> QED
      BY <2>1, <2>5, <3>1, <3>2
  <2>7. whWorker[e].queue # <<>> /\ q = Tail(whWorker[e].queue)
    BY <2>1, <2>5
  <2>8. whWorker' = [whWorker EXCEPT ![e].queue = Append(q, whCount.dispatched)]
    BY <2>1, <2>5
  <2> QED
    BY <2>1, <2>2, <2>4, <2>6, <2>7, <2>8, JoinsQueue
<1>4. CASE DispatchReturns
  <2>1. /\ whSink.op = "dispatch" /\ whSink.todo = {} /\ whSink' = WhIdle
        /\ UNCHANGED <<whConfigs, whSettings, whWorker, whAdmin, whPosted, whPanicked, whCount>>
    BY <1>4 DEF DispatchReturns
  <2>2. WhUntil' = WhUntil
    BY <2>1 DEF WhUntil
  <2>3. WhTyped' /\ WhApart'
    BY <1>0, <2>1 DEF WhTyped, WhApart, WhDispatches
  <2>4. WhQueues'
    BY <1>0, <2>1, <2>2 DEF WhQueues
  <2>5. ASSUME ActiveValues \subseteq {TRUE} PROVE WhAgreed' /\ WhOp'
    BY <2>1, <2>5 DEF WhInv, WhAgreed, WhOp, WhBusy, WhChanging
  <2> QED
    BY <2>3, <2>4, <2>5 DEF WhInv
<1> QED
  BY <1>1, <1>2, <1>3, <1>4

(* A worker goes on by itself, or is told to go on. *)
LEMMA WorkerStep ==
  ASSUME WhInv, NEW e \in Endpoints,
         WorkerQuits(e) \/ WorkerTakes(e) \/ HandleResumeWebhook(e) \/ \E ok \in BOOLEAN : WebhookPost(e, ok)
  PROVE  WhInv'
<1>0. WhTyped /\ WhApart /\ WhQueues
  BY DEF WhInv
<1>1. UNCHANGED <<whConfigs, whSettings, whAdmin, whSink, whPanicked, whCount>>
  BY DEF WorkerQuits, WorkerTakes, HandleResumeWebhook, WebhookPost
<1>2. PICK w : w = whWorker[e]
  OBVIOUS
<1>3. PICK p : p = whPosted[e]
  OBVIOUS
<1>4. PICK u : u = WhUntil[e]
  OBVIOUS
<1>5. w # NoWebhookWorker /\ w \in WorkerType
  <2>1. w \in {NoWebhookWorker} \cup WorkerType
    BY <1>0, <1>2 DEF WhTyped
  <2>2. w.pc # "none" \/ w # NoWebhookWorker
    BY <1>2 DEF WorkerQuits, WorkerSelects, WorkerTakes, HandleResumeWebhook, WebhookPost
  <2> QED
    BY <2>1, <2>2, WorkerFacts
<1>6. p \in Nat /\ u \in Nat /\ p <= u /\ WhOrdered(w, p, u)
  BY <1>0, <1>2, <1>3, <1>4, <1>5, UntilFacts DEF WhTyped, WhQueues
<1>7. ASSUME NEW v \in WorkerType, NEW q \in Nat, whWorker' = [whWorker EXCEPT ![e] = v],
             whPosted' = [whPosted EXCEPT ![e] = q], q <= u, WhOrdered(v, q, u),
             v.quit = w.quit, v.pc = "done" => v.quit \/ w.pc = "done"
      PROVE  WhInv'
  <2>1. WhUntil' = [WhUntil EXCEPT ![e] = u]
    BY <1>1, <1>4 DEF WhUntil
  <2>2. /\ whWorker' \in [Endpoints -> {NoWebhookWorker} \cup WorkerType] /\ whPosted' \in [Endpoints -> Nat]
        /\ WhQueues'
    BY <1>0, <1>6, <1>7, <2>1, WorkerOne
  <2>3. WhTyped'
    BY <1>0, <1>1, <2>2 DEF WhTyped
  <2>4. WhApart'
    <3>1. v # NoWebhookWorker
      BY <1>7, WorkerFacts
    <3>2. \A d \in Endpoints : whWorker[d] # NoWebhookWorker => whWorker'[d] # NoWebhookWorker
      BY <1>0, <1>7, <3>1 DEF WhTyped
    <3>3. whSink # WhIdle => whSink.todo \subseteq Endpoints
      BY <1>0 DEF WhTyped, WhDispatches
    <3> QED
      BY <1>0, <1>1, <3>2, <3>3 DEF WhApart
  <2>5. ASSUME ActiveValues \subseteq {TRUE} PROVE WhAgreed' /\ WhOp'
    <3>1. WhAgreed /\ WhOp
      BY <2>5 DEF WhInv
    <3>2. v.pc = "done" => v.quit
      BY <1>2, <1>5, <1>7, <3>1 DEF WhAgreed
    <3>3. v.quit = whWorker[e].quit /\ whWorker[e] # NoWebhookWorker
      BY <1>2, <1>5, <1>7
    <3> QED
      BY <1>0, <1>1, <1>7, <3>1, <3>2, <3>3, AgreedOne
  <2> QED
    BY <2>2, <2>3, <2>4, <2>5 DEF WhInv
<1>8. whPosted = [whPosted EXCEPT ![e] = p]
  BY <1>0, <1>3 DEF WhTyped
<1>9. CASE WorkerQuits(e)
  <2>1. PICK v : v = [w EXCEPT !.pc = "done"]
    OBVIOUS
  <2>2. v \in WorkerType /\ v.quit = w.quit /\ v.pc = "done" /\ v.queue = w.queue /\ v.cur = w.cur
    BY <1>5, <2>1 DEF WorkerType
  <2>3. whWorker' = [whWorker EXCEPT ![e] = v] /\ whPosted' = [whPosted EXCEPT ![e] = p] /\ w.quit
    BY <1>2, <1>8, <1>9, <2>1 DEF WorkerQuits
  <2>4. WhOrdered(v, p, u)
    BY <1>5, <1>6, <2>2, OrderedSame
  <2> QED
    BY <1>6, <1>7, <2>2, <2>3, <2>4
<1>10. CASE WorkerTakes(e)
  <2>1. w.pc = "select" /\ w.queue # <<>>
    BY <1>2, <1>10 DEF WorkerTakes, WorkerSelects
  <2> DEFINE t == IF w.paused THEN [w EXCEPT !.queue = Tail(@)]
                  ELSE [w EXCEPT !.queue = Tail(@), !.cur = Head(w.queue), !.pc = "deliver", !.attempt = 1]
  <2>2. t \in WorkerType /\ t.quit = w.quit /\ t.pc \in {"select", "deliver"} /\ WhOrdered(t, p, u)
    <3>1. w \in WorkerType /\ p \in Nat /\ u \in Nat /\ WhOrdered(w, p, u)
      BY <1>5, <1>6
    <3> QED
      BY <2>1, <3>1, OrderedTake
  <2> HIDE DEF t
  <2>3. PICK v : v = t
    OBVIOUS
  <2>4. v \in WorkerType /\ v.quit = w.quit /\ v.pc \in {"select", "deliver"} /\ WhOrdered(v, p, u)
    BY <2>2, <2>3
  <2>5. whWorker' = [whWorker EXCEPT ![e] = v] /\ whPosted' = [whPosted EXCEPT ![e] = p]
    <3>1. whWorker' = [whWorker EXCEPT ![e] = t]
      BY <1>2, <1>10, Zenon DEF WorkerTakes, t
    <3>2. whPosted' = whPosted
      BY <1>10 DEF WorkerTakes
    <3> QED
      BY <1>8, <2>3, <3>1, <3>2, Zenon
  <2> QED
    BY <1>6, <1>7, <2>4, <2>5
<1>11. CASE HandleResumeWebhook(e)
  <2>1. PICK v : v = [w EXCEPT !.paused = FALSE]
    OBVIOUS
  <2>2. v \in WorkerType /\ v.quit = w.quit /\ v.pc = w.pc /\ v.queue = w.queue /\ v.cur = w.cur
    BY <1>5, <2>1 DEF WorkerType
  <2>3. whWorker' = [whWorker EXCEPT ![e] = v] /\ whPosted' = [whPosted EXCEPT ![e] = p]
    BY <1>2, <1>8, <1>11, <2>1 DEF HandleResumeWebhook
  <2>4. WhOrdered(v, p, u)
    BY <1>5, <1>6, <2>2, OrderedSame
  <2> QED
    BY <1>6, <1>7, <2>2, <2>3, <2>4
<1>12. ASSUME NEW ok \in BOOLEAN, WebhookPost(e, ok) PROVE WhInv'
  <2>1. PICK v : v = Attempted(w, ok)
    OBVIOUS
  <2>2. w.pc = "deliver"
    BY <1>2, <1>12 DEF WebhookPost
  <2>3. /\ v \in WorkerType /\ v.quit = w.quit /\ v.pc \in {"select", "deliver"}
        /\ w.cur \in Nat /\ w.cur <= u /\ WhOrdered(v, w.cur, u)
    BY <1>5, <1>6, <2>1, <2>2, OrderedPost
  <2>4. whWorker' = [whWorker EXCEPT ![e] = v] /\ whPosted' = [whPosted EXCEPT ![e] = w.cur]
    BY <1>2, <1>12, <2>1 DEF WebhookPost
  <2> QED
    BY <1>7, <2>3, <2>4
<1> QED
  BY <1>9, <1>10, <1>11, <1>12

(* No dispatch is in progress and nothing is posted: workers are told to stop, replaced or
   removed.                                                                   *)
LEMMA AdminFrame ==
  ASSUME WhTyped, WhApart, WhQueues, whSink' = WhIdle, whPosted' = whPosted,
         whCount'.dispatched = whCount.dispatched,
         whWorker' \in [Endpoints -> {NoWebhookWorker} \cup WorkerType],
         \A d \in Endpoints : whWorker'[d] # NoWebhookWorker /\ whWorker'[d] # NewWebhookWorker =>
           /\ whWorker[d] # NoWebhookWorker /\ whWorker'[d].queue = whWorker[d].queue
           /\ whWorker'[d].cur = whWorker[d].cur /\ whWorker'[d].pc = whWorker[d].pc
  PROVE  WhApart' /\ WhQueues'
<1>1. WhApart'
  BY DEF WhApart
<1>2. /\ whCount.dispatched \in Nat
      /\ \A d \in Endpoints :
           WhUntil[d] \in Nat /\ WhUntil[d] <= whCount.dispatched /\ WhUntil'[d] = whCount.dispatched
  <2>1. \A d \in Endpoints : WhUntil'[d] = whCount.dispatched
    BY DEF WhUntil
  <2> QED
    BY <2>1, UntilFacts
<1>3. ASSUME NEW d \in Endpoints
      PROVE  /\ whPosted'[d] <= WhUntil'[d]
             /\ whWorker'[d] # NoWebhookWorker => WhOrdered(whWorker'[d], whPosted'[d], WhUntil'[d])
  <2>1. whPosted[d] \in Nat /\ whPosted[d] <= WhUntil[d]
    BY DEF WhTyped, WhQueues
  <2>2. whPosted[d] <= whCount.dispatched
    BY <1>2, <2>1
  <2>3. CASE whWorker'[d] = NewWebhookWorker
    BY <1>2, <2>1, <2>2, <2>3, WorkerFacts
  <2>4. CASE whWorker'[d] # NewWebhookWorker
    <3>1. ASSUME whWorker'[d] # NoWebhookWorker PROVE WhOrdered(whWorker'[d], whPosted[d], whCount.dispatched)
      <4>1. PICK w : w = whWorker[d]
        OBVIOUS
      <4>2. PICK v : v = whWorker'[d]
        OBVIOUS
      <4>3. /\ w \in WorkerType /\ v \in WorkerType /\ v.queue = w.queue /\ v.cur = w.cur /\ v.pc = w.pc
            /\ WhOrdered(w, whPosted[d], WhUntil[d])
        BY <2>4, <3>1, <4>1, <4>2 DEF WhTyped, WhQueues
      <4>4. WhOrdered(v, whPosted[d], whCount.dispatched)
        BY <1>2, <2>1, <4>3, OrderedSame
      <4> QED
        BY <4>2, <4>4
    <3> QED
      BY <1>2, <2>2, <3>1
  <2> QED
    BY <2>3, <2>4
<1> QED
  BY <1>1, <1>3 DEF WhQueues

(* The operation in progress, which excludes a dispatch until it is only to be persisted. *)
LEMMA OpFacts ==
  ASSUME WhTyped, WhApart, whAdmin.op # "idle"
  PROVE  /\ whAdmin # WhIdle /\ whAdmin.ep \in Endpoints /\ whAdmin.state \in WhStates
         /\ whAdmin.op \in {"register", "deregister"} => whSink = WhIdle
<1>1. whAdmin # WhIdle
  BY DEF WhIdle
<1>2. whAdmin \in [op : {"register", "deregister", "persist"}, ep : Endpoints, state : WhStates]
  BY <1>1 DEF WhTyped, WhOps
<1>3. whAdmin.op \in {"register", "deregister"} => whSink = WhIdle
  BY DEF WhApart
<1> QED
  BY <1>1, <1>2, <1>3

(* The first half of Register and Deregister: the old worker is told to stop.  A worker that
   was told already is found only where an update made an endpoint inactive. *)
LEMMA BeginStep ==
  ASSUME WhInv, NEW e \in Endpoints, NEW state \in WhStates, NEW op \in {"register", "deregister"},
         BeginRegister(e, state, op), whCount' \in [dispatched : 0 .. MaxDispatched, updates : Nat, crashes : Nat],
         whCount'.dispatched = whCount.dispatched,
         ActiveValues \subseteq {TRUE} => (op = "register" => state = "active") /\ (op = "deregister" => state = "none")
  PROVE  WhInv'
<1>0. WhTyped /\ WhApart /\ WhQueues
  BY DEF WhInv
<1>1. /\ whAdmin = WhIdle /\ whSink = WhIdle /\ whConfigs' = [whConfigs EXCEPT ![e] = state]
      /\ UNCHANGED <<whSettings, whSink, whPosted>>
  BY DEF BeginRegister
<1>2. /\ whConfigs' \in [Endpoints -> WhStates] /\ whConfigs'[e] = state
      /\ \A d \in Endpoints \ {e} : whConfigs'[d] = whConfigs[d]
  BY <1>0, <1>1 DEF WhTyped
<1>3. CASE ~CanCloseQuit(e)
  <2>1. UNCHANGED <<whAdmin, whWorker>>
    BY <1>3 DEF BeginRegister
  <2>2. whWorker' \in [Endpoints -> {NoWebhookWorker} \cup WorkerType]
    BY <1>0, <2>1 DEF WhTyped
  <2>3. WhTyped'
    BY <1>0, <1>1, <1>2, <2>1 DEF WhTyped
  <2>4. WhApart' /\ WhQueues'
    BY <1>0, <1>1, <2>1, <2>2, AdminFrame
  <2>5. ASSUME ActiveValues \subseteq {TRUE} PROVE FALSE
    <3>1. whWorker[e] # NoWebhookWorker /\ whWorker[e].quit
      BY <1>3 DEF CanCloseQuit
    <3>2. WhChanging(e)
      BY <2>5, <3>1 DEF WhInv, WhAgreed
    <3> QED
      BY <1>1, <3>2 DEF WhChanging, WhIdle
  <2> QED
    BY <2>3, <2>4, <2>5 DEF WhInv
<1>4. CASE CanCloseQuit(e)
  <2>1. whAdmin' = [op |-> op, ep |-> e, state |-> state] /\ CloseQuit(e)
    BY <1>4 DEF BeginRegister
  <2>2. /\ whAdmin' \in WhOps /\ whAdmin' # WhIdle /\ whAdmin'.op = op /\ whAdmin'.ep = e /\ whAdmin'.state = state
    BY <2>1 DEF WhOps, WhIdle
  <2>3. PICK w : w = whWorker[e]
    OBVIOUS
  <2>4. PICK v : v = [w EXCEPT !.quit = TRUE]
    OBVIOUS
  <2>5. w \in {NoWebhookWorker} \cup WorkerType
    BY <1>0, <2>3 DEF WhTyped
  <2>6. w # NoWebhookWorker => w \in WorkerType /\ v \in WorkerType /\ v.quit = TRUE /\ v.pc = w.pc
                               /\ v.queue = w.queue /\ v.cur = w.cur
    BY <2>4, <2>5 DEF WorkerType
  <2>7. whWorker' = [whWorker EXCEPT ![e] = IF w = NoWebhookWorker THEN NoWebhookWorker ELSE v]
    <3>1. CASE w = NoWebhookWorker
      BY <1>0, <2>1, <2>3, <3>1 DEF CloseQuit, WhTyped
    <3>2. CASE w # NoWebhookWorker
      BY <2>1, <2>3, <2>4, <3>2 DEF CloseQuit
    <3> QED
      BY <3>1, <3>2
  <2>8. /\ whWorker' \in [Endpoints -> {NoWebhookWorker} \cup WorkerType]
        /\ whWorker'[e] = IF w = NoWebhookWorker THEN NoWebhookWorker ELSE v
        /\ \A d \in Endpoints \ {e} : whWorker'[d] = whWorker[d]
    BY <1>0, <2>6, <2>7 DEF WhTyped
  <2>9. WhTyped'
    BY <1>0, <1>1, <1>2, <2>2, <2>8 DEF WhTyped
  <2>10. ASSUME NEW d \in Endpoints, whWorker'[d] # NoWebhookWorker
         PROVE  /\ whWorker[d] # NoWebhookWorker /\ whWorker'[d].queue = whWorker[d].queue
                /\ whWorker'[d].cur = whWorker[d].cur /\ whWorker'[d].pc = whWorker[d].pc
    BY <2>3, <2>6, <2>8, <2>10
  <2>11. WhApart' /\ WhQueues'
    BY <1>0, <1>1, <2>8, <2>10, AdminFrame
  <2>12. ASSUME ActiveValues \subseteq {TRUE} PROVE WhAgreed' /\ WhOp'
    <3>1. WhOp'
      BY <2>2, <2>12 DEF WhOp
    <3>2. ASSUME NEW d \in Endpoints \ {e}
          PROVE  /\ ~WhBusy(d)' /\ ~WhChanging(d)' /\ whConfigs'[d] = whSettings'[d]
                 /\ (whConfigs'[d] = "active") <=> (whWorker'[d] # NoWebhookWorker)
                 /\ whWorker'[d] # NoWebhookWorker => ~whWorker'[d].quit /\ whWorker'[d].pc # "done"
      <4>1. ~WhBusy(d) /\ ~WhChanging(d)
        BY <1>1 DEF WhBusy, WhChanging, WhIdle
      <4>2. ~WhBusy(d)' /\ ~WhChanging(d)'
        BY <2>2 DEF WhBusy, WhChanging
      <4> QED
        BY <1>1, <1>2, <2>8, <2>12, <4>1, <4>2 DEF WhInv, WhAgreed
    <3>3. /\ WhBusy(e)' /\ WhChanging(e)' /\ whConfigs'[e] = whAdmin'.state
          /\ whWorker'[e] # NoWebhookWorker => whWorker'[e].quit
      BY <1>2, <2>2, <2>6, <2>8 DEF WhBusy, WhChanging
    <3>4. WhAgreed'
      BY <3>2, <3>3 DEF WhAgreed
    <3> QED
      BY <3>1, <3>4
  <2> QED
    BY <2>9, <2>11, <2>12 DEF WhInv
<1> QED
  BY <1>3, <1>4

(* The second half: the worker that has stopped is replaced or removed. *)
LEMMA FinishStep == ASSUME WhInv, FinishRegister \/ FinishDeregister PROVE WhInv'
<1>0. WhTyped /\ WhApart /\ WhQueues
  BY DEF WhInv
<1>1. PICK e : e = whAdmin.ep
  OBVIOUS
<1>2. PICK state : state = whAdmin.state
  OBVIOUS
<1>3. whAdmin.op \in {"register", "deregister"} /\ whAdmin.op # "idle"
  BY DEF FinishRegister, FinishDeregister
<1>4. whAdmin # WhIdle /\ e \in Endpoints /\ state \in WhStates /\ whSink = WhIdle
  BY <1>0, <1>1, <1>2, <1>3, OpFacts
<1>5. UNCHANGED <<whConfigs, whSettings, whSink, whPosted, whPanicked, whCount>>
  BY DEF FinishRegister, FinishDeregister
<1>6. PICK w \in {NoWebhookWorker, NewWebhookWorker} \cup {whWorker[e]} :
        /\ whWorker' = [whWorker EXCEPT ![e] = w]
        /\ (whAdmin.op = "register" /\ state = "active") => (w = NewWebhookWorker)
        /\ (whAdmin.op = "deregister") => (w = NoWebhookWorker)
  <2>1. CASE FinishRegister /\ state = "active"
    BY <1>1, <1>2, <2>1 DEF FinishRegister
  <2>2. CASE FinishRegister /\ state # "active"
    <3>1. whWorker' = whWorker /\ whAdmin.op = "register"
      BY <1>1, <1>2, <2>2 DEF FinishRegister
    <3>2. whWorker = [whWorker EXCEPT ![e] = whWorker[e]]
      BY <1>0 DEF WhTyped
    <3> QED
      BY <2>2, <3>1, <3>2
  <2>3. CASE FinishDeregister
    BY <1>1, <2>3 DEF FinishDeregister
  <2> QED
    BY <2>1, <2>2, <2>3
<1>7. PICK next \in WhStates :
        /\ whAdmin' = [op |-> "persist", ep |-> e, state |-> next]
        /\ (whAdmin.op = "register") => (next = state)
        /\ (whAdmin.op = "deregister") => (next = "none")
  <2>1. CASE FinishRegister
    BY <1>1, <1>2, <1>4, <2>1 DEF FinishRegister
  <2>2. CASE FinishDeregister
    BY <1>1, <2>2 DEF FinishDeregister, WhStates
  <2> QED
    BY <2>1, <2>2
<1>8. whAdmin' \in WhOps /\ whAdmin' # WhIdle /\ whAdmin'.op = "persist" /\ whAdmin'.ep = e /\ whAdmin'.state = next
  BY <1>4, <1>7 DEF WhOps, WhIdle
<1>9. /\ whWorker' \in [Endpoints -> {NoWebhookWorker} \cup WorkerType]
      /\ whWorker'[e] = w /\ \A d \in Endpoints \ {e} : whWorker'[d] = whWorker[d]
  <2>1. w \in {NoWebhookWorker} \cup WorkerType
    BY <1>0, <1>4, <1>6, WorkerFacts DEF WhTyped
  <2> QED
    BY <1>0, <1>4, <1>6, <2>1 DEF WhTyped
<1>10. WhTyped'
  BY <1>0, <1>5, <1>8, <1>9 DEF WhTyped
<1>11. ASSUME NEW d \in Endpoints, whWorker'[d] # NoWebhookWorker /\ whWorker'[d] # NewWebhookWorker
       PROVE  /\ whWorker[d] # NoWebhookWorker /\ whWorker'[d].queue = whWorker[d].queue
              /\ whWorker'[d].cur = whWorker[d].cur /\ whWorker'[d].pc = whWorker[d].pc
  BY <1>6, <1>9, <1>11
<1>12. WhApart' /\ WhQueues'
  BY <1>0, <1>4, <1>5, <1>9, <1>11, AdminFrame
<1>13. ASSUME ActiveValues \subseteq {TRUE} PROVE WhAgreed' /\ WhOp'
  <2>1. WhAgreed /\ WhOp
    BY <1>13 DEF WhInv
  <2>2. WhOp'
    BY <1>8 DEF WhOp
  <2>3. ASSUME NEW d \in Endpoints \ {e}
        PROVE  /\ ~WhBusy(d)' /\ whConfigs'[d] = whSettings'[d]
               /\ (whConfigs'[d] = "active") <=> (whWorker'[d] # NoWebhookWorker)
               /\ whWorker'[d] # NoWebhookWorker => ~whWorker'[d].quit /\ whWorker'[d].pc # "done"
    <3>1. ~WhBusy(d) /\ ~WhChanging(d) /\ ~WhBusy(d)'
      BY <1>1, <1>8 DEF WhBusy, WhChanging
    <3> QED
      BY <1>5, <1>9, <2>1, <3>1 DEF WhAgreed
  <2>4. /\ WhBusy(e) /\ WhBusy(e)' /\ whConfigs'[e] = state
    BY <1>1, <1>2, <1>4, <1>5, <1>8, <2>1 DEF WhAgreed, WhBusy
  <2>5. /\ whConfigs'[e] = whAdmin'.state /\ ((whConfigs'[e] = "active") <=> (whWorker'[e] # NoWebhookWorker))
        /\ whWorker'[e] # NoWebhookWorker => ~whWorker'[e].quit /\ whWorker'[e].pc # "done"
    <3>1. NewWebhookWorker # NoWebhookWorker /\ ~NewWebhookWorker.quit /\ NewWebhookWorker.pc # "done"
      BY WorkerFacts
    <3>2. CASE whAdmin.op = "register"
      BY <1>2, <1>6, <1>7, <1>8, <1>9, <2>1, <2>4, <3>1, <3>2 DEF WhOp
    <3>3. CASE whAdmin.op = "deregister"
      BY <1>2, <1>6, <1>7, <1>8, <1>9, <2>1, <2>4, <3>3 DEF WhOp
    <3> QED
      BY <1>3, <3>2, <3>3
  <2>6. WhAgreed'
    BY <2>3, <2>4, <2>5 DEF WhAgreed
  <2> QED
    BY <2>2, <2>6
<1> QED
  BY <1>10, <1>12, <1>13 DEF WhInv

(* The change is persisted, with a dispatch possibly in progress. *)
LEMMA PersistStep == ASSUME WhInv, PersistWebhook PROVE WhInv'
<1>0. WhTyped /\ WhApart /\ WhQueues
  BY DEF WhInv
<1>1. PICK e : e = whAdmin.ep
  OBVIOUS
<1>2. PICK state : state = whAdmin.state
  OBVIOUS
<1>3. /\ whAdmin.op = "persist" /\ whSettings' = [whSettings EXCEPT ![e] = state] /\ whAdmin' = WhIdle
      /\ UNCHANGED <<whConfigs, whWorker, whSink, whPosted, whPanicked, whCount>>
  BY <1>1, <1>2 DEF PersistWebhook
<1>4. whAdmin # WhIdle /\ e \in Endpoints /\ state \in WhStates
  <2>1. whAdmin.op # "idle"
    BY <1>3
  <2> QED
    BY <1>0, <1>1, <1>2, <2>1, OpFacts
<1>5. /\ whSettings' \in [Endpoints -> WhStates] /\ whSettings'[e] = state
      /\ \A d \in Endpoints \ {e} : whSettings'[d] = whSettings[d]
  BY <1>0, <1>3, <1>4 DEF WhTyped
<1>6. WhTyped'
  BY <1>0, <1>3, <1>5 DEF WhTyped, WhOps
<1>7. WhApart'
  BY <1>0, <1>3 DEF WhApart, WhIdle
<1>8. WhUntil' = WhUntil
  BY <1>3 DEF WhUntil
<1>9. WhQueues'
  BY <1>0, <1>3, <1>8 DEF WhQueues
<1>10. ASSUME ActiveValues \subseteq {TRUE} PROVE WhAgreed' /\ WhOp'
  <2>1. WhAgreed
    BY <1>10 DEF WhInv
  <2>2. WhOp'
    BY <1>3 DEF WhOp, WhIdle
  <2>3. ASSUME NEW d \in Endpoints
        PROVE  /\ ~WhBusy(d)' /\ ~WhChanging(d)' /\ ~WhChanging(d)
    BY <1>3 DEF WhBusy, WhChanging, WhIdle
  <2>4. ASSUME NEW d \in Endpoints PROVE whConfigs'[d] = whSettings'[d]
    <3>1. CASE d = e
      BY <1>1, <1>2, <1>3, <1>4, <1>5, <2>1, <3>1 DEF WhAgreed, WhBusy
    <3>2. CASE d # e
      BY <1>1, <1>3, <1>4, <1>5, <2>1, <3>2 DEF WhAgreed, WhBusy
    <3> QED
      BY <3>1, <3>2
  <2>5. WhAgreed'
    BY <1>3, <2>1, <2>3, <2>4 DEF WhAgreed
  <2> QED
    BY <2>2, <2>5
<1> QED
  BY <1>6, <1>7, <1>9, <1>10 DEF WhInv

(* The daemon dies and starts again from the settings. *)
LEMMA RestartStep == ASSUME WhInv, WebhooksCrash PROVE WhInv'
<1>0. WhTyped /\ WhApart /\ WhQueues
  BY DEF WhInv
<1>1. /\ whCount' = [whCount EXCEPT !.crashes = @ + 1] /\ whConfigs' = whSettings
      /\ whWorker' = [e \in Endpoints |-> IF whSettings[e] = "active" THEN NewWebhookWorker ELSE NoWebhookWorker]
      /\ whAdmin' = WhIdle /\ whSink' = WhIdle /\ UNCHANGED <<whSettings, whPosted, whPanicked>>
  BY DEF WebhooksCrash, ReloadWebhooks
<1>2. /\ whCount' \in [dispatched : 0 .. MaxDispatched, updates : Nat, crashes : Nat]
      /\ whCount'.dispatched = whCount.dispatched
  BY <1>0, <1>1 DEF WhTyped
<1>3. whWorker' \in [Endpoints -> {NoWebhookWorker} \cup WorkerType]
  BY <1>1, WorkerFacts
<1>4. WhTyped'
  BY <1>0, <1>1, <1>2, <1>3 DEF WhTyped, WhOps, WhDispatches
<1>5. \A d \in Endpoints : whWorker'[d] = IF whSettings[d] = "active" THEN NewWebhookWorker ELSE NoWebhookWorker
  BY <1>1
<1>6. WhApart' /\ WhQueues'
  BY <1>0, <1>1, <1>2, <1>3, <1>5, AdminFrame
<1>7. WhOp'
  BY <1>1 DEF WhOp, WhIdle
<1>8. ASSUME NEW d \in Endpoints
      PROVE  /\ ~WhBusy(d)' /\ ~WhChanging(d)' /\ whConfigs'[d] = whSettings'[d]
             /\ (whConfigs'[d] = "active") <=> (whWorker'[d] # NoWebhookWorker)
             /\ whWorker'[d] # NoWebhookWorker => ~whWorker'[d].quit /\ whWorker'[d].pc # "done"
  <2>1. ~WhBusy(d)' /\ ~WhChanging(d)'
    BY <1>1 DEF WhBusy, WhChanging, WhIdle
  <2>2. NewWebhookWorker # NoWebhookWorker /\ ~NewWebhookWorker.quit /\ NewWebhookWorker.pc # "done"
    BY WorkerFacts
  <2> QED
    BY <1>1, <1>5, <2>1, <2>2
<1>9. WhAgreed'
  BY <1>8 DEF WhAgreed
<1> QED
  BY <1>4, <1>6, <1>7, <1>9 DEF WhInv

(* Nothing runs before the endpoints are created. *)
LEMMA WebhookStarts == WebhooksInit => WhInv
<1> SUFFICES ASSUME WebhooksInit PROVE WhInv
  OBVIOUS
<1>1. PICK s \in {"none", "inactive"} : whSettings = [e \in Endpoints |-> IF e = Blank THEN s ELSE "none"]
  BY DEF WebhooksInit
<1>2. /\ whConfigs = whSettings /\ whWorker = [e \in Endpoints |-> NoWebhookWorker]
      /\ whAdmin = WhIdle /\ whSink = WhIdle /\ whPosted = [e \in Endpoints |-> 0]
      /\ whCount = [dispatched |-> 0, updates |-> 0, crashes |-> 0]
  BY DEF WebhooksInit
<1>3. whSettings \in [Endpoints -> WhStates] /\ \A e \in Endpoints : whSettings[e] # "active"
  BY <1>1 DEF WhStates
<1>4. whCount \in [dispatched : 0 .. MaxDispatched, updates : Nat, crashes : Nat] /\ whCount.dispatched = 0
  BY <1>2, WebhooksConstants
<1>5. WhTyped
  BY <1>2, <1>3, <1>4 DEF WhTyped, WhOps, WhDispatches
<1>6. WhApart
  BY <1>2 DEF WhApart
<1>7. WhQueues
  BY <1>2, <1>4 DEF WhQueues, WhUntil
<1>8. WhAgreed /\ WhOp
  BY <1>2, <1>3 DEF WhAgreed, WhOp, WhBusy, WhChanging, WhIdle
<1> QED
  BY <1>5, <1>6, <1>7, <1>8 DEF WhInv

LEMMA WebhookStep == WhInv /\ [WebhooksNext]_whVars => WhInv'
<1> SUFFICES ASSUME WhInv, [WebhooksNext]_whVars PROVE WhInv'
  OBVIOUS
<1>1. ASSUME NEW e \in Endpoints, NEW u \in Urls, HandleCreateWebhook(e, u) PROVE WhInv'
  <2>1. BeginRegister(e, "active", "register") /\ whCount' = whCount
    BY <1>1 DEF HandleCreateWebhook
  <2>2. whCount \in [dispatched : 0 .. MaxDispatched, updates : Nat, crashes : Nat] /\ "active" \in WhStates
    BY DEF WhInv, WhTyped, WhStates
  <2> QED
    BY <2>1, <2>2, BeginStep
<1>2. ASSUME NEW e \in Endpoints, NEW a \in ActiveValues, UpdateWebhook(e, a) PROVE WhInv'
  <2>1. PICK state \in WhStates : state = IF a THEN "active" ELSE "inactive"
    BY DEF WhStates
  <2>2. BeginRegister(e, state, "register") /\ whCount' = [whCount EXCEPT !.updates = @ + 1]
    BY <1>2, <2>1 DEF UpdateWebhook
  <2>3. /\ whCount' \in [dispatched : 0 .. MaxDispatched, updates : Nat, crashes : Nat]
        /\ whCount'.dispatched = whCount.dispatched
    BY <2>2 DEF WhInv, WhTyped
  <2>4. ActiveValues \subseteq {TRUE} => state = "active"
    BY <2>1
  <2> QED
    BY <2>2, <2>3, <2>4, BeginStep
<1>3. ASSUME NEW e \in Endpoints, HandleDeleteWebhook(e) PROVE WhInv'
  <2>1. BeginRegister(e, "none", "deregister") /\ whCount' = whCount
    BY <1>3 DEF HandleDeleteWebhook
  <2>2. whCount \in [dispatched : 0 .. MaxDispatched, updates : Nat, crashes : Nat] /\ "none" \in WhStates
    BY DEF WhInv, WhTyped, WhStates
  <2> QED
    BY <2>1, <2>2, BeginStep
<1>4. ASSUME NEW e \in Endpoints, WebhookEnqueue(e) \/ WebhookDropOldest(e) PROVE WhInv'
  BY <1>4, DispatchStep
<1>5. ASSUME NEW e \in Endpoints,
             WorkerQuits(e) \/ WorkerTakes(e) \/ HandleResumeWebhook(e) \/ \E ok \in BOOLEAN : WebhookPost(e, ok)
      PROVE  WhInv'
  BY <1>5, WorkerStep
<1>6. ASSUME NEW ev \in WhEvents, WebhooksConsume(ev) PROVE WhInv'
  BY <1>6, ConsumeStep
<1>7. CASE UNCHANGED whVars
  <2>1. UNCHANGED <<whConfigs, whSettings, whWorker, whAdmin, whSink, whPosted, whCount>>
    BY <1>7 DEF whVars
  <2>2. WhUntil' = WhUntil
    BY <2>1 DEF WhUntil
  <2> QED
    BY <2>1, <2>2 DEF WhInv, WhTyped, WhApart, WhQueues, WhAgreed, WhOp, WhBusy, WhChanging
<1> QED
  <2>1. ASSUME NEW e \in Endpoints \ {Blank},
               \/ \E u \in Urls : HandleCreateWebhook(e, u)
               \/ \E a \in ActiveValues : UpdateWebhook(e, a)
               \/ HandleDeleteWebhook(e) \/ HandleResumeWebhook(e)
               \/ WebhookEnqueue(e) \/ WebhookDropOldest(e)
               \/ WorkerQuits(e) \/ WorkerTakes(e) \/ \E ok \in BOOLEAN : WebhookPost(e, ok)
        PROVE  WhInv'
    BY <1>1, <1>2, <1>3, <1>4, <1>5, <2>1
  <2>2. CASE FinishRegister \/ FinishDeregister \/ PersistWebhook \/ DispatchReturns \/ WebhooksCrash
    BY <2>2, FinishStep, PersistStep, DispatchStep, RestartStep
  <2> QED
    BY <1>6, <1>7, <2>1, <2>2 DEF WebhooksNext

-----------------------------------------------------------------------------
(* Webhooks: what the invariant says of an endpoint.                          *)

LEMMA PendingOrdered == ASSUME WhInv PROVE WebhooksTypeOK /\ DeliveredInOrder
<1>0. WhTyped /\ WhQueues
  BY DEF WhInv
<1>1. WebhooksTypeOK
  BY <1>0 DEF WebhooksTypeOK, WhTyped, WhQueues, WhOrdered
<1>2. ASSUME NEW e \in Endpoints, NEW p, p = WebhookPending(e)
      PROVE  /\ \A i \in 1 .. Len(p) - 1 : p[i] < p[i + 1]
             /\ p # <<>> => whPosted[e] <= p[1]
             /\ \A i \in 2 .. Len(p) : whPosted[e] < p[i]
  <2>1. PICK w : w = whWorker[e]
    OBVIOUS
  <2>2. PICK posted : posted = whPosted[e]
    OBVIOUS
  <2>3. PICK until : until = WhUntil[e]
    OBVIOUS
  <2>4. CASE w = NoWebhookWorker
    BY <1>2, <2>1, <2>4 DEF WebhookPending
  <2>5. CASE w # NoWebhookWorker
    <3>1. w \in WorkerType /\ posted \in Nat /\ WhOrdered(w, posted, until)
      BY <1>0, <2>1, <2>2, <2>3, <2>5 DEF WhTyped, WhQueues
    <3>2. PICK q : q = w.queue
      OBVIOUS
    <3>3. /\ q \in Seq(1 .. MaxDispatched) /\ Len(q) \in Nat /\ w.cur \in Nat
          /\ \A i \in 1 .. Len(q) : q[i] \in Nat
      BY <3>1, <3>2, WorkerFacts
    <3>4. /\ \A i \in 1 .. Len(q) : posted < q[i]
          /\ \A i, j \in 1 .. Len(q) : i < j => q[i] < q[j]
          /\ w.pc = "deliver" => posted <= w.cur /\ \A i \in 1 .. Len(q) : w.cur < q[i]
      BY <3>1, <3>2 DEF WhOrdered
    <3>5. CASE w.pc # "deliver"
      <4>1. p = q
        <5>1. \A T : \A s \in Seq(T) : <<>> \o s = s
          OBVIOUS
        <5> QED
          BY <1>2, <2>1, <2>5, <3>2, <3>3, <3>5, <5>1 DEF WebhookPending
      <4>2. ASSUME NEW i \in 1 .. Len(q) - 1 PROVE q[i] < q[i + 1]
        <5>1. i \in 1 .. Len(q) /\ i + 1 \in 1 .. Len(q) /\ i < i + 1
          BY <3>3
        <5> QED
          BY <3>4, <5>1
      <4>3. \A i \in 2 .. Len(q) : i \in 1 .. Len(q)
        BY <3>3
      <4>4. q # <<>> => 1 \in 1 .. Len(q)
        BY <3>3
      <4>5. q # <<>> => posted <= q[1]
        BY <3>1, <3>3, <3>4, <4>4
      <4> QED
        BY <2>2, <3>4, <4>1, <4>2, <4>3, <4>5
    <3>6. CASE w.pc = "deliver"
      <4>1. p = <<w.cur>> \o q
        BY <1>2, <2>1, <2>5, <3>2, <3>6 DEF WebhookPending
      <4>2. /\ Len(p) = Len(q) + 1 /\ p[1] = w.cur
            /\ \A i \in 2 .. Len(p) : i - 1 \in 1 .. Len(q) /\ p[i] = q[i - 1]
        <5>1. w.cur \in 0 .. MaxDispatched
          BY <3>1, WorkerFacts
        <5>2. <<w.cur>> \in Seq(Nat) /\ q \in Seq(Nat) /\ Len(<<w.cur>>) = 1 /\ <<w.cur>>[1] = w.cur
          BY <3>3
        <5>3. Len(<<w.cur>> \o q) = 1 + Len(q)
              /\ \A i \in 1 .. Len(<<w.cur>>) + Len(q) :
                   (<<w.cur>> \o q)[i] = IF i <= Len(<<w.cur>>) THEN <<w.cur>>[i] ELSE q[i - Len(<<w.cur>>)]
          BY <5>2, ConcatProperties
        <5> QED
          BY <3>3, <4>1, <5>2, <5>3
      <4>3. ASSUME NEW i \in 1 .. Len(p) - 1 PROVE p[i] < p[i + 1]
        <5>1. CASE i = 1
          <6>1. i + 1 \in 2 .. Len(p) /\ (i + 1) - 1 = 1
            BY <3>3, <4>2, <5>1
          <6> QED
            BY <3>4, <3>6, <4>2, <5>1, <6>1
        <5>2. CASE i # 1
          <6>1. i \in 2 .. Len(p) /\ i + 1 \in 2 .. Len(p) /\ (i + 1) - 1 = i /\ i - 1 < i
            BY <3>3, <4>2, <5>2
          <6>2. /\ i - 1 \in 1 .. Len(q) /\ p[i] = q[i - 1]
                /\ i \in 1 .. Len(q) /\ p[i + 1] = q[i]
            BY <4>2, <6>1
          <6> QED
            BY <3>4, <6>1, <6>2
        <5> QED
          BY <5>1, <5>2
      <4>4. \A i \in 2 .. Len(p) : posted < p[i]
        BY <3>4, <4>2
      <4> QED
        BY <2>2, <3>4, <3>6, <4>2, <4>3, <4>4
    <3> QED
      BY <3>5, <3>6
  <2> QED
    BY <2>4, <2>5
<1> QED
  BY <1>1, <1>2 DEF DeliveredInOrder

(* For every set of endpoints and event types, every depth of the queues, number of attempts and
   threshold for the pause, any updates and crashes: the queue of an endpoint is bounded, and
   what is posted to it, being delivered and queued for it (runWorker, Dispatch) is in the order of
   dispatch, through what is dropped from a full queue, retried, paused or lost when a worker is
   replaced.                                                                  *)
THEOREM WebhooksInOrder == WebhooksSpec => [](WebhooksTypeOK /\ DeliveredInOrder)
<1>1. WebhooksInit => WhInv
  BY WebhookStarts
<1>2. WhInv /\ [WebhooksNext]_whVars => WhInv'
  BY WebhookStep
<1>3. WhInv => WebhooksTypeOK /\ DeliveredInOrder
  BY PendingOrdered
<1> QED
  BY <1>1, <1>2, <1>3, PTL DEF WebhooksSpec

(* And as long as webhookControl.Update makes no endpoint inactive (no route calls it), the list of
   the API, the settings and the running workers agree between the operations on endpoints:
   whatever is registered, deleted or resumed during deliveries, and wherever the daemon dies
   between the change and its persistence.                                    *)
THEOREM EndpointsServed == ASSUME ActiveValues \subseteq {TRUE} PROVE WebhooksSpec => []WebhookQueues
<1>1. WebhooksInit => WhInv
  BY WebhookStarts
<1>2. WhInv /\ [WebhooksNext]_whVars => WhInv'
  BY WebhookStep
<1>3. WhInv => WebhookQueues
  <2> SUFFICES ASSUME WhInv PROVE WebhookQueues
    OBVIOUS
  <2>1. WebhooksTypeOK /\ DeliveredInOrder
    BY PendingOrdered
  <2>2. WhTyped /\ WhAgreed
    BY DEF WhInv
  <2>3. ASSUME whAdmin = WhIdle, NEW e \in Endpoints
        PROVE  /\ whSettings[e] = whConfigs[e]
               /\ (whConfigs[e] = "active") <=> (whWorker[e].pc \in {"select", "deliver"} /\ ~whWorker[e].quit)
    <3>1. ~WhBusy(e) /\ ~WhChanging(e)
      BY <2>3 DEF WhBusy, WhChanging, WhIdle
    <3>2. CASE whWorker[e] = NoWebhookWorker
      BY <2>2, <2>3, <3>1, <3>2, WorkerFacts DEF WhAgreed
    <3>3. CASE whWorker[e] # NoWebhookWorker
      <4>1. whWorker[e] \in WorkerType
        BY <2>2, <3>3 DEF WhTyped
      <4>2. whWorker[e].pc \in {"select", "deliver", "done"}
        BY <4>1, WorkerFacts
      <4>3. whConfigs[e] = "active" /\ ~whWorker[e].quit /\ whWorker[e].pc # "done" /\ whConfigs[e] = whSettings[e]
        BY <2>2, <3>1, <3>3 DEF WhAgreed
      <4> QED
        BY <4>2, <4>3
    <3> QED
      BY <3>2, <3>3
  <2>4. EndpointsAgree
    BY <2>3 DEF EndpointsAgree
  <2> QED
    BY <2>1, <2>4 DEF WebhookQueues
<1> QED
  BY <1>1, <1>2, <1>3, PTL DEF WebhooksSpec

-----------------------------------------------------------------------------
(* Signing in: the inductive invariant.                                       *)

Tokens == [n : 1 .. auIssued, fresh : BOOLEAN]
AuPlain == {"idle", "wait", "refused", "code", "exchange", "upsert", "state", "attach"}
AuJobs == [pc : AuPlain] \cup [pc : {"validate", "store"}, tok : Tokens]
AuCalls == [pc : {"idle", "lock"}] \cup [pc : {"refresh"}, n : 0 .. auIssued]
             \cup [pc : {"write"}, tok : Tokens]
AuTyped ==
  /\ auIssued \in 0 .. MaxIssued /\ auValid \subseteq 1 .. auIssued
  /\ auVault \in [n : 0 .. auIssued, fresh : BOOLEAN]
  /\ auLock \in AuCallers \cup {Free}
  /\ auCaller \in [AuCallers -> AuCalls] /\ auWork \in [Workers -> AuJobs]
  /\ auLost \in BOOLEAN

(* A caller that presents or holds a token set has the lock of the account. *)
Refreshing(c) == auCaller[c].pc = "refresh"
Writing(c) == auCaller[c].pc = "write"
AuLocked == \A c \in AuCallers : Refreshing(c) \/ Writing(c) => auLock = c

(* The token set of a sign-in that is not stored yet is nobody else's. *)
Minted(w) == auWork[w].pc \in {"validate", "store"}
Unspent ==
  \A w \in Workers : Minted(w) =>
    /\ auWork[w].tok.n # auVault.n
    /\ \A c \in AuCallers : Refreshing(c) => auWork[w].tok.n # auCaller[c].n
    /\ \A c \in AuCallers : Writing(c) => auWork[w].tok.n # auCaller[c].tok.n
    /\ \A v \in Workers \ {w} : Minted(v) => auWork[w].tok.n # auWork[v].tok.n

(* As long as no answer was lost the platform accepts every token set in use. *)
Live ==
  ~auLost =>
    /\ \A c \in AuCallers : Refreshing(c) => auCaller[c].n \in auValid
    /\ \A c \in AuCallers : Writing(c) => auCaller[c].tok.n \in auValid
    /\ \A w \in Workers : Minted(w) => auWork[w].tok.n \in auValid
    /\ auVault # NoToken /\ (\A c \in AuCallers : ~Writing(c)) => auVault.n \in auValid

TokInv == AuTyped /\ AuLocked /\ Unspent /\ Live

(* The code is redeemed by whoever finds it unredeemed. *)
CodeInv == auExchanges \in Nat /\ auExchanges <= 1 /\ (auOnce = Free => auExchanges = 0)

(* A handler runs only while the server is up, the goroutine that abandons a session
   outlives the server, and Close waits for it and for the poll.              *)
Resting(w) == auWork[w] = AtRest
AuQuiet ==
  /\ auSession \in {"none", "pending", "authorized", "denied", "expired", "error"}
  /\ auServer \in {"none", "closed"} => \A b \in Browsers : Resting(b)
  /\ auExpire = "none" => auServer = "none"
  /\ auExpire = "ended" => auServer = "closed"
  /\ auSession = "none" => auServer = "none" /\ auExpire = "none"
  /\ auClose = "done" => Resting("poll") /\ auExpire \in {"none", "ended"}
AuInv == TokInv /\ CodeInv /\ AuQuiet

-----------------------------------------------------------------------------
(* Signing in: types.                                                         *)

(* The records a goroutine of a sign-in can have, and what they do not depend on. *)
LEMMA JobFacts ==
  /\ AtRest \in AuJobs /\ \A p \in AuPlain : [pc |-> p] \in AuJobs /\ [pc |-> p].pc = p
  /\ \A p \in AuPlain : p \notin {"validate", "store"}
  /\ \A r \in AuJobs : r.pc \in {"validate", "store"} => r.tok \in Tokens /\ r.tok.n \in 1 .. auIssued
  /\ \A r \in AuJobs : r.pc \in AuPlain \cup {"validate", "store"}
  /\ \A t \in Tokens : [pc |-> "validate", tok |-> t] \in AuJobs
<1>1. AtRest \in AuJobs /\ \A p \in AuPlain : [pc |-> p] \in AuJobs /\ [pc |-> p].pc = p
  BY DEF AtRest, AuJobs, AuPlain
<1>2. \A p \in AuPlain : p \notin {"validate", "store"}
  BY DEF AuPlain
<1>3. ASSUME NEW r \in AuJobs
      PROVE  /\ r.pc \in {"validate", "store"} => r.tok \in Tokens /\ r.tok.n \in 1 .. auIssued
             /\ r.pc \in AuPlain \cup {"validate", "store"}
  <2>1. CASE r \in [pc : AuPlain]
    BY <1>2, <2>1
  <2>2. CASE r \in [pc : {"validate", "store"}, tok : Tokens]
    BY <2>2 DEF Tokens
  <2> QED
    BY <2>1, <2>2 DEF AuJobs
<1>4. \A t \in Tokens : [pc |-> "validate", tok |-> t] \in AuJobs
  BY DEF AuJobs
<1> QED
  BY <1>1, <1>2, <1>3, <1>4

LEMMA CallFacts ==
  /\ AtRest \in AuCalls /\ [pc |-> "lock"] \in AuCalls
  /\ \A n \in 0 .. auIssued : [pc |-> "refresh", n |-> n] \in AuCalls
  /\ \A t \in Tokens : [pc |-> "write", tok |-> t] \in AuCalls
  /\ \A r \in AuCalls : r.pc = "refresh" => r.n \in 0 .. auIssued
  /\ \A r \in AuCalls : r.pc = "write" => r.tok \in Tokens /\ r.tok.n \in 1 .. auIssued
<1>1. AtRest \in AuCalls /\ [pc |-> "lock"] \in AuCalls
  BY DEF AtRest, AuCalls
<1>2. /\ \A n \in 0 .. auIssued : [pc |-> "refresh", n |-> n] \in AuCalls
      /\ \A t \in Tokens : [pc |-> "write", tok |-> t] \in AuCalls
  BY DEF AuCalls
<1>3. ASSUME NEW r \in AuCalls
      PROVE  /\ r.pc = "refresh" => r.n \in 0 .. auIssued
             /\ r.pc = "write" => r.tok \in Tokens /\ r.tok.n \in 1 .. auIssued
  <2>1. CASE r \in [pc : {"idle", "lock"}]
    BY <2>1
  <2>2. CASE r \in [pc : {"refresh"}, n : 0 .. auIssued]
    BY <2>2
  <2>3. CASE r \in [pc : {"write"}, tok : Tokens]
    BY <2>3 DEF Tokens
  <2> QED
    BY <2>1, <2>2, <2>3 DEF AuCalls
<1> QED
  BY <1>1, <1>2, <1>3

(* Issuing one more token set keeps what was typed. *)
LEMMA IssueGrows ==
  ASSUME AuTyped, Issue
  PROVE  /\ auIssued' = auIssued + 1 /\ auIssued \in Nat /\ auIssued' \in 0 .. MaxIssued
         /\ NewToken.n = auIssued + 1 /\ NewToken \in Tokens'
         /\ auValid \subseteq 1 .. auIssued'
         /\ auVault \in [n : 0 .. auIssued', fresh : BOOLEAN]
         /\ AuJobs \subseteq AuJobs' /\ AuCalls \subseteq AuCalls'
<1>1. /\ auIssued' = auIssued + 1 /\ auIssued \in Nat /\ auIssued' \in 0 .. MaxIssued /\ MaxIssued \in Nat
      /\ auIssued' \in 1 .. auIssued'
  BY AuthConstants DEF AuTyped, Issue
<1>2. 1 .. auIssued \subseteq 1 .. auIssued' /\ 0 .. auIssued \subseteq 0 .. auIssued'
  BY <1>1
<1>3. Tokens \subseteq Tokens' /\ NewToken.n = auIssued + 1 /\ NewToken \in Tokens'
  BY <1>1, <1>2 DEF Tokens, NewToken
<1>4. AuJobs \subseteq AuJobs' /\ AuCalls \subseteq AuCalls'
  BY <1>2, <1>3 DEF AuJobs, AuCalls
<1> QED
  BY <1>1, <1>2, <1>3, <1>4 DEF AuTyped

-----------------------------------------------------------------------------
(* Signing in: tokens.                                                        *)

(* A goroutine moves on without a token set in its hands. *)
LEMMA MovesOn ==
  ASSUME TokInv, UNCHANGED <<auIssued, auValid, auVault, auLost, auLock, auCaller>>,
         NEW w \in Workers, NEW p \in AuPlain, auWork' = [auWork EXCEPT ![w] = [pc |-> p]]
  PROVE  TokInv'
<1>1. auWork' \in [Workers -> AuJobs] /\ auWork'[w].pc = p /\ p \notin {"validate", "store"}
  BY JobFacts DEF TokInv, AuTyped
<1>2. \A v \in Workers : Minted(v)' => v # w /\ Minted(v) /\ auWork'[v] = auWork[v]
  BY <1>1 DEF TokInv, AuTyped, Minted
<1>3. AuTyped' /\ AuLocked'
  BY <1>1 DEF TokInv, AuTyped, AuLocked, Refreshing, Writing, AuJobs, AuCalls, Tokens
<1>4. Unspent'
  BY <1>2 DEF TokInv, Unspent, Refreshing, Writing
<1>5. Live'
  BY <1>2 DEF TokInv, Live, Refreshing, Writing
<1> QED
  BY <1>3, <1>4, <1>5 DEF TokInv

(* Nothing that concerns tokens changes. *)
LEMMA TokSame ==
  ASSUME TokInv, UNCHANGED <<auIssued, auValid, auVault, auLost, auLock, auCaller, auWork>>
  PROVE  TokInv'
BY DEF TokInv, AuTyped, AuLocked, Unspent, Live, Refreshing, Writing, Minted, AuJobs, AuCalls, Tokens

(* A caller is at rest again, or waits for the lock. *)
LEMMA CallerLeaves ==
  ASSUME TokInv, UNCHANGED <<auIssued, auValid, auVault, auLost, auWork>>,
         NEW c \in AuCallers, ~Writing(c), NEW r \in {AtRest, [pc |-> "lock"]},
         auCaller' = [auCaller EXCEPT ![c] = r],
         auLock' = auLock \/ (auLock = c /\ auLock' = Free)
  PROVE  TokInv'
<1>1. /\ auCaller' \in [AuCallers -> AuCalls] /\ auCaller'[c].pc \in {"idle", "lock"}
      /\ \A d \in AuCallers \ {c} : auCaller'[d] = auCaller[d]
  BY CallFacts DEF TokInv, AuTyped, AtRest
<1>2. \A d \in AuCallers : /\ Refreshing(d)' => d # c /\ Refreshing(d) /\ auCaller'[d] = auCaller[d]
                           /\ Writing(d)' <=> Writing(d)
                           /\ Writing(d)' => d # c /\ auCaller'[d] = auCaller[d]
  BY <1>1 DEF Refreshing, Writing
<1>3. AuTyped'
  BY <1>1 DEF TokInv, AuTyped, AuJobs, AuCalls, Tokens
<1>4. AuLocked'
  BY <1>2 DEF TokInv, AuLocked
<1>5. Unspent'
  BY <1>2 DEF TokInv, Unspent, Minted
<1>6. Live'
  BY <1>2 DEF TokInv, Live, Minted
<1> QED
  BY <1>3, <1>4, <1>5, <1>6 DEF TokInv

(* The caller that has the lock is the only one with a token set. *)
LEMMA LockAlone ==
  ASSUME TokInv, NEW c \in AuCallers, Refreshing(c) \/ Writing(c)
  PROVE  /\ auLock = c /\ c # Free
         /\ \A d \in AuCallers \ {c} : ~Refreshing(d) /\ ~Writing(d)
BY AuthConstants DEF TokInv, AuLocked, Free

LEMMA TokLockRef == ASSUME TokInv, NEW c \in AuCallers, LockRef(c) PROVE TokInv'
<1>1. auCaller[c].pc = "lock" /\ auLock = Free
      /\ UNCHANGED <<auIssued, auValid, auVault, auLost, auWork>>
  BY DEF LockRef, tokenVars
<1>2. \A d \in AuCallers : ~Refreshing(d) /\ ~Writing(d)
  BY <1>1, AuthConstants DEF TokInv, AuLocked, Free
<1>3. CASE ~NeedsRefresh
  BY <1>1, <1>2, <1>3, CallerLeaves DEF LockRef
<1>4. CASE NeedsRefresh
  <2>1. auLock' = c /\ auCaller' = [auCaller EXCEPT ![c] = [pc |-> "refresh", n |-> auVault.n]]
    BY <1>4 DEF LockRef
  <2>2. auVault.n \in 0 .. auIssued
    BY DEF TokInv, AuTyped
  <2>3. /\ auCaller' \in [AuCallers -> AuCalls]
        /\ auCaller'[c].pc = "refresh" /\ auCaller'[c].n = auVault.n
        /\ \A d \in AuCallers \ {c} : auCaller'[d] = auCaller[d]
    BY <2>1, <2>2, CallFacts DEF TokInv, AuTyped
  <2>4. \A d \in AuCallers : ~Writing(d)' /\ (Refreshing(d)' => d = c)
    BY <1>2, <2>3 DEF Refreshing, Writing
  <2>5. AuTyped'
    BY <1>1, <2>1, <2>3 DEF TokInv, AuTyped, AuJobs, AuCalls, Tokens
  <2>6. AuLocked'
    BY <2>1, <2>4 DEF AuLocked
  <2>7. Unspent'
    BY <1>1, <2>3, <2>4 DEF TokInv, Unspent, Minted
  <2>8. Live'
    BY <1>1, <1>2, <1>4, <2>3, <2>4 DEF TokInv, Live, Minted, NeedsRefresh
  <2> QED
    BY <2>5, <2>6, <2>7, <2>8 DEF TokInv
<1> QED
  BY <1>3, <1>4

LEMMA TokRefresh == ASSUME TokInv, NEW c \in AuCallers, Refresh(c) PROVE TokInv'
<1>1. /\ Refreshing(c) /\ auCaller[c].n \in auValid /\ Issue
      /\ auValid' = (auValid \ {auCaller[c].n}) \cup {NewToken.n}
      /\ auVault' = auVault /\ auWork' = auWork
  BY DEF Refresh, Refreshing
<1>2. AuTyped
  BY DEF TokInv
<1>3. /\ auIssued' = auIssued + 1 /\ auIssued \in Nat /\ auIssued' \in 0 .. MaxIssued
      /\ NewToken.n = auIssued + 1 /\ NewToken \in Tokens'
      /\ auValid \subseteq 1 .. auIssued' /\ NewToken.n \in 1 .. auIssued'
      /\ auVault \in [n : 0 .. auIssued', fresh : BOOLEAN]
      /\ AuJobs \subseteq AuJobs' /\ AuCalls \subseteq AuCalls'
  BY <1>1, <1>2, IssueGrows
<1>4. auLock = c /\ c # Free /\ \A d \in AuCallers \ {c} : ~Refreshing(d) /\ ~Writing(d)
  BY <1>1, LockAlone
<1>5. auValid' \subseteq 1 .. auIssued' /\ auWork' \in [Workers -> AuJobs']
  BY <1>1, <1>2, <1>3 DEF AuTyped
<1>6. \A w \in Workers : Minted(w) => auWork[w].tok.n \in 1 .. auIssued /\ auWork[w].tok.n # auCaller[c].n
  BY <1>1, <1>2, JobFacts DEF TokInv, AuTyped, Unspent, Minted
<1>7. CASE auCaller' = [auCaller EXCEPT ![c] = [pc |-> "write", tok |-> NewToken]] /\ UNCHANGED <<auLock, auLost>>
  <2>1. [pc |-> "write", tok |-> NewToken] \in AuCalls'
    BY <1>3 DEF AuCalls
  <2>2. auCaller' \in [AuCallers -> AuCalls']
    BY <1>2, <1>3, <1>7, <2>1 DEF AuTyped
  <2>3. /\ auCaller'[c].pc = "write" /\ auCaller'[c].tok.n = auIssued + 1
        /\ \A d \in AuCallers \ {c} : auCaller'[d] = auCaller[d]
    BY <1>2, <1>3, <1>7 DEF AuTyped
  <2>4. \A d \in AuCallers : ~Refreshing(d)' /\ (Writing(d)' <=> d = c)
    BY <1>4, <2>3 DEF Refreshing, Writing
  <2>5. AuTyped'
    BY <1>1, <1>2, <1>3, <1>5, <1>7, <2>2 DEF AuTyped
  <2>6. AuLocked'
    BY <1>4, <1>7, <2>4 DEF AuLocked
  <2>7. \A w \in Workers : Minted(w) => auWork[w].tok.n # auIssued + 1
    BY <1>3, <1>6
  <2>8. Unspent'
    BY <1>1, <2>3, <2>4, <2>7 DEF TokInv, Unspent, Minted
  <2>9. Live'
    BY <1>1, <1>3, <1>6, <1>7, <2>3, <2>4 DEF TokInv, Live, Minted
  <2> QED
    BY <2>5, <2>6, <2>8, <2>9 DEF TokInv
<1>8. CASE auCaller' = [auCaller EXCEPT ![c] = AtRest] /\ auLock' = Free /\ auLost' = TRUE
  <2>1. auCaller' \in [AuCallers -> AuCalls']
    BY <1>2, <1>3, <1>8, CallFacts DEF AuTyped
  <2>2. \A d \in AuCallers : ~Refreshing(d)' /\ ~Writing(d)'
    BY <1>2, <1>4, <1>8 DEF AuTyped, Refreshing, Writing, AtRest
  <2>3. AuTyped'
    BY <1>1, <1>2, <1>3, <1>5, <1>8, <2>1 DEF AuTyped
  <2>4. AuLocked' /\ Live'
    BY <1>8, <2>2 DEF AuLocked, Live
  <2>5. Unspent'
    BY <1>1, <2>2 DEF TokInv, Unspent, Minted
  <2> QED
    BY <2>3, <2>4, <2>5 DEF TokInv
<1> QED
  BY <1>7, <1>8 DEF Refresh

LEMMA TokWrite == ASSUME TokInv, NEW c \in AuCallers, WriteToken(c) PROVE TokInv'
<1>1. /\ Writing(c) /\ UNCHANGED <<auIssued, auValid, auWork>>
      /\ auCaller' = [auCaller EXCEPT ![c] = AtRest] /\ auLock' = Free
      /\ \/ auVault' = auCaller[c].tok /\ auLost' = auLost
         \/ auLost' = TRUE /\ auVault' = auVault
  BY DEF WriteToken, Writing
<1>2. auLock = c /\ c # Free /\ \A d \in AuCallers \ {c} : ~Refreshing(d) /\ ~Writing(d)
  BY <1>1, LockAlone
<1>3. auCaller[c].tok \in Tokens /\ auCaller[c].tok.n \in 1 .. auIssued /\ auIssued \in Nat
  BY <1>1, CallFacts, AuthConstants DEF TokInv, AuTyped, Writing
<1>4. Tokens \subseteq [n : 0 .. auIssued, fresh : BOOLEAN]
  BY <1>3 DEF Tokens
<1>5. auCaller' \in [AuCallers -> AuCalls] /\ \A d \in AuCallers : ~Refreshing(d)' /\ ~Writing(d)'
  BY <1>1, <1>2, CallFacts DEF TokInv, AuTyped, Refreshing, Writing, AtRest
<1>6. AuTyped'
  BY <1>1, <1>3, <1>4, <1>5 DEF TokInv, AuTyped, AuJobs, AuCalls, Tokens
<1>7. AuLocked'
  BY <1>5 DEF AuLocked
<1>8. Unspent'
  BY <1>1, <1>5 DEF TokInv, Unspent, Minted
<1>9. Live'
  BY <1>1, <1>5 DEF TokInv, Live, Minted
<1> QED
  BY <1>6, <1>7, <1>8, <1>9 DEF TokInv

(* The platform issues a token set to a sign-in. *)
LEMMA TokMint ==
  ASSUME TokInv, Issue, NEW w \in Workers, ~Minted(w),
         auValid' = auValid \cup {NewToken.n},
         auWork' = [auWork EXCEPT ![w] = [pc |-> "validate", tok |-> NewToken]],
         UNCHANGED <<auVault, auLost, auLock, auCaller>>
  PROVE  TokInv'
<1>1. AuTyped
  BY DEF TokInv
<1>2. /\ auIssued' = auIssued + 1 /\ auIssued \in Nat /\ auIssued' \in 0 .. MaxIssued
      /\ NewToken.n = auIssued + 1 /\ NewToken \in Tokens' /\ NewToken.n \in 1 .. auIssued'
      /\ auValid \subseteq 1 .. auIssued'
      /\ auVault \in [n : 0 .. auIssued', fresh : BOOLEAN]
      /\ AuJobs \subseteq AuJobs' /\ AuCalls \subseteq AuCalls'
  BY <1>1, IssueGrows
<1>3. [pc |-> "validate", tok |-> NewToken] \in AuJobs'
  BY <1>2 DEF AuJobs
<1>4. /\ auWork' \in [Workers -> AuJobs'] /\ auWork'[w].pc = "validate" /\ auWork'[w].tok.n = auIssued + 1
      /\ \A v \in Workers \ {w} : auWork'[v] = auWork[v]
  BY <1>1, <1>2, <1>3 DEF AuTyped
<1>5. AuTyped'
  BY <1>1, <1>2, <1>4 DEF AuTyped
<1>6. AuLocked'
  BY DEF TokInv, AuLocked, Refreshing, Writing
<1>7. \A v \in Workers \ {w} : Minted(v)' => Minted(v) /\ auWork[v].tok.n \in 1 .. auIssued
  BY <1>1, <1>4, JobFacts DEF AuTyped, Minted
<1>8. \A n \in 0 .. auIssued : n # auIssued + 1
  BY <1>2
<1>9. /\ auVault.n \in 0 .. auIssued
      /\ \A c \in AuCallers : Refreshing(c) => auCaller[c].n \in 0 .. auIssued
      /\ \A c \in AuCallers : Writing(c) => auCaller[c].tok.n \in 1 .. auIssued
  BY <1>1, CallFacts DEF AuTyped, Refreshing, Writing
<1>10. Unspent'
  <2>1. 1 .. auIssued \subseteq 0 .. auIssued
    BY <1>2
  <2> SUFFICES ASSUME NEW v \in Workers, Minted(v)'
               PROVE  /\ auWork'[v].tok.n # auVault'.n
                      /\ \A c \in AuCallers : Refreshing(c)' => auWork'[v].tok.n # auCaller'[c].n
                      /\ \A c \in AuCallers : Writing(c)' => auWork'[v].tok.n # auCaller'[c].tok.n
                      /\ \A u \in Workers \ {v} : Minted(u)' => auWork'[v].tok.n # auWork'[u].tok.n
    BY DEF Unspent
  <2>2. CASE v = w
    BY <1>4, <1>7, <1>8, <1>9, <2>1, <2>2 DEF Refreshing, Writing
  <2>3. CASE v # w
    BY <1>4, <1>7, <1>8, <2>1, <2>3 DEF TokInv, Unspent, Refreshing, Writing
  <2> QED
    BY <2>2, <2>3
<1>11. Live'
  BY <1>2, <1>4, <1>7 DEF TokInv, Live, Refreshing, Writing
<1> QED
  BY <1>5, <1>6, <1>10, <1>11 DEF TokInv

LEMMA TokIdentified == ASSUME TokInv, NEW w \in Workers, Identified(w) PROVE TokInv'
<1>1. /\ auWork[w].pc = "validate" /\ auWork' = [auWork EXCEPT ![w] = [auWork[w] EXCEPT !.pc = "store"]]
      /\ UNCHANGED <<auIssued, auValid, auVault, auLost, auLock, auCaller>>
  BY DEF Identified, Goto, tokenVars
<1>2. auWork[w] \in [pc : {"validate", "store"}, tok : Tokens]
  BY <1>1 DEF TokInv, AuTyped, AuJobs, AuPlain
<1>3. PICK r : r = [auWork[w] EXCEPT !.pc = "store"]
  OBVIOUS
<1>4. r \in AuJobs /\ r.pc = "store" /\ r.tok = auWork[w].tok
  BY <1>2, <1>3 DEF AuJobs
<1>5. auWork' = [auWork EXCEPT ![w] = r]
  BY <1>1, <1>3
<1>6. /\ auWork' \in [Workers -> AuJobs]
      /\ \A v \in Workers : (Minted(v)' <=> Minted(v)) /\ (Minted(v) => auWork'[v].tok = auWork[v].tok)
  BY <1>1, <1>4, <1>5 DEF TokInv, AuTyped, Minted
<1>7. AuTyped' /\ AuLocked'
  BY <1>1, <1>6 DEF TokInv, AuTyped, AuLocked, Refreshing, Writing, AuJobs, AuCalls, Tokens
<1>8. Unspent'
  BY <1>1, <1>6 DEF TokInv, Unspent, Refreshing, Writing
<1>9. Live'
  BY <1>1, <1>6 DEF TokInv, Live, Refreshing, Writing
<1> QED
  BY <1>7, <1>8, <1>9 DEF TokInv

LEMMA TokStore == ASSUME TokInv, NEW w \in Workers, StoreToken(w) PROVE TokInv'
<1>1. /\ auWork[w].pc = "store" /\ auVault' = auWork[w].tok
      /\ auWork' = [auWork EXCEPT ![w] = [pc |-> "upsert"]]
      /\ UNCHANGED <<auIssued, auValid, auLost, auLock, auCaller>>
  BY DEF StoreToken, Goto
<1>2. Minted(w) /\ auWork[w].tok \in Tokens /\ auIssued \in Nat
  BY <1>1, JobFacts, AuthConstants DEF TokInv, AuTyped, Minted
<1>3. auVault' \in [n : 0 .. auIssued, fresh : BOOLEAN]
  BY <1>1, <1>2 DEF Tokens
<1>4. auWork' \in [Workers -> AuJobs] /\ auWork'[w].pc = "upsert"
      /\ \A v \in Workers \ {w} : auWork'[v] = auWork[v]
  BY <1>1, JobFacts DEF TokInv, AuTyped, AuPlain
<1>5. \A v \in Workers : Minted(v)' => v # w /\ Minted(v) /\ auWork'[v] = auWork[v]
  BY <1>4 DEF Minted
<1>6. AuTyped' /\ AuLocked'
  BY <1>1, <1>3, <1>4 DEF TokInv, AuTyped, AuLocked, Refreshing, Writing, AuJobs, AuCalls, Tokens
<1>7. Unspent'
  BY <1>1, <1>2, <1>5 DEF TokInv, Unspent, Refreshing, Writing
<1>8. Live'
  BY <1>1, <1>2, <1>5 DEF TokInv, Live, Refreshing, Writing
<1> QED
  BY <1>6, <1>7, <1>8 DEF TokInv

(* The vault's token set ages, or is deleted by Disconnect. *)
LEMMA TokVault ==
  ASSUME TokInv, UNCHANGED <<auIssued, auValid, auLost, auLock, auCaller, auWork>>,
         auVault' \in {auVault, NoToken} \/ (auVault.fresh /\ auVault' = [auVault EXCEPT !.fresh = FALSE])
  PROVE  TokInv'
<1>1. auVault \in [n : 0 .. auIssued, fresh : BOOLEAN] /\ auIssued \in Nat
  BY AuthConstants DEF TokInv, AuTyped
<1>2. FALSE \in BOOLEAN /\ 0 \in 0 .. auIssued
  BY <1>1
<1>3. /\ auVault' \in [n : 0 .. auIssued, fresh : BOOLEAN]
      /\ auVault'.n \in {auVault.n, 0} /\ (auVault' # NoToken => auVault'.n = auVault.n /\ auVault # NoToken)
  <2>1. CASE auVault' \in {auVault, NoToken}
    <3>1. NoToken \in [n : 0 .. auIssued, fresh : BOOLEAN] /\ NoToken.n = 0
      BY <1>2 DEF NoToken
    <3> QED
      BY <1>1, <2>1, <3>1
  <2>2. CASE auVault.fresh /\ auVault' = [auVault EXCEPT !.fresh = FALSE]
    <3>1. auVault' \in [n : 0 .. auIssued, fresh : BOOLEAN] /\ auVault'.n = auVault.n
      BY <1>1, <1>2, <2>2
    <3>2. auVault # NoToken
      BY <2>2 DEF NoToken
    <3> QED
      BY <3>1, <3>2
  <2> QED
    BY <2>1, <2>2
<1>4. AuTyped' /\ AuLocked'
  BY <1>3 DEF TokInv, AuTyped, AuLocked, Refreshing, Writing, AuJobs, AuCalls, Tokens
<1>5. \A w \in Workers : Minted(w) => auWork[w].tok.n \in 1 .. auIssued
  BY JobFacts DEF TokInv, AuTyped, Minted
<1>6. \A n \in 1 .. auIssued : n # 0
  BY <1>1
<1>7. Unspent'
  BY <1>3, <1>5, <1>6 DEF TokInv, Unspent, Refreshing, Writing, Minted
<1>8. Live'
  BY <1>3 DEF TokInv, Live, Refreshing, Writing, Minted
<1> QED
  BY <1>4, <1>7, <1>8 DEF TokInv

LEMMA TokCrash == ASSUME TokInv, AuthCrash PROVE TokInv'
<1>1. /\ auCaller' = [c \in AuCallers |-> AtRest] /\ auWork' = [w \in Workers |-> AtRest] /\ auLock' = Free
      /\ auLost' = (auLost \/ \E c \in AuCallers : Writing(c))
      /\ UNCHANGED <<auVault, auValid, auIssued>>
  BY DEF AuthCrash, Writing
<1>2. /\ \A c \in AuCallers : ~Refreshing(c)' /\ ~Writing(c)'
      /\ \A w \in Workers : ~Minted(w)'
  BY <1>1 DEF Refreshing, Writing, Minted, AtRest
<1>3. AtRest \in AuJobs /\ AtRest \in AuCalls
  BY JobFacts, CallFacts
<1>4. auLost' \in BOOLEAN
  BY <1>1 DEF TokInv, AuTyped
<1>5. AuTyped'
  BY <1>1, <1>3, <1>4 DEF TokInv, AuTyped, AuJobs, AuCalls, Tokens
<1>6. AuLocked' /\ Unspent'
  BY <1>2 DEF AuLocked, Unspent
<1>7. Live'
  BY <1>1, <1>2 DEF TokInv, Live
<1> QED
  BY <1>5, <1>6, <1>7 DEF TokInv

LEMMA TokStep == ASSUME TokInv, [AuthNext]_auVars PROVE TokInv'
<1>1. ASSUME NEW c \in AuCallers, ReadToken(c) \/ LockRef(c) \/ Refresh(c) \/ RefreshFails(c) \/ WriteToken(c)
      PROVE  TokInv'
  <2>1. CASE ReadToken(c)
    <3>1. /\ auCaller[c].pc = "idle" /\ auCaller' = [auCaller EXCEPT ![c] = [pc |-> "lock"]]
          /\ UNCHANGED <<auIssued, auValid, auVault, auLost, auWork, auLock>>
      BY <2>1 DEF ReadToken, tokenVars, AtRest
    <3>2. ~Writing(c)
      BY <3>1 DEF Writing
    <3> QED
      BY <3>1, <3>2, CallerLeaves
  <2>2. CASE RefreshFails(c)
    <3>1. Refreshing(c) /\ ~Writing(c)
      BY <2>2 DEF RefreshFails, Refreshing, Writing
    <3> QED
      BY <2>2, <3>1, LockAlone, CallerLeaves DEF RefreshFails, tokenVars
  <2> QED
    BY <1>1, <2>1, <2>2, TokLockRef, TokRefresh, TokWrite
<1>2. CASE TokenAges
  BY <1>2, TokVault DEF TokenAges
<1>3. ASSUME NEW w \in Workers, NEW p \in AuPlain, auWork' = [auWork EXCEPT ![w] = [pc |-> p]],
             UNCHANGED <<auIssued, auValid, auVault, auLost, auLock, auCaller>>
      PROVE  TokInv'
  BY <1>3, MovesOn
<1>4. "poll" \in Workers /\ Browsers \subseteq Workers
  BY DEF Workers
<1>5. CASE StartDevice \/ \E state \in {"pending", "expired", "denied", "error"} : PollEnds(state)
  BY <1>3, <1>4, <1>5 DEF StartDevice, PollEnds, Goto, AtRest, AuPlain, tokenVars
<1>6. CASE PollToken
  BY <1>4, <1>6, TokMint DEF PollToken, Goto, Minted
<1>7. ASSUME NEW b \in Browsers,
             Callback(b) \/ CallbackRefused(b) \/ RedeemOnce(b) \/ AlreadyRedeemed(b) \/ Exchange(b) \/ Identity(b)
      PROVE  TokInv'
  <2>1. CASE Exchange(b)
    BY <1>4, <2>1, TokMint DEF Exchange, Goto, Minted
  <2>2. CASE Identity(b)
    BY <1>4, <2>2, TokIdentified DEF Identity
  <2>3. CASE Callback(b) \/ CallbackRefused(b) \/ RedeemOnce(b) \/ AlreadyRedeemed(b)
    BY <1>3, <1>4, <2>3 DEF Callback, CallbackRefused, RedeemOnce, AlreadyRedeemed, Goto, AtRest, AuPlain, tokenVars
  <2> QED
    BY <1>7, <2>1, <2>2, <2>3
<1>8. ASSUME NEW w \in Workers,
             PersistFails(w) \/ StoreToken(w) \/ UpsertAccount(w) \/ SetAuthorized(w) \/ OnAuthorized(w)
      PROVE  TokInv'
  <2>1. CASE PersistFails(w) \/ UpsertAccount(w) \/ SetAuthorized(w) \/ OnAuthorized(w)
    BY <1>3, <2>1 DEF PersistFails, UpsertAccount, SetAuthorized, OnAuthorized, WorkerEnds, Goto, AtRest, AuPlain, tokenVars
  <2> QED
    BY <1>8, <2>1, TokStore
<1>9. CASE Validate
  BY <1>4, <1>9, TokIdentified DEF Validate
<1>10. CASE StartAuth \/ ExpireReads \/ ExpireMarks \/ ExpireCancelled \/ ExpireShuts \/ ServerCloses
              \/ CloseAsked \/ AuthCloseReturns \/ UNCHANGED auVars
  BY <1>10, TokSame DEF StartAuth, ExpireReads, ExpireMarks, ExpireCancelled, ExpireShuts, ServerCloses,
                       CloseAsked, AuthCloseReturns, auVars, tokenVars
<1>11. CASE Disconnect("idle", "vault") \/ Disconnect("vault", "row") \/ Disconnect("row", "deauth")
              \/ Disconnect("deauth", "idle")
  BY <1>11, TokVault DEF Disconnect
<1> QED
  BY <1>1, <1>2, <1>5, <1>6, <1>7, <1>8, <1>9, <1>10, <1>11, TokCrash DEF AuthNext

-----------------------------------------------------------------------------
(* Signing in: the code and Close.                                            *)

(* All that a step can do to redeemOnce. *)
LEMMA CodeSteps ==
  ASSUME [AuthNext]_auVars
  PROVE  \/ UNCHANGED <<auOnce, auExchanges>>
         \/ auOnce' = "done" /\ UNCHANGED auExchanges
         \/ auOnce = Free /\ auOnce' = "busy" /\ auExchanges' = auExchanges + 1
         \/ auOnce' = Free /\ auExchanges' = 0
<1>1. ASSUME NEW c \in AuCallers, ReadToken(c) \/ LockRef(c) \/ Refresh(c) \/ RefreshFails(c) \/ WriteToken(c)
      PROVE  UNCHANGED <<auOnce, auExchanges>>
  BY <1>1 DEF ReadToken, LockRef, Refresh, RefreshFails, WriteToken, flowVars
<1>2. CASE TokenAges \/ StartDevice \/ PollToken \/ Validate \/ StartAuth
             \/ \E state \in {"pending", "expired", "denied", "error"} : PollEnds(state)
  BY <1>2 DEF TokenAges, StartDevice, PollToken, Validate, Identified, StartAuth, PollEnds, flowVars
<1>3. ASSUME NEW b \in Browsers,
             Callback(b) \/ CallbackRefused(b) \/ RedeemOnce(b) \/ AlreadyRedeemed(b) \/ Exchange(b) \/ Identity(b)
      PROVE  \/ UNCHANGED <<auOnce, auExchanges>>
             \/ auOnce = Free /\ auOnce' = "busy" /\ auExchanges' = auExchanges + 1
  BY <1>3 DEF Callback, CallbackRefused, RedeemOnce, AlreadyRedeemed, Exchange, Identity, Identified, flowVars
<1>4. ASSUME NEW w \in Workers,
             PersistFails(w) \/ StoreToken(w) \/ UpsertAccount(w) \/ SetAuthorized(w) \/ OnAuthorized(w)
      PROVE  (auOnce' = auOnce \/ auOnce' = "done") /\ UNCHANGED auExchanges
  BY <1>4 DEF PersistFails, StoreToken, UpsertAccount, SetAuthorized, OnAuthorized, WorkerEnds, flowVars
<1>5. CASE ExpireReads \/ ExpireMarks \/ ExpireCancelled \/ ExpireShuts \/ ServerCloses
             \/ CloseAsked \/ AuthCloseReturns \/ UNCHANGED auVars
  BY <1>5 DEF ExpireReads, ExpireMarks, ExpireCancelled, ExpireShuts, ServerCloses, CloseAsked, AuthCloseReturns,
              auVars
<1>6. CASE Disconnect("idle", "vault") \/ Disconnect("vault", "row") \/ Disconnect("row", "deauth")
             \/ Disconnect("deauth", "idle")
  BY <1>6 DEF Disconnect, flowVars
<1>7. CASE AuthCrash
  BY <1>7 DEF AuthCrash
<1> QED
  BY <1>1, <1>2, <1>3, <1>4, <1>5, <1>6, <1>7 DEF AuthNext

LEMMA CodeStep == ASSUME CodeInv, [AuthNext]_auVars PROVE CodeInv'
BY CodeSteps DEF CodeInv, Free

(* A goroutine that is at work takes a step; the server may begin to shut down. *)
LEMMA QuietWork ==
  ASSUME AuQuiet, NEW w \in Workers, ~Resting(w), NEW r, auWork' = [auWork EXCEPT ![w] = r],
         auWork \in [Workers -> AuJobs],
         auServer' = auServer \/ ShutSoon,
         auSession' \in {auSession, "pending", "authorized", "denied", "expired", "error"},
         UNCHANGED <<auExpire, auClose>>
  PROVE  AuQuiet'
<1>1. \A v \in Workers \ {w} : auWork'[v] = auWork[v]
  OBVIOUS
<1>2. \A s \in {"none", "closed"} : (auServer' = s) = (auServer = s)
  BY DEF ShutSoon
<1>3. "poll" \in Workers /\ Browsers \subseteq Workers
  BY DEF Workers
<1>4. w \in Browsers => auServer \notin {"none", "closed"}
  BY DEF AuQuiet
<1>5. auServer' \in {"none", "closed"} => \A b \in Browsers : Resting(b)'
  BY <1>1, <1>2, <1>3, <1>4 DEF AuQuiet, Resting
<1>6. auClose = "done" => Resting("poll")'
  BY <1>1, <1>3 DEF AuQuiet, Resting
<1> QED
  BY <1>2, <1>5, <1>6 DEF AuQuiet

(* Nothing that Close or a handler waits for changes. *)
LEMMA QuietSame == ASSUME AuQuiet, UNCHANGED <<auWork, flowVars>> PROVE AuQuiet'
BY DEF AuQuiet, Resting, flowVars

LEMMA QuietStep == ASSUME AuTyped, AuQuiet, [AuthNext]_auVars PROVE AuQuiet'
<1>0. /\ auWork \in [Workers -> AuJobs] /\ "poll" \in Workers /\ Browsers \subseteq Workers
      /\ "poll" \notin Browsers
  BY AuthConstants DEF AuTyped, Workers
<1>1. ASSUME NEW w \in Workers, auWork[w].pc # "idle" PROVE ~Resting(w)
  BY <1>1 DEF Resting, AtRest
<1>2. ASSUME NEW c \in AuCallers, ReadToken(c) \/ LockRef(c) \/ Refresh(c) \/ RefreshFails(c) \/ WriteToken(c)
      PROVE  AuQuiet'
  BY <1>2, QuietSame DEF ReadToken, LockRef, Refresh, RefreshFails, WriteToken
<1>3. CASE TokenAges \/ Disconnect("idle", "vault") \/ Disconnect("vault", "row") \/ Disconnect("row", "deauth")
             \/ Disconnect("deauth", "idle") \/ UNCHANGED auVars
  BY <1>3, QuietSame DEF TokenAges, Disconnect, auVars, flowVars
<1>4. CASE StartDevice
  <2>1. /\ auClose = "no" /\ auClose' = "no" /\ UNCHANGED <<auServer, auExpire>> /\ auSession' = "pending"
        /\ auWork' = [auWork EXCEPT !["poll"] = [pc |-> "wait"]]
    BY <1>4 DEF StartDevice, Goto
  <2>2. \A b \in Browsers : auWork'[b] = auWork[b]
    BY <1>0, <2>1
  <2> QED
    BY <2>1, <2>2 DEF AuQuiet, Resting
<1>5. CASE PollToken \/ \E state \in {"pending", "expired", "denied", "error"} : PollEnds(state)
  <2>1. ~Resting("poll") /\ UNCHANGED <<auServer, auExpire, auClose>> /\ \E r : auWork' = [auWork EXCEPT !["poll"] = r]
    BY <1>0, <1>1, <1>5 DEF PollToken, PollEnds, Goto, flowVars
  <2>2. auSession' \in {auSession, "pending", "authorized", "denied", "expired", "error"}
    BY <1>5 DEF PollToken, PollEnds, flowVars
  <2> QED
    BY <1>0, <2>1, <2>2, QuietWork
<1>6. CASE StartAuth
  BY <1>6 DEF StartAuth, AuQuiet, Resting
<1>7. ASSUME NEW b \in Browsers, Callback(b) PROVE AuQuiet'
  <2>1. /\ auServer = "open" /\ UNCHANGED <<auSession, auServer, auExpire, auClose>>
        /\ \E r : auWork' = [auWork EXCEPT ![b] = r]
    BY <1>7 DEF Callback, Goto, flowVars
  <2>2. auWork'["poll"] = auWork["poll"]
    BY <1>0, <2>1
  <2> QED
    BY <2>1, <2>2 DEF AuQuiet, Resting
<1>8. ASSUME NEW b \in Browsers,
             CallbackRefused(b) \/ RedeemOnce(b) \/ AlreadyRedeemed(b) \/ Exchange(b)
      PROVE  AuQuiet'
  <2>1. ~Resting(b) /\ (auServer' = auServer \/ ShutSoon) /\ UNCHANGED <<auExpire, auClose>>
    BY <1>0, <1>1, <1>8 DEF CallbackRefused, RedeemOnce, AlreadyRedeemed, Exchange, flowVars
  <2>2. auSession' \in {auSession, "pending", "authorized", "denied", "expired", "error"}
    BY <1>8 DEF CallbackRefused, RedeemOnce, AlreadyRedeemed, Exchange, flowVars
  <2>3. \E r : auWork' = [auWork EXCEPT ![b] = r]
    BY <1>8 DEF CallbackRefused, RedeemOnce, AlreadyRedeemed, Exchange, Goto
  <2> QED
    BY <1>0, <2>1, <2>2, <2>3, QuietWork
<1>9. ASSUME NEW w \in Workers,
             \/ PersistFails(w) \/ StoreToken(w) \/ UpsertAccount(w) \/ SetAuthorized(w) \/ OnAuthorized(w)
             \/ Identified(w)
      PROVE  AuQuiet'
  <2>1. ~Resting(w) /\ (auServer' = auServer \/ ShutSoon) /\ UNCHANGED <<auExpire, auClose>>
    BY <1>1, <1>9 DEF PersistFails, StoreToken, UpsertAccount, SetAuthorized, OnAuthorized, Identified, WorkerEnds, flowVars
  <2>2. auSession' \in {auSession, "pending", "authorized", "denied", "expired", "error"}
    BY <1>9 DEF PersistFails, StoreToken, UpsertAccount, SetAuthorized, OnAuthorized, Identified, flowVars
  <2>3. \E r : auWork' = [auWork EXCEPT ![w] = r]
    BY <1>9 DEF PersistFails, StoreToken, UpsertAccount, SetAuthorized, OnAuthorized, Identified, WorkerEnds, Goto
  <2> QED
    BY <1>0, <2>1, <2>2, <2>3, QuietWork
<1>10. CASE ExpireReads \/ ExpireMarks \/ ExpireCancelled
  <2>1. /\ auExpire \in {"armed", "mark"} /\ auExpire' \in {"mark", "shut"}
        /\ auSession' \in {auSession, "expired"} /\ UNCHANGED <<auWork, auServer, auClose>>
    BY <1>10 DEF ExpireReads, ExpireMarks, ExpireCancelled
  <2> QED
    BY <2>1 DEF AuQuiet, Resting
<1>11. CASE ExpireShuts
  <2>1. /\ auExpire = "shut" /\ auExpire' = (IF auServer = "closed" THEN "ended" ELSE "shut")
        /\ auServer' = (IF auServer = "open" THEN "closing" ELSE auServer)
        /\ UNCHANGED <<auSession, auWork, auClose>>
    BY <1>11 DEF ExpireShuts, ShutSoon
  <2> QED
    BY <2>1 DEF AuQuiet, Resting
<1>12. CASE ServerCloses \/ CloseAsked \/ AuthCloseReturns
  BY <1>12 DEF ServerCloses, CloseAsked, AuthCloseReturns, AuQuiet, Resting
<1>13. CASE AuthCrash
  <2>1. /\ auWork' = [w \in Workers |-> AtRest] /\ auSession' = "none" /\ auServer' = "none"
        /\ auExpire' = "none" /\ auClose' = "no"
    BY <1>13 DEF AuthCrash
  <2>2. \A w \in Workers : Resting(w)'
    BY <2>1 DEF Resting
  <2> QED
    BY <1>0, <2>1, <2>2 DEF AuQuiet
<1> QED
  BY <1>0, <1>2, <1>3, <1>4, <1>5, <1>6, <1>7, <1>8, <1>9, <1>10, <1>11, <1>12, <1>13 DEF AuthNext, Validate, Identity

LEMMA AuthStarts == AuthInit => AuInv
<1> SUFFICES ASSUME AuthInit PROVE AuInv
  OBVIOUS
<1>1. /\ auCaller = [c \in AuCallers |-> AtRest] /\ auWork = [w \in Workers |-> AtRest] /\ auLock = Free
      /\ auLost = FALSE
  BY DEF AuthInit
<1>2. AtRest \in AuJobs /\ AtRest \in AuCalls /\ AtRest.pc = "idle"
  BY JobFacts, CallFacts DEF AtRest
<1>3. /\ auIssued \in 0 .. MaxIssued /\ auValid \subseteq 1 .. auIssued
      /\ auVault \in [n : 0 .. auIssued, fresh : BOOLEAN]
      /\ auVault # NoToken => auVault.n \in auValid
  <2>1. CASE auVault = NoToken /\ auValid = {} /\ auIssued = 0
    <3>1. 0 \in 0 .. MaxIssued /\ 0 \in 0 .. auIssued /\ FALSE \in BOOLEAN
      BY <2>1, AuthConstants
    <3> QED
      BY <2>1, <3>1 DEF NoToken
  <2>2. CASE auVault = [n |-> 1, fresh |-> FALSE] /\ auValid = {1} /\ auIssued = 1
    <3>1. 1 \in 1 .. auIssued /\ 1 \in 0 .. auIssued /\ FALSE \in BOOLEAN
      BY <2>2
    <3>2. 1 \in 0 .. MaxIssued
      BY AuthConstants
    <3> QED
      BY <2>2, <3>1, <3>2
  <2> QED
    BY <2>1, <2>2 DEF AuthInit
<1>4. AuTyped
  BY <1>1, <1>2, <1>3 DEF AuTyped
<1>5. AuLocked /\ Unspent /\ Live
  BY <1>1, <1>2, <1>3 DEF AuLocked, Unspent, Live, Refreshing, Writing, Minted
<1>6. CodeInv
  BY DEF AuthInit, CodeInv
<1>7. AuQuiet
  BY <1>1 DEF AuthInit, AuQuiet, Resting, Workers
<1> QED
  BY <1>4, <1>5, <1>6, <1>7 DEF AuInv, TokInv

(* However callers of AccessToken, sign-ins, Disconnect, Close and crashes interleave, no
   caller presents a refresh token that is spent, the stored one is accepted unless its
   successor was lost, a code is redeemed once, and Close leaves no goroutine behind. *)
THEOREM SignInsKeepTokens == AuthSpec => []AuthSound
<1>1. AuInv /\ [AuthNext]_auVars => AuInv'
  BY TokStep, CodeStep, QuietStep DEF AuInv, TokInv
<1>2. AuInv => AuthSound
  <2> SUFFICES ASSUME AuInv PROVE AuthSound
    OBVIOUS
  <2>1. 0 .. auIssued \subseteq 0 .. MaxIssued /\ 1 .. auIssued \subseteq 1 .. MaxIssued
    BY AuthConstants DEF AuInv, TokInv, AuTyped
  <2>2. AuthTypeOK
    BY <2>1 DEF AuInv, TokInv, AuTyped, AuQuiet, AuthTypeOK
  <2>3. NotStranded
    BY DEF AuInv, TokInv, Live, NotStranded, Refreshing, Writing
  <2>4. CodeRedeemedOnce
    BY DEF AuInv, CodeInv, CodeRedeemedOnce
  <2>5. AuthClosedIsQuiet
    BY DEF AuInv, AuQuiet, AuthClosedIsQuiet, Resting, Workers
  <2> QED
    BY <2>2, <2>3, <2>4, <2>5 DEF AuthSound
<1> QED
  BY <1>1, <1>2, AuthStarts, PTL DEF AuthSpec

-----------------------------------------------------------------------------
(* Plugins: the inductive invariant.                                          *)

(* The cache directories of p, and what its entry, its record and an operation on
   it look like.  Every entry is runnable: an archive that is not is refused
   before it is registered.                                                   *)
PlDirsOf(p) == {DirOf(a) : a \in {b \in Archives : b.id = p}}
PlMaybeDir(p) == PlDirsOf(p) \cup {PlNone}
PlEntryOf(p) ==
  [state : EntryStates, dir : IF p \in BuiltIns THEN {PlNone} ELSE PlDirsOf(p),
   config : PlConfigs \cup {PlNone}, runnable : {TRUE}]
PlSlot(p) == PlEntryOf(p) \cup {PlAbsent}
PlRemoteId(p) == {p} \ BuiltIns
PlOpsOn(p) ==
  [pc : {"extracted"}, id : {p}, archive : {a \in Archives : a.id = p}]
  \cup [pc : {"register"}, id : {p}, archive : {a \in Archives : a.id = p /\ (a.sources => a.http)},
        prev : PlMaybeDir(p)]
  \cup [pc : {"persist"}, id : {p}, then : {"return"}, dir : PlMaybeDir(p), prev : PlMaybeDir(p)]
  \cup [pc : {"save"}, id : {p}, then : {"return"}, dir : PlMaybeDir(p), prev : PlMaybeDir(p),
        rec : PlEntryOf(p)]
  \cup [pc : {"persist"}, id : PlRemoteId(p), then : {"enable", "clean"}, dir : PlMaybeDir(p),
        prev : PlMaybeDir(p)]
  \cup [pc : {"save"}, id : PlRemoteId(p), then : {"enable", "clean"}, dir : PlMaybeDir(p),
        prev : PlMaybeDir(p), rec : PlEntryOf(p)]
  \cup [pc : {"enable", "clean"}, id : PlRemoteId(p), dir : PlMaybeDir(p), prev : PlMaybeDir(p)]
  \cup [pc : {"remove", "delete", "files"}, id : PlRemoteId(p), dir : PlMaybeDir(p)]

PlTypedEntries ==
  /\ plEntries = [p \in PluginIds |-> plEntries[p]]
  /\ \A p \in PluginIds : plEntries[p] \in PlSlot(p) /\ (p \in BuiltIns => plEntries[p] # PlAbsent)
PlTypedRecords ==
  /\ plRecords = [p \in PluginIds |-> plRecords[p]]
  /\ \A p \in PluginIds : plRecords[p] \in PlSlot(p)
PlTypedDirs == plDirs \subseteq {DirOf(a) : a \in Archives}
PlOpTyped(g, op) ==
  op = PlIdle \/ \E p \in PluginIds :
    op \in PlOpsOn(p) /\ (g = Starter => p \notin BuiltIns /\ op.pc \in {"persist", "save"} /\ op.then = "return")
PlTypedOps ==
  /\ plOps = [g \in Goroutines |-> plOps[g]]
  /\ \A g \in Goroutines : PlOpTyped(g, plOps[g])
PlTypedStart ==
  /\ plStart.pc \in {"list", "records", "rest", "done"}
  /\ plStart.pc \in {"records", "rest"} => plStart.todo \subseteq PluginIds
  /\ plStart.pc = "rest" => plStart = [pc |-> "rest", todo |-> plStart.todo]
  /\ plStart.pc = "records" =>
       /\ plStart = [pc |-> "records", recs |-> plStart.recs, todo |-> plStart.todo]
       /\ \A p \in plStart.todo : plStart.recs[p] \in PlEntryOf(p)
PlTyped == PlTypedEntries /\ PlTypedRecords /\ PlTypedDirs /\ PlTypedOps /\ PlTypedStart

(* What an operation on p says about p, unless another one overlapped.        *)
On(g, p) == plOps[g] # PlIdle /\ plOps[g].id = p
Pending(p) == plStart.pc = "list" \/ (plStart.pc = "records" /\ p \in plStart.todo)
StartsLate(p) == On(Starter, p) \/ (plStart.pc = "rest" /\ p \in plStart.todo)
FirstSave(op) ==
  (op.pc \in {"persist", "save"} /\ op.then = "enable") \/ op.pc = "enable"
Saved(op) ==
  (op.pc \in {"persist", "save"} /\ op.then = "clean") \/ op.pc \in {"enable", "clean"}
Finishing(op) == FirstSave(op) \/ Saved(op)
Matches(p, e, r) ==
  /\ e.config = r.config /\ (e.state = "disabled" => r.state = "disabled")
  /\ p \in RemotePlugins => e.dir = r.dir /\ (r.state = "disabled" => e.state = "disabled")

PlAlone(p) ==
  /\ \A c, d \in PlCallers : On(c, p) /\ On(d, p) => c = d
  /\ Pending(p) => \A g \in Goroutines : ~On(g, p)
  /\ p \in RemotePlugins /\ StartsLate(p) => \A c \in PlCallers : On(c, p) => Finishing(plOps[c])
PlUntouched(p) ==
  /\ Pending(p) => plEntries[p] = RegisterBuiltIns[p]
  /\ plStart.pc = "records" /\ p \in plStart.todo => plStart.recs[p] = plRecords[p]
PlFresh(p) ==
  p \in RemotePlugins /\ plEntries[p].state = "installed" =>
    \E c \in PlCallers : On(c, p) /\ FirstSave(plOps[c])
PlFiles(p) ==
  p \in RemotePlugins =>
    /\ plEntries[p] # PlAbsent => plEntries[p].dir \in plDirs
    /\ plRecords[p] # PlAbsent => plRecords[p].dir \in plDirs
PlProgress(op, p) ==
  /\ op.pc \in {"extracted", "register"} => Restores(p) /\ DirOf(op.archive) \in plDirs
  /\ op.pc \in {"persist", "remove"} => plEntries[p] # PlAbsent
  /\ op.pc = "save" => plEntries[p] # PlAbsent /\ Matches(p, plEntries[p], op.rec)
  /\ Finishing(op) =>
       plEntries[p] # PlAbsent /\ plEntries[p].dir = op.dir /\ plEntries[p].state # "disabled"
  /\ Saved(op) => plRecords[p] # PlAbsent /\ Matches(p, plEntries[p], plRecords[p])
  /\ op.pc \in {"delete", "files"} => plEntries[p] = PlAbsent
  /\ op.pc = "files" => plRecords[p] = PlAbsent
PlSettled(p) == ~Pending(p) /\ (\A g \in Goroutines : ~On(g, p)) => Restores(p)
PlKept(p) ==
  /\ PlAlone(p) /\ PlUntouched(p) /\ PlFresh(p) /\ PlFiles(p) /\ PlSettled(p)
  /\ \A g \in Goroutines : On(g, p) => PlProgress(plOps[g], p)
PlInv == PlTyped /\ \A p \in PluginIds \ plRaced : PlKept(p)

-----------------------------------------------------------------------------
(* Records of operations and entries.                                         *)

(* The fields of an operation on p, step by step.                             *)
LEMMA PlOpShape ==
  ASSUME NEW p, NEW op \in PlOpsOn(p)
  PROVE  /\ op # PlIdle /\ op.id = p
         /\ op.pc \in {"extracted", "register", "persist", "save", "enable", "clean", "remove",
                       "delete", "files"}
         /\ op.pc \in {"extracted", "register"} => op.archive \in Archives /\ op.archive.id = p
         /\ op.pc = "register" => (op.archive.sources => op.archive.http) /\ op.prev \in PlMaybeDir(p)
         /\ op.pc \in {"persist", "save"} =>
              /\ op.then \in {"return", "enable", "clean"}
              /\ op.then # "return" => p \notin BuiltIns
              /\ op.dir \in PlMaybeDir(p) /\ op.prev \in PlMaybeDir(p)
         /\ op.pc = "save" => op.rec \in PlEntryOf(p)
         /\ op.pc \in {"enable", "clean"} => op.dir \in PlMaybeDir(p) /\ op.prev \in PlMaybeDir(p)
         /\ op.pc \in {"enable", "clean", "remove", "delete", "files"} => p \notin BuiltIns
         /\ op.pc \in {"remove", "delete", "files"} => op.dir \in PlMaybeDir(p)
<1>0. op.pc # "idle" => op # PlIdle
  BY DEF PlIdle
<1> QED
  BY <1>0 DEF PlOpsOn, PlRemoteId

(* Operations that only move on to their next step.                           *)
LEMMA PlOpAdvance ==
  ASSUME NEW p, NEW op \in PlOpsOn(p)
  PROVE  /\ op.pc = "enable" =>
              [op EXCEPT !.pc = "clean"] = [pc |-> "clean", id |-> p, dir |-> op.dir, prev |-> op.prev]
         /\ op.pc = "remove" => [op EXCEPT !.pc = "delete"] = [pc |-> "delete", id |-> p, dir |-> op.dir]
         /\ op.pc = "delete" => [op EXCEPT !.pc = "files"] = [pc |-> "files", id |-> p, dir |-> op.dir]
<1>1. op.pc = "enable" => op \in [pc : {"enable", "clean"}, id : PlRemoteId(p), dir : PlMaybeDir(p),
                                  prev : PlMaybeDir(p)]
  BY DEF PlOpsOn
<1>2. op.pc \in {"remove", "delete"} =>
        op \in [pc : {"remove", "delete", "files"}, id : PlRemoteId(p), dir : PlMaybeDir(p)]
  BY DEF PlOpsOn
<1> QED
  BY <1>1, <1>2 DEF PlRemoteId

(* A change of state or of configuration leaves the rest of an entry.         *)
LEMMA PlEntryEdits ==
  ASSUME NEW p, NEW e \in PlEntryOf(p)
  PROVE  /\ e # PlAbsent /\ e.runnable = TRUE /\ e.state \in EntryStates /\ e.state # "absent"
         /\ \A s \in EntryStates :
              /\ [e EXCEPT !.state = s] \in PlEntryOf(p) /\ [e EXCEPT !.state = s].state = s
              /\ [e EXCEPT !.state = s].dir = e.dir /\ [e EXCEPT !.state = s].config = e.config
         /\ \A cfg \in PlConfigs \cup {PlNone} :
              /\ [e EXCEPT !.config = cfg] \in PlEntryOf(p) /\ [e EXCEPT !.config = cfg].config = cfg
              /\ [e EXCEPT !.config = cfg].dir = e.dir /\ [e EXCEPT !.config = cfg].state = e.state
<1>1. e.state \in EntryStates /\ e.state # "absent"
  BY DEF PlEntryOf, EntryStates
<1>2. e # PlAbsent
  BY <1>1 DEF PlAbsent
<1>3. e.runnable = TRUE
  BY DEF PlEntryOf
<1>4. ASSUME NEW s \in EntryStates
      PROVE  /\ [e EXCEPT !.state = s] \in PlEntryOf(p) /\ [e EXCEPT !.state = s].state = s
             /\ [e EXCEPT !.state = s].dir = e.dir /\ [e EXCEPT !.state = s].config = e.config
  BY DEF PlEntryOf
<1>5. ASSUME NEW cfg \in PlConfigs \cup {PlNone}
      PROVE  /\ [e EXCEPT !.config = cfg] \in PlEntryOf(p) /\ [e EXCEPT !.config = cfg].config = cfg
             /\ [e EXCEPT !.config = cfg].dir = e.dir /\ [e EXCEPT !.config = cfg].state = e.state
  BY DEF PlEntryOf
<1> QED
  BY <1>1, <1>2, <1>3, <1>4, <1>5

(* What may be written: the typed operations and entries.                     *)
LEMMA PlOpIntro ==
  ASSUME NEW p, NEW dir \in PlMaybeDir(p), NEW prev \in PlMaybeDir(p)
  PROVE  /\ \A a \in Archives : a.id = p =>
              /\ [pc |-> "extracted", id |-> p, archive |-> a] \in PlOpsOn(p)
              /\ (a.sources => a.http) =>
                   [pc |-> "register", id |-> p, archive |-> a, prev |-> prev] \in PlOpsOn(p)
         /\ [pc |-> "persist", id |-> p, then |-> "return", dir |-> dir, prev |-> prev] \in PlOpsOn(p)
         /\ \A rec \in PlEntryOf(p) :
              [pc |-> "save", id |-> p, then |-> "return", dir |-> dir, prev |-> prev, rec |-> rec]
                \in PlOpsOn(p)
         /\ p \notin BuiltIns =>
              /\ \A then \in {"enable", "clean"} :
                   /\ [pc |-> "persist", id |-> p, then |-> then, dir |-> dir, prev |-> prev] \in PlOpsOn(p)
                   /\ [pc |-> then, id |-> p, dir |-> dir, prev |-> prev] \in PlOpsOn(p)
                   /\ \A rec \in PlEntryOf(p) :
                        [pc |-> "save", id |-> p, then |-> then, dir |-> dir, prev |-> prev, rec |-> rec]
                          \in PlOpsOn(p)
              /\ \A pc \in {"remove", "delete", "files"} : [pc |-> pc, id |-> p, dir |-> dir] \in PlOpsOn(p)
BY DEF PlOpsOn, PlRemoteId

(* Writing one entry, one record or one operation of the right shape keeps the types. *)
LEMMA PlTypedWrites ==
  ASSUME PlTyped, NEW p \in PluginIds
  PROVE  /\ \A e \in PlSlot(p) : (p \in BuiltIns => e # PlAbsent) /\ plEntries' = [plEntries EXCEPT ![p] = e]
              => PlTypedEntries' /\ plEntries'[p] = e /\ \A q \in PluginIds \ {p} : plEntries'[q] = plEntries[q]
         /\ \A r \in PlSlot(p) : plRecords' = [plRecords EXCEPT ![p] = r]
              => PlTypedRecords' /\ plRecords'[p] = r /\ \A q \in PluginIds \ {p} : plRecords'[q] = plRecords[q]
<1>1. ASSUME NEW e \in PlSlot(p), p \in BuiltIns => e # PlAbsent, plEntries' = [plEntries EXCEPT ![p] = e]
      PROVE  PlTypedEntries' /\ plEntries'[p] = e /\ \A q \in PluginIds \ {p} : plEntries'[q] = plEntries[q]
  BY <1>1 DEF PlTyped, PlTypedEntries
<1>2. ASSUME NEW r \in PlSlot(p), plRecords' = [plRecords EXCEPT ![p] = r]
      PROVE  PlTypedRecords' /\ plRecords'[p] = r /\ \A q \in PluginIds \ {p} : plRecords'[q] = plRecords[q]
  BY <1>2 DEF PlTyped, PlTypedRecords
<1> QED
  BY <1>1, <1>2

(* The same for one operation.                                                *)
LEMMA PlTypedOp ==
  ASSUME PlTyped, NEW g \in Goroutines, NEW op, PlOpTyped(g, op), plOps' = [plOps EXCEPT ![g] = op]
  PROVE  PlTypedOps' /\ plOps'[g] = op /\ \A h \in Goroutines \ {g} : plOps'[h] = plOps[h]
<1>1. plOps'[g] = op /\ \A h \in Goroutines \ {g} : plOps'[h] = plOps[h]
  BY DEF PlTyped, PlTypedOps
<1>2. \A h \in Goroutines : PlOpTyped(h, plOps'[h])
  BY <1>1 DEF PlTyped, PlTypedOps
<1>3. plOps' = [h \in Goroutines |-> plOps'[h]]
  BY DEF PlTyped, PlTypedOps
<1> QED
  BY <1>1, <1>2, <1>3 DEF PlTypedOps, PlOpTyped

LEMMA PlTypedSame ==
  ASSUME PlTyped
  PROVE  /\ UNCHANGED plEntries => PlTypedEntries'
         /\ UNCHANGED plRecords => PlTypedRecords'
         /\ UNCHANGED plDirs => PlTypedDirs'
         /\ UNCHANGED plOps => PlTypedOps'
         /\ UNCHANGED plStart => PlTypedStart'
BY DEF PlTyped, PlTypedEntries, PlTypedRecords, PlTypedDirs, PlTypedOps, PlOpTyped, PlTypedStart

(* The operation of a goroutine is on one plugin.                             *)
LEMMA PlOpOf ==
  ASSUME PlTyped, NEW g \in Goroutines, plOps[g].pc # "idle"
  PROVE  /\ plOps[g].id \in PluginIds /\ plOps[g] \in PlOpsOn(plOps[g].id) /\ On(g, plOps[g].id)
         /\ \A p : On(g, p) => p = plOps[g].id
         /\ g = Starter => /\ plOps[g].pc \in {"persist", "save"} /\ plOps[g].then = "return"
                           /\ plOps[g].id \notin BuiltIns
<1>1. plOps[g] # PlIdle
  BY DEF PlIdle
<1>2. PICK p \in PluginIds :
        plOps[g] \in PlOpsOn(p)
          /\ (g = Starter => p \notin BuiltIns /\ plOps[g].pc \in {"persist", "save"} /\ plOps[g].then = "return")
  BY <1>1 DEF PlTyped, PlTypedOps, PlOpTyped
<1>3. plOps[g].id = p
  BY <1>2, PlOpShape
<1> QED
  BY <1>1, <1>2, <1>3 DEF On

(* Directories of different plugins differ, and none is "none".               *)
LEMMA PlDirsApart ==
  ASSUME NEW p, NEW q, p # q, NEW d \in PlDirsOf(p)
  PROVE  d \notin PlMaybeDir(q)
BY PluginsConstants DEF PlDirsOf, PlMaybeDir, DirOf

(* Whatever a step does to other plugins, to their operations and directories, what
   is known of p stays.                                                       *)
PlStartFrame(p) ==
  /\ Pending(p)' <=> Pending(p)
  /\ plStart'.pc = "rest" /\ p \in plStart'.todo => plStart.pc = "rest" /\ p \in plStart.todo
  /\ plStart'.pc = "records" /\ p \in plStart'.todo =>
       plStart.pc = "records" /\ p \in plStart.todo /\ plStart'.recs[p] = plStart.recs[p]
PlOpsFrame(p) ==
  \A g \in Goroutines : plOps'[g] = plOps[g] \/ (~On(g, p) /\ ~On(g, p)')

LEMMA PlFrame ==
  ASSUME PlTyped, NEW p \in PluginIds, PlKept(p), PlStartFrame(p), PlOpsFrame(p),
         plEntries'[p] = plEntries[p], plRecords'[p] = plRecords[p],
         \A d \in plDirs : d \in PlDirsOf(p) => d \in plDirs'
  PROVE  PlKept(p)'
<1>1. \A g \in Goroutines : /\ On(g, p)' <=> On(g, p)
                            /\ On(g, p) => plOps'[g] = plOps[g]
  BY DEF PlOpsFrame, On
<1>2. Starter \in Goroutines /\ PlCallers \subseteq Goroutines
  BY DEF Goroutines
<1>3. PlAlone(p)'
  <2>1. \A c, d \in PlCallers : On(c, p)' /\ On(d, p)' => c = d
    BY <1>1, <1>2 DEF PlKept, PlAlone
  <2>2. Pending(p)' => \A g \in Goroutines : ~On(g, p)'
    BY <1>1 DEF PlKept, PlAlone, PlStartFrame
  <2>3. StartsLate(p)' => StartsLate(p)
    BY <1>1, <1>2 DEF StartsLate, PlStartFrame
  <2>4. ASSUME p \in RemotePlugins, StartsLate(p)', NEW c \in PlCallers, On(c, p)'
        PROVE  Finishing(plOps'[c])
    BY <1>1, <1>2, <2>3, <2>4 DEF PlKept, PlAlone
  <2> QED
    BY <2>1, <2>2, <2>4 DEF PlAlone, Finishing, FirstSave, Saved
<1>4. PlUntouched(p)'
  BY DEF PlKept, PlUntouched, PlStartFrame, RegisterBuiltIns
<1>5. PlFresh(p)'
  BY <1>1, <1>2 DEF PlKept, PlFresh, FirstSave
<1>6. PlFiles(p)'
  <2>1. ASSUME p \in RemotePlugins
        PROVE  /\ plEntries[p] # PlAbsent => plEntries[p].dir \in PlDirsOf(p)
               /\ plRecords[p] # PlAbsent => plRecords[p].dir \in PlDirsOf(p)
    BY <2>1, PluginsConstants DEF PlTyped, PlTypedEntries, PlTypedRecords, PlSlot, PlEntryOf
  <2> QED
    BY <2>1 DEF PlKept, PlFiles
<1>7. Restores(p)' <=> Restores(p)
  BY DEF Restores
<1>8. PlSettled(p)'
  BY <1>1, <1>7 DEF PlKept, PlSettled, PlStartFrame
<1>9. ASSUME NEW g \in Goroutines, On(g, p)' PROVE PlProgress(plOps[g], p)'
  <2>1. plOps'[g] = plOps[g] /\ PlProgress(plOps[g], p) /\ plOps[g] # PlIdle /\ plOps[g].id = p
    BY <1>1, <1>9 DEF PlKept, On
  <2>2. plOps[g].pc \in {"extracted", "register"} => DirOf(plOps[g].archive) \in PlDirsOf(p)
    <3>1. PICK q \in PluginIds : plOps[g] \in PlOpsOn(q)
      BY <2>1 DEF PlTyped, PlTypedOps, PlOpTyped
    <3>2. plOps[g].pc \in {"extracted", "register"} =>
            plOps[g].archive \in Archives /\ plOps[g].archive.id = p
      BY <2>1, <3>1, PlOpShape
    <3> QED
      BY <3>2 DEF PlDirsOf
  <2>3. PICK op : op = plOps[g]
    OBVIOUS
  <2> SUFFICES (plOps'[g] = op) => PlProgress(plOps[g], p)'
    BY <2>1, <2>3
  <2> QED
    BY <1>7, <2>1, <2>2, <2>3 DEF PlProgress, Matches, Finishing, FirstSave, Saved, DirOf
<1> QED
  BY <1>3, <1>4, <1>5, <1>6, <1>8, <1>9 DEF PlKept

(* A step of g, whose operation is on q, touches no other plugin.             *)
LEMMA PlOthers ==
  ASSUME PlInv, NEW q \in PluginIds, NEW g \in Goroutines, plRaced \subseteq plRaced',
         \A p \in PluginIds \ {q} : plEntries'[p] = plEntries[p] /\ plRecords'[p] = plRecords[p],
         \A h \in Goroutines \ {g} : plOps'[h] = plOps[h],
         plOps[g] = PlIdle \/ plOps[g].id = q,
         plOps'[g] = PlIdle \/ plOps'[g].id = q,
         \A p \in PluginIds \ {q} : PlStartFrame(p),
         \A d \in plDirs : d \notin PlMaybeDir(q) => d \in plDirs',
         NEW p \in PluginIds \ plRaced', p # q
  PROVE  PlKept(p)'
<1>1. PlOpsFrame(p)
  BY DEF PlOpsFrame, On
<1>2. \A d \in plDirs : d \in PlDirsOf(p) => d \in plDirs'
  BY PlDirsApart
<1>3. PlTyped /\ PlKept(p)
  BY DEF PlInv
<1> QED
  BY <1>1, <1>2, <1>3, PlFrame

(* Who else may be working on the plugin of an operation that nothing overlapped: Start
   while an install ends.                                                     *)
LEMMA PlTurn ==
  ASSUME PlTyped, NEW q \in PluginIds, PlKept(q), NEW g \in Goroutines, On(g, q), UNCHANGED plStart,
         NEW op, plOps'[g] = op, \A h \in Goroutines \ {g} : plOps'[h] = plOps[h],
         op # PlIdle => op.id = q,
         op # PlIdle /\ Finishing(plOps[g]) => Finishing(op)
  PROVE  /\ PlAlone(q)' /\ PlUntouched(q)' /\ ~Pending(q)'
         /\ On(g, q)' <=> op # PlIdle
         /\ \A h \in Goroutines \ {g} : On(h, q)' =>
              /\ On(h, q) /\ plOps'[h] = plOps[h] /\ PlProgress(plOps[h], q)
              /\ plOps[h].pc \notin {"extracted", "register", "remove", "delete", "files"}
              /\ \/ h = Starter /\ Finishing(plOps[g])
                 \/ g = Starter /\ h \in PlCallers /\ Finishing(plOps[h])
<1>0. Starter \in Goroutines /\ PlCallers \subseteq Goroutines /\ Goroutines \subseteq PlCallers \cup {Starter}
      /\ \A p \in PluginIds : p \notin BuiltIns => p \in RemotePlugins
  BY DEF Goroutines, PluginIds
<1>1. ~Pending(q) /\ ~Pending(q)'
  BY DEF PlKept, PlAlone, Pending
<1>2. \A h \in Goroutines \ {g} : On(h, q)' <=> On(h, q)
  BY DEF On
<1>3. On(g, q)' <=> op # PlIdle
  BY DEF On
<1>4. On(Starter, q) => /\ q \in RemotePlugins /\ plOps[Starter].pc \in {"persist", "save"}
                        /\ plOps[Starter].then = "return"
  <2> SUFFICES ASSUME On(Starter, q)
               PROVE  /\ q \in RemotePlugins /\ plOps[Starter].pc \in {"persist", "save"}
                      /\ plOps[Starter].then = "return"
    OBVIOUS
  <2>1. PICK p \in PluginIds : plOps[Starter] \in PlOpsOn(p) /\ p \notin BuiltIns
                                 /\ plOps[Starter].pc \in {"persist", "save"} /\ plOps[Starter].then = "return"
    BY <1>0 DEF PlTyped, PlTypedOps, PlOpTyped, On
  <2>2. plOps[Starter].id = p
    BY <2>1, PlOpShape
  <2> QED
    BY <1>0, <2>1, <2>2 DEF On
<1>5. PlAlone(q)'
  <2>1. \A c, d \in PlCallers : On(c, q)' /\ On(d, q)' => c = d
    BY <1>0, <1>2 DEF PlKept, PlAlone
  <2>2. StartsLate(q)' => StartsLate(q)
    BY <1>0, <1>2 DEF StartsLate
  <2>3. ASSUME q \in RemotePlugins, StartsLate(q)', NEW c \in PlCallers, On(c, q)'
        PROVE  Finishing(plOps'[c])
    <3>1. On(c, q)
      BY <1>0, <1>2, <2>3
    <3>2. Finishing(plOps[c])
      BY <2>2, <2>3, <3>1 DEF PlKept, PlAlone
    <3>3. CASE c = g
      BY <1>3, <2>3, <3>2, <3>3
    <3>4. CASE c # g
      BY <1>0, <3>2, <3>4
    <3> QED
      BY <3>3, <3>4
  <2> QED
    BY <1>1, <2>1, <2>3 DEF PlAlone, Finishing, FirstSave, Saved
<1>6. PlUntouched(q)'
  BY <1>1 DEF PlUntouched, Pending
<1>7. ASSUME NEW h \in Goroutines \ {g}, On(h, q)'
      PROVE  /\ On(h, q) /\ plOps'[h] = plOps[h] /\ PlProgress(plOps[h], q)
             /\ plOps[h].pc \notin {"extracted", "register", "remove", "delete", "files"}
             /\ \/ h = Starter /\ Finishing(plOps[g])
                \/ g = Starter /\ h \in PlCallers /\ Finishing(plOps[h])
  <2>1. On(h, q) /\ plOps'[h] = plOps[h] /\ PlProgress(plOps[h], q)
    BY <1>2, <1>7 DEF PlKept
  <2>2. CASE h = Starter
    <3>1. g \in PlCallers /\ q \in RemotePlugins /\ StartsLate(q)
      BY <1>0, <1>4, <2>1, <2>2 DEF StartsLate
    <3>2. Finishing(plOps[g])
      BY <3>1 DEF PlKept, PlAlone
    <3> QED
      BY <1>4, <2>1, <2>2, <3>2
  <2>3. CASE h # Starter
    <3>1. h \in PlCallers /\ g = Starter
      BY <1>0, <2>1, <2>3 DEF PlKept, PlAlone
    <3>2. q \in RemotePlugins /\ StartsLate(q)
      BY <1>4, <3>1 DEF StartsLate
    <3>3. Finishing(plOps[h])
      BY <2>1, <3>1, <3>2 DEF PlKept, PlAlone
    <3> QED
      BY <2>1, <3>1, <3>3 DEF Finishing, FirstSave, Saved
  <2> QED
    BY <2>2, <2>3
<1> QED
  BY <1>1, <1>3, <1>5, <1>6, <1>7

-----------------------------------------------------------------------------
(* Plugins: every step keeps the invariant.                                   *)

(* The parts of PlKept that a step on q has to look at itself.                *)
LEMMA PlKeptParts ==
  ASSUME NEW q, PlAlone(q)', PlUntouched(q)', PlFresh(q)', PlFiles(q)', PlSettled(q)',
         \A h \in Goroutines : On(h, q)' => PlProgress(plOps[h], q)'
  PROVE  PlKept(q)'
BY DEF PlKept

(* pluginControl.Install: the checks.                                         *)
LEMMA PlChecksStep ==
  ASSUME PlInv, NEW g \in Goroutines, InstallChecks(g) PROVE PlInv'
<1>1. PICK op0 : op0 = plOps[g]
  OBVIOUS
<1>2. PICK q \in PluginIds : q = op0.id
  BY <1>1, PlOpOf DEF PlInv, InstallChecks
<1>3. /\ PlTyped /\ op0 \in PlOpsOn(q) /\ On(g, q) /\ op0.pc = "extracted" /\ g # Starter
      /\ op0.archive \in Archives /\ op0.archive.id = q
  BY <1>1, <1>2, PlOpOf, PlOpShape DEF PlInv, InstallChecks
<1>4. PICK prev \in PlMaybeDir(q) :
        prev = IF plEntries[q] = PlAbsent \/ q \in BuiltIns THEN PlNone ELSE plEntries[q].dir
  BY <1>3 DEF PlMaybeDir, PlTyped, PlTypedEntries, PlSlot, PlEntryOf
<1>5. PICK op : /\ op = IF op0.archive.sources /\ ~op0.archive.http THEN PlIdle
                        ELSE [pc |-> "register", id |-> q, archive |-> op0.archive, prev |-> prev]
                /\ plOps' = [plOps EXCEPT ![g] = op]
  BY <1>1, <1>2, <1>3, <1>4 DEF InstallChecks
<1>6. /\ UNCHANGED <<plEntries, plRecords, plDirs, plStart, plRaced, plCount>>
  BY DEF InstallChecks
<1>7. /\ op \in PlOpsOn(q) \/ (op = PlIdle /\ PlOpTyped(g, op))
      /\ op # PlIdle => op.id = q /\ op.pc = "register" /\ op.archive = op0.archive
  BY <1>3, <1>4, <1>5, PlOpIntro DEF PlOpTyped
<1>8. PlOpTyped(g, op)
  BY <1>3, <1>7 DEF PlOpTyped
<1>9. /\ PlTypedOps' /\ plOps'[g] = op /\ \A h \in Goroutines \ {g} : plOps'[h] = plOps[h]
  BY <1>3, <1>5, <1>8, PlTypedOp
<1>10. PlTyped'
  BY <1>3, <1>6, <1>9, PlTypedSame DEF PlTyped
<1>11. ASSUME NEW p \in PluginIds \ plRaced', p # q PROVE PlKept(p)'
  <2>1. \A r \in PluginIds : PlStartFrame(r)
    BY <1>6 DEF PlStartFrame, Pending
  <2> QED
    BY <1>1, <1>2, <1>6, <1>7, <1>9, <1>11, <2>1, PlOthers
<1>12. ASSUME q \notin plRaced' PROVE PlKept(q)'
  <2>1. PlKept(q) /\ PlProgress(op0, q)
    BY <1>1, <1>3, <1>6, <1>12 DEF PlInv, PlKept
  <2>2. ~Finishing(op0)
    BY <1>3 DEF Finishing, FirstSave, Saved
  <2>3. /\ PlAlone(q)' /\ PlUntouched(q)' /\ ~Pending(q)'
        /\ On(g, q)' <=> op # PlIdle
        /\ \A h \in Goroutines \ {g} : ~On(h, q)'
    BY <1>1, <1>3, <1>6, <1>7, <1>9, <2>1, <2>2, PlTurn
  <2>4. Restores(q) /\ Restores(q)' /\ DirOf(op0.archive) \in plDirs'
    BY <1>3, <1>6, <2>1 DEF PlProgress, Restores
  <2>5. PlFresh(q)'
    <3>1. ASSUME NEW c \in PlCallers, On(c, q), FirstSave(plOps[c]) PROVE FALSE
      <4>1. g \in PlCallers
        BY <1>3 DEF Goroutines
      <4>2. c = g
        BY <1>3, <2>1, <3>1, <4>1 DEF PlKept, PlAlone
      <4> QED
        BY <1>1, <2>2, <3>1, <4>2 DEF Finishing
    <3> QED
      BY <1>6, <2>1, <3>1 DEF PlKept, PlFresh
  <2>6. PlFiles(q)'
    BY <1>6, <2>1 DEF PlKept, PlFiles
  <2>7. ASSUME NEW h \in Goroutines, On(h, q)' PROVE PlProgress(plOps[h], q)'
    <3>1. h = g /\ op # PlIdle /\ op.pc = "register" /\ op.archive = op0.archive
      BY <1>7, <2>3, <2>7
    <3>2. ~Finishing(op)
      BY <3>1 DEF Finishing, FirstSave, Saved
    <3> QED
      BY <1>9, <2>4, <3>1, <3>2 DEF PlProgress, Finishing, FirstSave, Saved, DirOf
  <2> QED
    BY <2>3, <2>4, <2>5, <2>6, <2>7, PlKeptParts DEF PlSettled
<1> QED
  BY <1>10, <1>11, <1>12 DEF PlInv

(* A step of the goroutine that works on q: one entry, one record, one operation. *)
LEMMA PlStepOn ==
  ASSUME PlInv, NEW q \in PluginIds, NEW g \in Goroutines, On(g, q),
         NEW e \in PlSlot(q), q \in BuiltIns => e # PlAbsent, NEW r \in PlSlot(q),
         NEW op, PlOpTyped(g, op), op # PlIdle => op.id = q,
         (UNCHANGED plEntries /\ e = plEntries[q]) \/ plEntries' = [plEntries EXCEPT ![q] = e],
         (UNCHANGED plRecords /\ r = plRecords[q]) \/ plRecords' = [plRecords EXCEPT ![q] = r],
         plOps' = [plOps EXCEPT ![g] = op], UNCHANGED <<plStart, plRaced>>,
         plDirs' \subseteq plDirs, \A d \in plDirs : d \notin PlMaybeDir(q) => d \in plDirs',
         ASSUME q \notin plRaced,
                plEntries'[q] = e, plRecords'[q] = r, plOps'[g] = op,
                \A h \in Goroutines \ {g} : plOps'[h] = plOps[h]
         PROVE  PlKept(q)'
  PROVE  PlInv'
<1>1. /\ PlTypedEntries' /\ plEntries'[q] = e
      /\ \A p \in PluginIds \ {q} : plEntries'[p] = plEntries[p]
  BY PlTypedWrites, PlTypedSame DEF PlInv
<1>2. /\ PlTypedRecords' /\ plRecords'[q] = r
      /\ \A p \in PluginIds \ {q} : plRecords'[p] = plRecords[p]
  BY PlTypedWrites, PlTypedSame DEF PlInv
<1>3. PlTypedOps' /\ plOps'[g] = op /\ \A h \in Goroutines \ {g} : plOps'[h] = plOps[h]
  BY PlTypedOp DEF PlInv
<1>4. PlTypedDirs' /\ PlTypedStart'
  BY PlTypedSame DEF PlInv, PlTyped, PlTypedDirs
<1>5. ASSUME NEW p \in PluginIds \ plRaced', p # q PROVE PlKept(p)'
  <2>1. \A s \in PluginIds : PlStartFrame(s)
    BY DEF PlStartFrame, Pending
  <2> QED
    BY <1>1, <1>2, <1>3, <1>5, <2>1, PlOthers DEF On
<1> QED
  BY <1>1, <1>2, <1>3, <1>4, <1>5 DEF PlInv, PlTyped

(* The operation of a step: its goroutine, its plugin, its shape.             *)
LEMMA PlActor ==
  ASSUME PlInv, NEW g \in Goroutines, NEW pc, pc # "idle", plOps[g].pc = pc
  PROVE  \E q, op0 :
           /\ q \in PluginIds /\ op0 \in PlOpsOn(q)
           /\ op0 = plOps[g] /\ op0.id = q /\ op0.pc = pc /\ On(g, q) /\ PlTyped
           /\ g = Starter => pc \in {"persist", "save"} /\ op0.then = "return" /\ q \notin BuiltIns
           /\ g # Starter => g \in PlCallers
           /\ q \notin BuiltIns => q \in RemotePlugins
           /\ plEntries[q] \in PlSlot(q) /\ plRecords[q] \in PlSlot(q)
           /\ q \notin plRaced => PlKept(q) /\ PlProgress(op0, q)
<1>1. /\ plOps[g].id \in PluginIds /\ plOps[g] \in PlOpsOn(plOps[g].id) /\ On(g, plOps[g].id)
      /\ g = Starter => plOps[g].pc \in {"persist", "save"} /\ plOps[g].then = "return"
                        /\ plOps[g].id \notin BuiltIns
  BY PlOpOf DEF PlInv
<1> QED
  BY <1>1 DEF PlInv, PlKept, PlTyped, PlTypedEntries, PlTypedRecords, Goroutines, PluginIds

(* RegisterRemote: the entry gets the new directory, before its record does.  *)
LEMMA PlRegisterStep ==
  ASSUME PlInv, NEW g \in Goroutines, RegisterRemote(g) PROVE PlInv'
<1>1. PICK q, op0 :
        /\ q \in PluginIds /\ op0 \in PlOpsOn(q)
        /\ op0 = plOps[g] /\ op0.id = q /\ op0.pc = "register" /\ On(g, q) /\ PlTyped
        /\ g # Starter /\ g \in PlCallers
        /\ q \notin BuiltIns => q \in RemotePlugins
        /\ plEntries[q] \in PlSlot(q) /\ plRecords[q] \in PlSlot(q)
        /\ q \notin plRaced => PlKept(q) /\ PlProgress(op0, q)
  BY PlActor DEF RegisterRemote
<1>2. /\ op0.archive \in Archives /\ op0.archive.id = q /\ (op0.archive.sources => op0.archive.http)
      /\ op0.prev \in PlMaybeDir(q)
  BY <1>1, PlOpShape
<1>3. PICK kept \in PlConfigs \cup {PlNone} :
        kept = IF plEntries[q] = PlAbsent THEN PlNone ELSE plEntries[q].config
  BY <1>1 DEF PlSlot, PlEntryOf
<1>4. PICK dir \in PlDirsOf(q) : dir = DirOf(op0.archive)
  BY <1>2 DEF PlDirsOf
<1>5. PICK e0 : e0 = [state |-> "installed", dir |-> dir, config |-> kept, runnable |-> TRUE]
  OBVIOUS
<1>6. PICK op1 : op1 = [pc |-> "persist", id |-> q, then |-> "enable", dir |-> dir, prev |-> op0.prev]
  OBVIOUS
<1>7. /\ UNCHANGED <<plRecords, plDirs, plStart, plRaced, plCount>>
      /\ \/ q \in BuiltIns /\ plOps' = [plOps EXCEPT ![g] = PlIdle] /\ UNCHANGED plEntries
         \/ /\ q \notin BuiltIns
            /\ plOps' = [plOps EXCEPT ![g] = op1] /\ plEntries' = [plEntries EXCEPT ![q] = e0]
  <2>1. op0.archive.sources \in BOOLEAN /\ op0.archive.http \in BOOLEAN
    BY <1>2, PluginsConstants DEF PlArchive
  <2>2. (~op0.archive.sources \/ op0.archive.http) = TRUE
    BY <1>2, <2>1
  <2> QED
    BY <1>1, <1>3, <1>4, <1>5, <1>6, <2>2, Zenon DEF RegisterRemote
<1>8. ~Finishing(op0)
  BY <1>1 DEF Finishing, FirstSave, Saved
<1>9. CASE q \in BuiltIns
  <2>1. ASSUME q \notin plRaced, plEntries'[q] = plEntries[q], plRecords'[q] = plRecords[q],
               plOps'[g] = PlIdle, \A h \in Goroutines \ {g} : plOps'[h] = plOps[h]
        PROVE  PlKept(q)'
    <3>1. /\ PlAlone(q)' /\ PlUntouched(q)' /\ \A h \in Goroutines : ~On(h, q)'
      BY <1>1, <1>7, <1>8, <2>1, PlTurn
    <3>2. Restores(q)'
      BY <1>1, <2>1 DEF PlProgress, Restores
    <3> QED
      BY <1>9, <3>1, <3>2, PluginsConstants DEF PlKept, PlFresh, PlFiles, PlSettled
  <2>2. PlOpTyped(g, PlIdle) /\ plEntries[q] # PlAbsent
    BY <1>1, <1>9 DEF PlOpTyped, PlTyped, PlTypedEntries
  <2> QED
    BY <1>1, <1>7, <1>9, <2>1, <2>2, PlStepOn
<1>10. CASE q \notin BuiltIns
  <2>0. e0 \in PlSlot(q) /\ e0 # PlAbsent
    <3>1. e0 \in PlEntryOf(q)
      BY <1>3, <1>4, <1>5, <1>10 DEF PlEntryOf, EntryStates
    <3> QED
      BY <3>1, PlEntryEdits DEF PlSlot
  <2>1. PlOpTyped(g, op1) /\ op1 # PlIdle /\ op1.id = q
    <3>1. op1 \in PlOpsOn(q)
      BY <1>2, <1>6, <1>10, PlOpIntro DEF PlMaybeDir
    <3> QED
      BY <1>1, <3>1, PlOpShape DEF PlOpTyped
  <2>2. ASSUME q \notin plRaced, plEntries'[q] = e0, plRecords'[q] = plRecords[q],
               plOps'[g] = op1, \A h \in Goroutines \ {g} : plOps'[h] = plOps[h]
        PROVE  PlKept(q)'
    <3>1. /\ PlAlone(q)' /\ PlUntouched(q)' /\ On(g, q)'
          /\ \A h \in Goroutines \ {g} : ~On(h, q)'
      BY <1>1, <1>7, <1>8, <2>1, <2>2, PlTurn
    <3>2. PlFresh(q)'
      BY <1>1, <1>6, <2>2, <3>1 DEF PlFresh, FirstSave
    <3>3. PlFiles(q)'
      BY <1>1, <1>4, <1>5, <1>7, <2>2 DEF PlFiles, PlKept, PlProgress
    <3>4. PlProgress(op1, q)'
      BY <1>5, <1>6, <2>0, <2>2 DEF PlProgress, Finishing, FirstSave, Saved
    <3> QED
      BY <2>2, <3>1, <3>2, <3>3, <3>4 DEF PlKept, PlSettled
  <2> QED
    BY <1>1, <1>7, <1>10, <2>0, <2>1, <2>2, PlStepOn
<1> QED
  BY <1>9, <1>10

(* Enable, before it persists: what it does to the entry and to its caller.   *)
LEMMA PlEnableDoes ==
  ASSUME PlTyped, NEW p \in PluginIds, NEW g, NEW next, EnableLocked(p, g, next)
  PROVE  \/ /\ plEntries[p] = PlAbsent /\ UNCHANGED plEntries
            /\ plOps' = [plOps EXCEPT ![g] = PlIdle]
         \/ /\ plEntries[p] \in PlEntryOf(p) /\ plEntries[p].state = "enabled" /\ UNCHANGED plEntries
            /\ plOps' = [plOps EXCEPT ![g] = IF next.pc = "return" THEN PlIdle ELSE next]
         \/ /\ plEntries[p] \in PlEntryOf(p) /\ plEntries[p].state # "enabled"
            /\ plEntries' = [plEntries EXCEPT ![p] = [plEntries[p] EXCEPT !.state = "enabled"]]
            /\ plOps' = [plOps EXCEPT ![g] =
                 IF p \in BuiltIns THEN (IF next.pc = "return" THEN PlIdle ELSE next)
                 ELSE [pc |-> "persist", id |-> p, then |-> next.pc, dir |-> next.dir,
                       prev |-> next.prev]]
<1>1. PICK e : e = plEntries[p]
  OBVIOUS
<1>2. e = PlAbsent \/ e \in PlEntryOf(p)
  BY <1>1 DEF PlTyped, PlTypedEntries, PlSlot
<1>3. CASE e = PlAbsent
  <2>1. e.state \in {"absent", "enabled"}
    BY <1>3 DEF PlAbsent
  <2> QED
    BY <1>1, <1>3, <2>1, Zenon DEF EnableLocked
<1>4. CASE e \in PlEntryOf(p)
  <2>1. e # PlAbsent /\ e.runnable = TRUE /\ e.state # "absent"
    BY <1>4, PlEntryEdits
  <2>2. CASE e.state = "enabled"
    BY <1>1, <1>4, <2>1, <2>2, Zenon DEF EnableLocked
  <2>3. CASE e.state # "enabled"
    <3>1. Enabled(e) = [e EXCEPT !.state = "enabled"]
      BY <2>1 DEF Enabled
    <3> QED
      BY <1>1, <1>4, <2>1, <2>3, <3>1, Zenon DEF EnableLocked
  <2> QED
    BY <2>2, <2>3
<1> QED
  BY <1>2, <1>3, <1>4

(* What Enable changes an entry to goes with the records that went with it before,
   unless it was disabled.                                                    *)
LEMMA PlEnabledMatches ==
  ASSUME NEW p, NEW e \in PlEntryOf(p), NEW x, x = [e EXCEPT !.state = "enabled"]
  PROVE  /\ x \in PlEntryOf(p) /\ x # PlAbsent /\ x.state = "enabled"
         /\ x.dir = e.dir /\ x.config = e.config
         /\ \A r : e.state # "disabled" /\ Matches(p, e, r) => Matches(p, x, r)
         /\ \A r : p \notin RemotePlugins /\ Matches(p, e, r) => Matches(p, x, r)
<1>0. "enabled" \in EntryStates
  BY DEF EntryStates
<1>1. x \in PlEntryOf(p) /\ x.state = "enabled" /\ x.dir = e.dir /\ x.config = e.config
  BY <1>0 DEF PlEntryOf
<1>2. x # PlAbsent
  BY <1>1, PlEntryEdits
<1> QED
  BY <1>1, <1>2 DEF Matches

(* The other operation on q, when there is one, is a save or the end of an install:
   what it relies on survives a save and an enable.                           *)
LEMMA PlProgressStays ==
  ASSUME NEW op, NEW p, PlProgress(op, p),
         op.pc \notin {"extracted", "register", "remove", "delete", "files"},
         \/ plEntries'[p] = plEntries[p] /\ plRecords'[p] = plRecords[p]
         \/ /\ plEntries'[p] = plEntries[p]
            /\ plRecords'[p] # PlAbsent /\ Matches(p, plEntries[p], plRecords'[p])
         \/ /\ plRecords'[p] = plRecords[p]
            /\ plEntries'[p] # PlAbsent /\ plEntries'[p].dir = plEntries[p].dir
            /\ plEntries'[p].state # "disabled"
            /\ \A r : Matches(p, plEntries[p], r) => Matches(p, plEntries'[p], r)
  PROVE  PlProgress(op, p)'
<1>1. \A r : (Matches(p, plEntries[p], r))' <=> Matches(p, plEntries'[p], r)
  BY DEF Matches
<1> QED
  BY <1>1 DEF PlProgress, Matches, Finishing, FirstSave, Saved

LEMMA PlProgressOf ==
  ASSUME NEW h, NEW p, NEW op, plOps'[h] = op, PlProgress(op, p)'
  PROVE  PlProgress(plOps[h], p)'
BY DEF PlProgress, Matches, Finishing, FirstSave, Saved, DirOf

LEMMA PlOtherStays ==
  ASSUME NEW h, NEW p, PlProgress(plOps[h], p), plOps'[h] = plOps[h],
         plOps[h].pc \notin {"extracted", "register", "remove", "delete", "files"},
         \/ plEntries'[p] = plEntries[p] /\ plRecords'[p] = plRecords[p]
         \/ /\ plEntries'[p] = plEntries[p]
            /\ plRecords'[p] # PlAbsent /\ Matches(p, plEntries[p], plRecords'[p])
         \/ /\ plRecords'[p] = plRecords[p]
            /\ plEntries'[p] # PlAbsent /\ plEntries'[p].dir = plEntries[p].dir
            /\ plEntries'[p].state # "disabled"
            /\ \A r : Matches(p, plEntries[p], r) => Matches(p, plEntries'[p], r)
  PROVE  PlProgress(plOps[h], p)'
<1>1. PICK op : op = plOps[h]
  OBVIOUS
<1>2. PlProgress(op, p)'
  BY <1>1, PlProgressStays
<1> QED
  BY <1>1, <1>2, PlProgressOf

(* Enable, as the last but one step of an install.                            *)
LEMMA PlEnablesStep ==
  ASSUME PlInv, NEW g \in Goroutines, InstallEnables(g) PROVE PlInv'
<1>1. PICK q, op0 :
        /\ q \in PluginIds /\ op0 \in PlOpsOn(q)
        /\ op0 = plOps[g] /\ op0.id = q /\ op0.pc = "enable" /\ On(g, q) /\ PlTyped
        /\ g # Starter /\ g \in PlCallers
        /\ q \notin BuiltIns => q \in RemotePlugins
        /\ plEntries[q] \in PlSlot(q) /\ plRecords[q] \in PlSlot(q)
        /\ q \notin plRaced => PlKept(q) /\ PlProgress(op0, q)
  BY PlActor DEF InstallEnables
<1>2. q \in RemotePlugins /\ q \notin BuiltIns /\ op0.dir \in PlMaybeDir(q) /\ op0.prev \in PlMaybeDir(q)
  BY <1>1, PlOpShape
<1>3. PICK clean : clean = [pc |-> "clean", id |-> q, dir |-> op0.dir, prev |-> op0.prev]
  OBVIOUS
<1>4. PICK op1 : op1 = [pc |-> "persist", id |-> q, then |-> "clean", dir |-> op0.dir, prev |-> op0.prev]
  OBVIOUS
<1>5. PICK e1 : e1 = [plEntries[q] EXCEPT !.state = "enabled"]
  OBVIOUS
<1>6. /\ UNCHANGED <<plRecords, plDirs, plStart, plRaced, plCount>>
      /\ \/ plEntries[q] = PlAbsent /\ UNCHANGED plEntries /\ plOps' = [plOps EXCEPT ![g] = PlIdle]
         \/ /\ plEntries[q].state = "enabled" /\ UNCHANGED plEntries
            /\ plOps' = [plOps EXCEPT ![g] = clean]
         \/ /\ plEntries[q] \in PlEntryOf(q) /\ plEntries' = [plEntries EXCEPT ![q] = e1]
            /\ plOps' = [plOps EXCEPT ![g] = op1]
  <2>1. [op0 EXCEPT !.pc = "clean"] = clean
    BY <1>1, <1>3, PlOpAdvance
  <2>2. EnableLocked(q, g, clean)
    BY <1>1, <2>1 DEF InstallEnables
  <2>3. clean.pc = "clean" /\ clean.dir = op0.dir /\ clean.prev = op0.prev
    BY <1>3
  <2>4. plEntries[q] \in PlEntryOf(q) => plEntries[q] # PlAbsent
    BY PlEntryEdits
  <2> QED
    BY <1>1, <1>2, <1>4, <1>5, <2>2, <2>3, <2>4, PlEnableDoes DEF InstallEnables
<1>7. PlOpTyped(g, clean) /\ PlOpTyped(g, op1) /\ PlOpTyped(g, PlIdle)
  BY <1>1, <1>2, <1>3, <1>4, PlOpIntro DEF PlOpTyped
<1>8. /\ clean # PlIdle /\ clean.id = q /\ Finishing(clean) /\ Saved(clean) /\ clean.pc = "clean" /\ clean.dir = op0.dir
      /\ op1 # PlIdle /\ op1.id = q /\ Finishing(op1) /\ Saved(op1) /\ op1.pc = "persist" /\ op1.dir = op0.dir
  BY <1>3, <1>4 DEF PlIdle, Finishing, Saved
<1>9. Finishing(op0) /\ Saved(op0)
  BY <1>1 DEF Finishing, Saved
<1>10. CASE plEntries[q] = PlAbsent /\ UNCHANGED plEntries /\ plOps' = [plOps EXCEPT ![g] = PlIdle]
  <2>1. q \in plRaced
    BY <1>1, <1>9, <1>10 DEF PlProgress
  <2> QED
    BY <1>1, <1>2, <1>6, <1>7, <1>10, <2>1, PlStepOn
<1>11. CASE plEntries[q].state = "enabled" /\ UNCHANGED plEntries /\ plOps' = [plOps EXCEPT ![g] = clean]
  <2>1. ASSUME q \notin plRaced, plEntries'[q] = plEntries[q], plRecords'[q] = plRecords[q],
               plOps'[g] = clean, \A h \in Goroutines \ {g} : plOps'[h] = plOps[h]
        PROVE  PlKept(q)'
    <3>1. /\ PlAlone(q)' /\ PlUntouched(q)' /\ On(g, q)'
          /\ \A h \in Goroutines \ {g} : On(h, q)' =>
               /\ On(h, q) /\ plOps'[h] = plOps[h] /\ PlProgress(plOps[h], q)
               /\ plOps[h].pc \notin {"extracted", "register", "remove", "delete", "files"}
      BY <1>1, <1>6, <1>8, <2>1, PlTurn
    <3>2. PlFresh(q)' /\ PlFiles(q)'
      BY <1>1, <1>6, <1>11, <2>1 DEF PlKept, PlFiles, PlFresh
    <3>3. PlProgress(clean, q)'
      BY <1>1, <1>3, <1>8, <1>9, <2>1 DEF PlProgress, Finishing, FirstSave, Saved, Matches
    <3>4. ASSUME NEW h \in Goroutines, On(h, q)' PROVE PlProgress(plOps[h], q)'
      <4>1. CASE h = g
        BY <2>1, <3>3, <4>1, PlProgressOf
      <4>2. CASE h # g
        BY <2>1, <3>1, <3>4, <4>2, PlOtherStays
      <4> QED
        BY <4>1, <4>2
    <3> QED
      BY <1>1, <3>1, <3>2, <3>4 DEF PlKept, PlSettled
  <2> QED
    BY <1>1, <1>2, <1>6, <1>7, <1>8, <1>11, <2>1, PlStepOn
<1>12. CASE /\ plEntries[q] \in PlEntryOf(q) /\ plEntries' = [plEntries EXCEPT ![q] = e1]
            /\ plOps' = [plOps EXCEPT ![g] = op1]
  <2>0. /\ e1 \in PlSlot(q) /\ e1 # PlAbsent /\ e1.state = "enabled"
        /\ e1.dir = plEntries[q].dir /\ e1.config = plEntries[q].config
        /\ \A r : plEntries[q].state # "disabled" /\ Matches(q, plEntries[q], r) => Matches(q, e1, r)
    BY <1>5, <1>12, PlEnabledMatches DEF PlSlot
  <2>1. ASSUME q \notin plRaced, plEntries'[q] = e1, plRecords'[q] = plRecords[q],
               plOps'[g] = op1, \A h \in Goroutines \ {g} : plOps'[h] = plOps[h]
        PROVE  PlKept(q)'
    <3>0. /\ plEntries[q] # PlAbsent /\ plEntries[q].state # "disabled" /\ plEntries[q].dir = op0.dir
          /\ plRecords[q] # PlAbsent /\ Matches(q, plEntries[q], plRecords[q])
      BY <1>1, <1>6, <1>9, <2>1 DEF PlProgress
    <3>1. /\ PlAlone(q)' /\ PlUntouched(q)' /\ On(g, q)'
          /\ \A h \in Goroutines \ {g} : On(h, q)' =>
               /\ On(h, q) /\ plOps'[h] = plOps[h] /\ PlProgress(plOps[h], q)
               /\ plOps[h].pc \notin {"extracted", "register", "remove", "delete", "files"}
      BY <1>1, <1>6, <1>8, <2>1, PlTurn
    <3>2. PlFresh(q)' /\ PlFiles(q)'
      BY <1>1, <1>6, <2>0, <2>1, <3>0 DEF PlKept, PlFiles, PlFresh
    <3>3. PlProgress(op1, q)'
      BY <1>4, <1>8, <2>0, <2>1, <3>0 DEF PlProgress, Finishing, FirstSave, Saved, Matches
    <3>4. ASSUME NEW h \in Goroutines, On(h, q)' PROVE PlProgress(plOps[h], q)'
      <4>1. CASE h = g
        BY <2>1, <3>3, <4>1, PlProgressOf
      <4>2. CASE h # g
        BY <2>0, <2>1, <3>0, <3>1, <3>4, <4>2, PlOtherStays
      <4> QED
        BY <4>1, <4>2
    <3> QED
      BY <1>1, <3>1, <3>2, <3>4 DEF PlKept, PlSettled
  <2> QED
    BY <1>1, <1>2, <1>6, <1>7, <1>8, <1>12, <2>0, <2>1, PlStepOn
<1> QED
  BY <1>6, <1>10, <1>11, <1>12

(* What is left of an operation after its save.                               *)
LEMMA PlContinues ==
  ASSUME NEW q, NEW op0 \in PlOpsOn(q), op0.pc \in {"persist", "save"}, NEW g,
         q \in PluginIds, g = Starter => op0.then = "return"
  PROVE  /\ PlOpTyped(g, Continue(op0))
         /\ op0.then = "return" => Continue(op0) = PlIdle
         /\ op0.then # "return" =>
              /\ q \notin BuiltIns /\ Continue(op0) # PlIdle /\ Continue(op0).id = q
              /\ Continue(op0).pc = op0.then /\ Continue(op0).dir = op0.dir
              /\ Finishing(Continue(op0)) /\ Saved(Continue(op0))
              /\ Continue(op0).pc \in {"enable", "clean"}
<1>1. /\ op0.id = q /\ op0.then \in {"return", "enable", "clean"} /\ (op0.then # "return" => q \notin BuiltIns)
      /\ op0.dir \in PlMaybeDir(q) /\ op0.prev \in PlMaybeDir(q)
  BY PlOpShape
<1>2. CASE op0.then = "return"
  BY <1>2 DEF Continue, PlOpTyped
<1>3. CASE op0.then # "return"
  <2>1. Continue(op0) = [pc |-> op0.then, id |-> q, dir |-> op0.dir, prev |-> op0.prev]
    BY <1>1, <1>3 DEF Continue
  <2>2. Continue(op0) \in PlOpsOn(q)
    <3>1. op0.then \in {"enable", "clean"} /\ q \notin BuiltIns
      BY <1>1, <1>3
    <3> QED
      BY <1>1, <2>1, <3>1 DEF PlOpsOn, PlRemoteId
  <2> QED
    BY <1>1, <1>3, <2>1, <2>2, PlOpShape DEF PlOpTyped, Finishing, Saved
<1> QED
  BY <1>2, <1>3

(* persist: the record is the entry as it is, unless it is gone.              *)
LEMMA PlReadsStep ==
  ASSUME PlInv, NEW g \in Goroutines, PersistReads(g) PROVE PlInv'
<1>1. PICK q, op0 :
        /\ q \in PluginIds /\ op0 \in PlOpsOn(q)
        /\ op0 = plOps[g] /\ op0.id = q /\ op0.pc = "persist" /\ On(g, q) /\ PlTyped
        /\ g = Starter => op0.then = "return" /\ q \notin BuiltIns
        /\ g # Starter => g \in PlCallers
        /\ q \notin BuiltIns => q \in RemotePlugins
        /\ plEntries[q] \in PlSlot(q) /\ plRecords[q] \in PlSlot(q)
        /\ q \notin plRaced => PlKept(q) /\ PlProgress(op0, q)
  BY PlActor DEF PersistReads
<1>2. /\ op0.then \in {"return", "enable", "clean"} /\ (op0.then # "return" => q \notin BuiltIns)
      /\ op0.dir \in PlMaybeDir(q) /\ op0.prev \in PlMaybeDir(q)
  BY <1>1, PlOpShape
<1>3. PICK rec : rec = plEntries[q]
  OBVIOUS
<1>4. PICK op1 : op1 = [pc |-> "save", id |-> q, then |-> op0.then, dir |-> op0.dir, prev |-> op0.prev,
                        rec |-> rec]
  OBVIOUS
<1>5. /\ UNCHANGED <<plEntries, plRecords, plDirs, plStart, plRaced, plCount>>
      /\ \/ rec # PlAbsent /\ plOps' = [plOps EXCEPT ![g] = op1]
         \/ rec = PlAbsent /\ plOps' = [plOps EXCEPT ![g] = PlIdle]
         \/ rec = PlAbsent /\ plOps' = [plOps EXCEPT ![g] = Continue(op0)]
  BY <1>1, <1>3, <1>4, Zenon DEF PersistReads, RecordOf
<1>6. q \in BuiltIns => plEntries[q] # PlAbsent
  BY <1>1 DEF PlTyped, PlTypedEntries
<1>7. CASE rec = PlAbsent
  <2>1. q \in plRaced
    BY <1>1, <1>3, <1>7 DEF PlProgress
  <2>2. /\ PlOpTyped(g, PlIdle) /\ PlOpTyped(g, Continue(op0))
        /\ Continue(op0) # PlIdle => Continue(op0).id = q
    BY <1>1, <1>2, PlContinues DEF PlOpTyped
  <2>3. CASE plOps' = [plOps EXCEPT ![g] = PlIdle]
    BY <1>1, <1>5, <1>6, <2>1, <2>2, <2>3, PlStepOn
  <2>4. CASE plOps' = [plOps EXCEPT ![g] = Continue(op0)]
    BY <1>1, <1>5, <1>6, <2>1, <2>2, <2>4, PlStepOn
  <2> QED
    BY <1>5, <1>7, <2>3, <2>4
<1>8. CASE rec # PlAbsent /\ plOps' = [plOps EXCEPT ![g] = op1]
  <2>1. rec \in PlEntryOf(q)
    BY <1>1, <1>3, <1>8 DEF PlSlot
  <2>2. PlOpTyped(g, op1) /\ op1 # PlIdle /\ op1.id = q
    <3>1. op1 \in PlOpsOn(q)
      BY <1>2, <1>4, <2>1, PlOpIntro
    <3>2. op1.pc = "save" /\ op1.then = op0.then
      BY <1>4
    <3> QED
      BY <1>1, <3>1, <3>2, PlOpShape DEF PlOpTyped
  <2>3. /\ op1.pc = "save" /\ op1.rec = rec /\ op1.dir = op0.dir
        /\ Finishing(op1) <=> Finishing(op0)
        /\ Saved(op1) <=> Saved(op0)
        /\ FirstSave(op1) <=> FirstSave(op0)
    BY <1>1, <1>4 DEF Finishing, FirstSave, Saved
  <2>4. ASSUME q \notin plRaced, plEntries'[q] = plEntries[q], plRecords'[q] = plRecords[q],
               plOps'[g] = op1, \A h \in Goroutines \ {g} : plOps'[h] = plOps[h]
        PROVE  PlKept(q)'
    <3>1. /\ PlAlone(q)' /\ PlUntouched(q)' /\ On(g, q)'
          /\ \A h \in Goroutines \ {g} : On(h, q)' =>
               /\ On(h, q) /\ plOps'[h] = plOps[h] /\ PlProgress(plOps[h], q)
               /\ plOps[h].pc \notin {"extracted", "register", "remove", "delete", "files"}
      BY <1>1, <1>5, <2>2, <2>3, <2>4, PlTurn
    <3>2. PlFiles(q)'
      BY <1>1, <1>5, <2>4 DEF PlKept, PlFiles
    <3>3. PlFresh(q)'
      <4> SUFFICES ASSUME q \in RemotePlugins, plEntries[q].state = "installed"
                   PROVE  \E c \in PlCallers : On(c, q)' /\ FirstSave(plOps'[c])
        BY <2>4 DEF PlFresh, FirstSave
      <4>1. PICK c \in PlCallers : On(c, q) /\ FirstSave(plOps[c])
        BY <1>1, <2>4 DEF PlKept, PlFresh
      <4>2. CASE c = g
        BY <1>1, <2>3, <2>4, <3>1, <4>1, <4>2
      <4>3. CASE c # g
        <5>1. plOps'[c] = plOps[c]
          BY <2>4, <4>1, <4>3 DEF Goroutines
        <5> QED
          BY <4>1, <5>1 DEF On
      <4> QED
        BY <4>2, <4>3
    <3>4. PlProgress(op1, q)'
      <4>1. Matches(q, plEntries[q], rec)
        BY <1>3 DEF Matches
      <4> QED
        BY <1>1, <1>3, <1>8, <2>3, <2>4, <4>1 DEF PlProgress, Matches, Finishing, FirstSave, Saved
    <3>5. ASSUME NEW h \in Goroutines, On(h, q)' PROVE PlProgress(plOps[h], q)'
      BY <2>4, <3>1, <3>4, <3>5, PlProgressOf, PlOtherStays
    <3> QED
      BY <1>1, <3>1, <3>2, <3>3, <3>5 DEF PlKept, PlSettled
  <2> QED
    BY <1>1, <1>5, <1>6, <1>8, <2>2, <2>4, PlStepOn
<1> QED
  BY <1>5, <1>7, <1>8

(* The store saves what was read: nothing else has changed the entry since.   *)
LEMMA PlSaveStep ==
  ASSUME PlInv, NEW g \in Goroutines, SaveRecord(g) PROVE PlInv'
<1>1. PICK q, op0 :
        /\ q \in PluginIds /\ op0 \in PlOpsOn(q)
        /\ op0 = plOps[g] /\ op0.id = q /\ op0.pc = "save" /\ On(g, q) /\ PlTyped
        /\ g = Starter => op0.then = "return" /\ q \notin BuiltIns
        /\ g # Starter => g \in PlCallers
        /\ q \notin BuiltIns => q \in RemotePlugins
        /\ plEntries[q] \in PlSlot(q) /\ plRecords[q] \in PlSlot(q)
        /\ q \notin plRaced => PlKept(q) /\ PlProgress(op0, q)
  BY PlActor DEF SaveRecord
<1>2. op0.rec \in PlEntryOf(q) /\ op0.then \in {"return", "enable", "clean"}
  BY <1>1, PlOpShape
<1>3. PICK rec \in PlEntryOf(q) : rec = op0.rec
  BY <1>2
<1>4. PICK op1 : op1 = Continue(op0)
  OBVIOUS
<1>5. /\ UNCHANGED <<plEntries, plDirs, plStart, plRaced, plCount>>
      /\ plRecords' = [plRecords EXCEPT ![q] = rec] /\ plOps' = [plOps EXCEPT ![g] = op1]
  BY <1>1, <1>3, <1>4 DEF SaveRecord
<1>6. /\ PlOpTyped(g, op1)
      /\ op0.then = "return" => op1 = PlIdle
      /\ op0.then # "return" =>
           /\ q \notin BuiltIns /\ op1 # PlIdle /\ op1.id = q /\ op1.pc = op0.then /\ op1.dir = op0.dir
           /\ Finishing(op1) /\ Saved(op1) /\ op1.pc \in {"enable", "clean"}
  BY <1>1, <1>4, PlContinues
<1>7. q \in BuiltIns => plEntries[q] # PlAbsent
  BY <1>1 DEF PlTyped, PlTypedEntries
<1>8. rec \in PlSlot(q) /\ rec # PlAbsent
  BY PlEntryEdits DEF PlSlot
<1>9. op0.then = "return" => ~Finishing(op0)
  BY <1>1 DEF Finishing, FirstSave, Saved
<1>10. op0.then # "return" => Finishing(op0) /\ (FirstSave(op0) => op1.pc = "enable")
  BY <1>1, <1>2, <1>6 DEF Finishing, FirstSave, Saved
<1>11. ASSUME q \notin plRaced, plEntries'[q] = plEntries[q], plRecords'[q] = rec,
               plOps'[g] = op1, \A h \in Goroutines \ {g} : plOps'[h] = plOps[h]
       PROVE  PlKept(q)'
  <2>0. plEntries[q] # PlAbsent /\ Matches(q, plEntries[q], rec) /\ PlKept(q)
    BY <1>1, <1>3, <1>5, <1>11 DEF PlProgress
  <2>1. /\ PlAlone(q)' /\ PlUntouched(q)' /\ (On(g, q)' <=> op1 # PlIdle)
        /\ \A h \in Goroutines \ {g} : On(h, q)' =>
             /\ On(h, q) /\ plOps'[h] = plOps[h] /\ PlProgress(plOps[h], q)
             /\ plOps[h].pc \notin {"extracted", "register", "remove", "delete", "files"}
    BY <1>1, <1>5, <1>6, <1>10, <1>11, PlTurn
  <2>2. PlFiles(q)'
    BY <1>5, <1>11, <2>0 DEF PlKept, PlFiles, Matches
  <2>3. PlFresh(q)'
    <3> SUFFICES ASSUME q \in RemotePlugins, plEntries[q].state = "installed"
                 PROVE  \E c \in PlCallers : On(c, q)' /\ FirstSave(plOps'[c])
      BY <1>11 DEF PlFresh, FirstSave
    <3>1. PICK c \in PlCallers : On(c, q) /\ FirstSave(plOps[c])
      BY <2>0 DEF PlKept, PlFresh
    <3>2. CASE c = g
      <4>1. op0.then # "return" /\ op1.pc = "enable" /\ op1 # PlIdle
        BY <1>1, <1>6, <1>9, <1>10, <3>1, <3>2 DEF Finishing
      <4>2. FirstSave(op1)
        BY <4>1 DEF FirstSave
      <4> QED
        BY <1>11, <2>1, <3>1, <3>2, <4>1, <4>2
    <3>3. CASE c # g
      <4>1. plOps'[c] = plOps[c]
        BY <1>11, <3>1, <3>3 DEF Goroutines
      <4> QED
        BY <3>1, <4>1 DEF On
    <3> QED
      BY <3>2, <3>3
  <2>4. op1 # PlIdle => PlProgress(op1, q)'
    <3> SUFFICES ASSUME op1 # PlIdle PROVE PlProgress(op1, q)'
      OBVIOUS
    <3>1. op0.then # "return" /\ op1.pc \in {"enable", "clean"} /\ op1.dir = op0.dir
      BY <1>2, <1>6
    <3>2. plEntries[q].dir = op0.dir /\ plEntries[q].state # "disabled"
      BY <1>1, <1>5, <1>10, <1>11, <3>1 DEF PlProgress
    <3> QED
      BY <1>8, <1>11, <2>0, <3>1, <3>2 DEF PlProgress, Matches, Finishing, FirstSave, Saved
  <2>5. ASSUME NEW h \in Goroutines, On(h, q)' PROVE PlProgress(plOps[h], q)'
    <3>1. CASE h = g
      BY <1>11, <2>1, <2>4, <2>5, <3>1, PlProgressOf
    <3>2. CASE h # g
      BY <1>8, <1>11, <2>0, <2>1, <2>5, <3>2, PlOtherStays
    <3> QED
      BY <3>1, <3>2
  <2>6. Restores(q)'
    <3>1. PICK e \in PlEntryOf(q) : e = plEntries[q]
      BY <1>1, <2>0 DEF PlSlot
    <3> QED
      BY <1>1, <1>8, <1>11, <2>0, <3>1 DEF Restores, Matches
  <2> QED
    BY <2>1, <2>2, <2>3, <2>5, <2>6 DEF PlKept, PlSettled
<1> QED
  BY <1>1, <1>2, <1>5, <1>6, <1>7, <1>8, <1>11, PlStepOn

(* The last step of an operation nothing overlapped: q is as its record says. *)
LEMMA PlRestoresMatched ==
  ASSUME NEW q, plEntries[q] # PlAbsent, plRecords[q] # PlAbsent,
         Matches(q, plEntries[q], plRecords[q]), q \notin BuiltIns => q \in RemotePlugins
  PROVE  Restores(q)
BY DEF Restores, Matches

(* The directory that goes is not the one just installed; no record names it. *)
LEMMA PlCleanStep ==
  ASSUME PlInv, NEW g \in Goroutines, CleanPrevious(g) PROVE PlInv'
<1>1. PICK q, op0 :
        /\ q \in PluginIds /\ op0 \in PlOpsOn(q)
        /\ op0 = plOps[g] /\ op0.id = q /\ op0.pc = "clean" /\ On(g, q) /\ PlTyped
        /\ g # Starter /\ g \in PlCallers
        /\ q \notin BuiltIns => q \in RemotePlugins
        /\ plEntries[q] \in PlSlot(q) /\ plRecords[q] \in PlSlot(q)
        /\ q \notin plRaced => PlKept(q) /\ PlProgress(op0, q)
  BY PlActor DEF CleanPrevious
<1>2. q \in RemotePlugins /\ q \notin BuiltIns /\ op0.dir \in PlMaybeDir(q) /\ op0.prev \in PlMaybeDir(q)
  BY <1>1, PlOpShape
<1>3. /\ UNCHANGED <<plEntries, plRecords, plStart, plRaced, plCount>>
      /\ plOps' = [plOps EXCEPT ![g] = PlIdle]
      /\ plDirs' \subseteq plDirs /\ \A d \in plDirs : d # op0.prev \/ d = op0.dir => d \in plDirs'
  BY <1>1 DEF CleanPrevious
<1>4. PlOpTyped(g, PlIdle)
  BY DEF PlOpTyped
<1>5. Finishing(op0) /\ Saved(op0) /\ ~FirstSave(op0)
  BY <1>1 DEF Finishing, FirstSave, Saved
<1>6. ASSUME q \notin plRaced, plEntries'[q] = plEntries[q], plRecords'[q] = plRecords[q],
               plOps'[g] = PlIdle, \A h \in Goroutines \ {g} : plOps'[h] = plOps[h]
      PROVE  PlKept(q)'
  <2>0. /\ PlKept(q) /\ plEntries[q] # PlAbsent /\ plEntries[q].dir = op0.dir
        /\ plRecords[q] # PlAbsent /\ Matches(q, plEntries[q], plRecords[q])
        /\ plRecords[q].dir = op0.dir
    BY <1>1, <1>2, <1>3, <1>5, <1>6 DEF PlProgress, Matches
  <2>1. /\ PlAlone(q)' /\ PlUntouched(q)' /\ ~On(g, q)'
        /\ \A h \in Goroutines \ {g} : On(h, q)' =>
             /\ On(h, q) /\ plOps'[h] = plOps[h] /\ PlProgress(plOps[h], q)
             /\ plOps[h].pc \notin {"extracted", "register", "remove", "delete", "files"}
    BY <1>1, <1>3, <1>6, PlTurn
  <2>2. PlFiles(q)'
    BY <1>3, <1>6, <2>0 DEF PlKept, PlFiles
  <2>3. PlFresh(q)'
    <3>1. plEntries[q].state # "installed"
      <4> SUFFICES ASSUME plEntries[q].state = "installed" PROVE FALSE
        OBVIOUS
      <4>1. PICK c \in PlCallers : On(c, q) /\ FirstSave(plOps[c])
        BY <1>2, <2>0 DEF PlKept, PlFresh
      <4>2. c = g
        BY <1>1, <2>0, <4>1 DEF PlKept, PlAlone
      <4> QED
        BY <1>1, <1>5, <4>1, <4>2
    <3> QED
      BY <1>6, <3>1 DEF PlFresh
  <2>4. ASSUME NEW h \in Goroutines, On(h, q)' PROVE PlProgress(plOps[h], q)'
    BY <1>6, <2>1, <2>4, PlOtherStays
  <2>5. Restores(q)'
    <3>1. Restores(q)
      BY <1>1, <2>0, PlRestoresMatched
    <3> QED
      BY <1>6, <3>1 DEF Restores
  <2> QED
    BY <2>1, <2>2, <2>3, <2>4, <2>5 DEF PlKept, PlSettled
<1>7. \A d \in plDirs : d \notin PlMaybeDir(q) => d \in plDirs'
  BY <1>2, <1>3
<1> QED
  BY <1>1, <1>2, <1>3, <1>4, <1>6, <1>7, PlStepOn

(* Uninstalling: the entry, the record, the files.                            *)
LEMMA PlRemoveStep ==
  ASSUME PlInv, NEW g \in Goroutines, RemoveEntry(g) PROVE PlInv'
<1>1. PICK q, op0 :
        /\ q \in PluginIds /\ op0 \in PlOpsOn(q)
        /\ op0 = plOps[g] /\ op0.id = q /\ op0.pc = "remove" /\ On(g, q) /\ PlTyped
        /\ g # Starter /\ g \in PlCallers
        /\ plEntries[q] \in PlSlot(q) /\ plRecords[q] \in PlSlot(q)
        /\ q \notin plRaced => PlKept(q) /\ PlProgress(op0, q)
  BY PlActor DEF RemoveEntry
<1>2. q \notin BuiltIns /\ op0.dir \in PlMaybeDir(q)
  BY <1>1, PlOpShape
<1>3. PICK op1 : op1 = [pc |-> "delete", id |-> q, dir |-> op0.dir]
  OBVIOUS
<1>4. /\ UNCHANGED <<plRecords, plDirs, plStart, plRaced, plCount>>
      /\ plEntries' = [plEntries EXCEPT ![q] = PlAbsent]
      /\ \/ plEntries[q] = PlAbsent /\ plOps' = [plOps EXCEPT ![g] = PlIdle]
         \/ plEntries[q] # PlAbsent /\ plOps' = [plOps EXCEPT ![g] = op1]
  <2>1. [op0 EXCEPT !.pc = "delete"] = op1
    BY <1>1, <1>3, PlOpAdvance
  <2> QED
    BY <1>1, <2>1, Zenon DEF RemoveEntry
<1>5. /\ PlOpTyped(g, op1) /\ PlOpTyped(g, PlIdle) /\ PlAbsent \in PlSlot(q)
      /\ op1 # PlIdle /\ op1.id = q /\ op1.pc = "delete"
  <2>1. op1 \in PlOpsOn(q)
    BY <1>2, <1>3, PlOpIntro DEF PlMaybeDir
  <2> QED
    BY <1>1, <1>3, <2>1, PlOpShape DEF PlOpTyped, PlSlot
<1>6. ~Finishing(op0)
  BY <1>1 DEF Finishing, FirstSave, Saved
<1>7. CASE plEntries[q] = PlAbsent /\ plOps' = [plOps EXCEPT ![g] = PlIdle]
  <2>1. q \in plRaced
    BY <1>1, <1>7 DEF PlProgress
  <2> QED
    BY <1>1, <1>2, <1>4, <1>5, <1>7, <2>1, PlStepOn
<1>8. CASE plEntries[q] # PlAbsent /\ plOps' = [plOps EXCEPT ![g] = op1]
  <2>1. ASSUME q \notin plRaced, plEntries'[q] = PlAbsent, plRecords'[q] = plRecords[q],
               plOps'[g] = op1, \A h \in Goroutines \ {g} : plOps'[h] = plOps[h]
        PROVE  PlKept(q)'
    <3>1. /\ PlAlone(q)' /\ PlUntouched(q)' /\ On(g, q)'
          /\ \A h \in Goroutines \ {g} : ~On(h, q)'
      BY <1>1, <1>4, <1>5, <1>6, <2>1, PlTurn
    <3>2. PlFresh(q)' /\ PlFiles(q)'
      BY <1>1, <1>4, <2>1 DEF PlFresh, PlFiles, PlKept, PlAbsent
    <3>3. PlProgress(op1, q)'
      BY <1>5, <2>1 DEF PlProgress, Finishing, FirstSave, Saved
    <3> QED
      BY <2>1, <3>1, <3>2, <3>3, PlProgressOf DEF PlKept, PlSettled
  <2> QED
    BY <1>1, <1>2, <1>4, <1>5, <1>8, <2>1, PlStepOn
<1> QED
  BY <1>4, <1>7, <1>8

LEMMA PlDeleteStep ==
  ASSUME PlInv, NEW g \in Goroutines, DeleteRecord(g) PROVE PlInv'
<1>1. PICK q, op0 :
        /\ q \in PluginIds /\ op0 \in PlOpsOn(q)
        /\ op0 = plOps[g] /\ op0.id = q /\ op0.pc = "delete" /\ On(g, q) /\ PlTyped
        /\ g # Starter /\ g \in PlCallers
        /\ plEntries[q] \in PlSlot(q) /\ plRecords[q] \in PlSlot(q)
        /\ q \notin plRaced => PlKept(q) /\ PlProgress(op0, q)
  BY PlActor DEF DeleteRecord
<1>2. q \notin BuiltIns /\ op0.dir \in PlMaybeDir(q)
  BY <1>1, PlOpShape
<1>3. PICK op1 : op1 = [pc |-> "files", id |-> q, dir |-> op0.dir]
  OBVIOUS
<1>4. /\ UNCHANGED <<plEntries, plDirs, plStart, plRaced, plCount>>
      /\ plRecords' = [plRecords EXCEPT ![q] = PlAbsent] /\ plOps' = [plOps EXCEPT ![g] = op1]
  <2>1. [op0 EXCEPT !.pc = "files"] = op1
    BY <1>1, <1>3, PlOpAdvance
  <2>2. plOps' = [plOps EXCEPT ![g] = [op0 EXCEPT !.pc = "files"]]
    BY <1>1 DEF DeleteRecord
  <2> QED
    BY <1>1, <2>1, <2>2 DEF DeleteRecord
<1>5. /\ PlOpTyped(g, op1) /\ PlAbsent \in PlSlot(q)
      /\ op1 # PlIdle /\ op1.id = q /\ op1.pc = "files"
  <2>1. op1 \in PlOpsOn(q)
    BY <1>2, <1>3, PlOpIntro DEF PlMaybeDir
  <2> QED
    BY <1>1, <1>3, <2>1, PlOpShape DEF PlOpTyped, PlSlot
<1>6. ~Finishing(op0)
  BY <1>1 DEF Finishing, FirstSave, Saved
<1>7. ASSUME q \notin plRaced, plEntries'[q] = plEntries[q], plRecords'[q] = PlAbsent,
             plOps'[g] = op1, \A h \in Goroutines \ {g} : plOps'[h] = plOps[h]
      PROVE  PlKept(q)'
  <2>0. plEntries[q] = PlAbsent
    BY <1>1, <1>4, <1>7 DEF PlProgress
  <2>1. /\ PlAlone(q)' /\ PlUntouched(q)' /\ On(g, q)'
        /\ \A h \in Goroutines \ {g} : ~On(h, q)'
    BY <1>1, <1>4, <1>5, <1>6, <1>7, PlTurn
  <2>2. PlFresh(q)' /\ PlFiles(q)'
    BY <1>7, <2>0 DEF PlFresh, PlFiles, PlAbsent
  <2>3. PlProgress(op1, q)'
    BY <1>5, <1>7, <2>0 DEF PlProgress, Finishing, FirstSave, Saved
  <2> QED
    BY <1>7, <2>1, <2>2, <2>3, PlProgressOf DEF PlKept, PlSettled
<1> QED
  BY <1>1, <1>2, <1>4, <1>5, <1>7, PlStepOn

LEMMA PlFilesStep ==
  ASSUME PlInv, NEW g \in Goroutines, UninstallFiles(g) PROVE PlInv'
<1>1. PICK q, op0 :
        /\ q \in PluginIds /\ op0 \in PlOpsOn(q)
        /\ op0 = plOps[g] /\ op0.id = q /\ op0.pc = "files" /\ On(g, q) /\ PlTyped
        /\ g # Starter /\ g \in PlCallers
        /\ plEntries[q] \in PlSlot(q) /\ plRecords[q] \in PlSlot(q)
        /\ q \notin plRaced => PlKept(q) /\ PlProgress(op0, q)
  BY PlActor DEF UninstallFiles
<1>2. q \notin BuiltIns /\ op0.dir \in PlMaybeDir(q)
  BY <1>1, PlOpShape
<1>3. /\ UNCHANGED <<plEntries, plRecords, plStart, plRaced, plCount>>
      /\ plOps' = [plOps EXCEPT ![g] = PlIdle] /\ plDirs' = plDirs \ {op0.dir}
  BY <1>1 DEF UninstallFiles
<1>4. PlOpTyped(g, PlIdle)
  BY DEF PlOpTyped
<1>5. ~Finishing(op0)
  BY <1>1 DEF Finishing, FirstSave, Saved
<1>6. ASSUME q \notin plRaced, plEntries'[q] = plEntries[q], plRecords'[q] = plRecords[q],
             plOps'[g] = PlIdle, \A h \in Goroutines \ {g} : plOps'[h] = plOps[h]
      PROVE  PlKept(q)'
  <2>0. plEntries[q] = PlAbsent /\ plRecords[q] = PlAbsent
    BY <1>1, <1>3, <1>6 DEF PlProgress
  <2>1. /\ PlAlone(q)' /\ PlUntouched(q)' /\ \A h \in Goroutines : ~On(h, q)'
    BY <1>1, <1>3, <1>5, <1>6, PlTurn
  <2>2. PlFresh(q)' /\ PlFiles(q)'
    BY <1>6, <2>0 DEF PlFresh, PlFiles, PlAbsent
  <2>3. Restores(q)'
    BY <1>2, <1>6, <2>0 DEF Restores
  <2> QED
    BY <2>1, <2>2, <2>3 DEF PlKept, PlSettled
<1> QED
  BY <1>1, <1>2, <1>3, <1>4, <1>6, PlStepOn

(* A request on p: nobody else is at work on p, and p is as its record says, or from
   now on p counts as raced.                                                  *)
LEMMA PlRequestStep ==
  ASSUME PlInv, NEW p \in PluginIds, NEW c \in PlCallers, Requested(c, p),
         NEW e \in PlSlot(p), p \in BuiltIns => e # PlAbsent,
         NEW op, PlOpTyped(c, op), op # PlIdle => op.id = p,
         (UNCHANGED plEntries /\ e = plEntries[p]) \/ plEntries' = [plEntries EXCEPT ![p] = e],
         UNCHANGED <<plRecords, plStart>>, plOps' = [plOps EXCEPT ![c] = op],
         PlTypedDirs', plDirs \subseteq plDirs',
         e # PlAbsent => plEntries[p] # PlAbsent /\ e.dir = plEntries[p].dir,
         e.state = "installed" => plEntries[p].state = "installed",
         ASSUME p \notin plRaced', Restores(p), plEntries'[p] = e, plRecords'[p] = plRecords[p]
         PROVE  IF op = PlIdle THEN Restores(p)' ELSE PlProgress(op, p)'
  PROVE  PlInv'
<1>0. c \in Goroutines /\ c # Starter /\ plOps[c] = PlIdle /\ plRaced \subseteq plRaced'
  BY PluginsConstants DEF Requested, Goroutines
<1>1. /\ PlTypedEntries' /\ plEntries'[p] = e
      /\ \A q \in PluginIds \ {p} : plEntries'[q] = plEntries[q]
  BY PlTypedWrites, PlTypedSame DEF PlInv
<1>2. PlTypedOps' /\ plOps'[c] = op /\ \A h \in Goroutines \ {c} : plOps'[h] = plOps[h]
  BY <1>0, PlTypedOp DEF PlInv
<1>3. PlTypedRecords' /\ PlTypedStart' /\ \A q \in PluginIds : plRecords'[q] = plRecords[q]
  BY PlTypedSame DEF PlInv
<1>4. ASSUME NEW q \in PluginIds \ plRaced', q # p PROVE PlKept(q)'
  <2>1. \A s \in PluginIds : PlStartFrame(s)
    BY DEF PlStartFrame, Pending
  <2> QED
    BY <1>0, <1>1, <1>2, <1>3, <1>4, <2>1, PlOthers
<1>5. ASSUME p \notin plRaced' PROVE PlKept(p)'
  <2>1. p \notin plRaced /\ ~Busy(p) /\ PlKept(p)
    BY <1>5 DEF Requested, PlInv
  <2>2. /\ \A g \in Goroutines : ~On(g, p)
        /\ ~Pending(p) /\ ~(plStart.pc \in {"records", "rest"} /\ p \in plStart.todo)
    BY <2>1 DEF Busy, On, Pending
  <2>3. Restores(p)
    BY <2>1, <2>2 DEF PlKept, PlSettled
  <2>4. /\ \A g \in Goroutines \ {c} : ~On(g, p)'
        /\ On(c, p)' <=> op # PlIdle
        /\ ~Pending(p)' /\ ~(plStart'.pc \in {"records", "rest"} /\ p \in plStart'.todo)
    BY <1>2, <2>2 DEF On, Pending
  <2>5. PlAlone(p)' /\ PlUntouched(p)'
    <3>1. PlCallers \subseteq Goroutines /\ Starter \in Goroutines
      BY DEF Goroutines
    <3>2. ~StartsLate(p)'
      BY <1>0, <2>4, <3>1 DEF StartsLate
    <3> QED
      BY <2>4, <3>1, <3>2 DEF PlAlone, PlUntouched
  <2>6. PlFresh(p)'
    <3>1. p \in RemotePlugins => plEntries[p].state # "installed"
      BY <2>1, <2>2 DEF PlKept, PlFresh, Goroutines
    <3> QED
      BY <1>1, <3>1 DEF PlFresh
  <2>7. PlFiles(p)'
    BY <1>1, <1>3, <2>1 DEF PlKept, PlFiles
  <2>8. IF op = PlIdle THEN Restores(p)' ELSE PlProgress(op, p)'
    BY <1>1, <1>3, <1>5, <2>3
  <2>9. ASSUME NEW h \in Goroutines, On(h, p)' PROVE PlProgress(plOps[h], p)'
    BY <1>2, <2>4, <2>8, <2>9, PlProgressOf
  <2> QED
    BY <1>0, <2>4, <2>5, <2>6, <2>7, <2>8, <2>9 DEF PlKept, PlSettled
<1> QED
  BY <1>1, <1>2, <1>3, <1>4, <1>5 DEF PlInv, PlTyped

(* The five requests.                                                         *)
LEMMA PlInstallRequest ==
  ASSUME PlInv, NEW c \in PlCallers, NEW a \in Archives, HandleInstallPlugin(c, a) PROVE PlInv'
<1>1. PICK p \in PluginIds : p = a.id
  BY PluginsConstants DEF PlArchive
<1>2. PICK op : op = [pc |-> "extracted", id |-> p, archive |-> a]
  OBVIOUS
<1>3. /\ Requested(c, p) /\ plDirs' = plDirs \cup {DirOf(a)} /\ plOps' = [plOps EXCEPT ![c] = op]
      /\ UNCHANGED <<plEntries, plRecords, plStart>>
  BY <1>1, <1>2 DEF HandleInstallPlugin
<1>4. PlTypedDirs' /\ plDirs \subseteq plDirs' /\ DirOf(a) \in plDirs'
  BY <1>3 DEF PlInv, PlTyped, PlTypedDirs
<1>5. /\ PlOpTyped(c, op) /\ op # PlIdle /\ op.id = p /\ op.pc = "extracted" /\ op.archive = a
  <2>1. op \in PlOpsOn(p)
    BY <1>1, <1>2, PlOpIntro DEF PlMaybeDir
  <2>2. c # Starter
    BY PluginsConstants
  <2> QED
    BY <1>2, <2>1, <2>2, PlOpShape DEF PlOpTyped
<1>6. PICK e \in PlSlot(p) : e = plEntries[p] /\ (p \in BuiltIns => e # PlAbsent)
  BY DEF PlInv, PlTyped, PlTypedEntries
<1>7. ASSUME Restores(p), plEntries'[p] = e, plRecords'[p] = plRecords[p]
      PROVE  PlProgress(op, p)'
  <2>1. Restores(p)'
    BY <1>6, <1>7 DEF Restores
  <2> QED
    BY <1>4, <1>5, <2>1 DEF PlProgress, Finishing, FirstSave, Saved, DirOf
<1> QED
  BY <1>3, <1>4, <1>5, <1>6, <1>7, PlRequestStep

LEMMA PlEnableRequest ==
  ASSUME PlInv, NEW c \in PlCallers, NEW p \in PluginIds, HandleEnablePlugin(c, p) PROVE PlInv'
<1>1. PICK op1 : op1 = [pc |-> "persist", id |-> p, then |-> "return", dir |-> PlNone, prev |-> PlNone]
  OBVIOUS
<1>2. PICK e1 : e1 = [plEntries[p] EXCEPT !.state = "enabled"]
  OBVIOUS
<1>3. /\ Requested(c, p) /\ UNCHANGED <<plRecords, plDirs, plStart>>
      /\ plEntries[p] \in PlSlot(p) /\ (p \in BuiltIns => plEntries[p] # PlAbsent)
      /\ \/ UNCHANGED plEntries /\ plOps' = [plOps EXCEPT ![c] = PlIdle]
         \/ /\ plEntries[p] \in PlEntryOf(p) /\ plEntries[p].state # "enabled"
            /\ plEntries' = [plEntries EXCEPT ![p] = e1]
            /\ plOps' = [plOps EXCEPT ![c] = IF p \in BuiltIns THEN PlIdle ELSE op1]
  <2>1. EnableLocked(p, c, PlReturns(p)) /\ PlTyped
    BY DEF HandleEnablePlugin, PlInv
  <2>2. PlReturns(p).pc = "return" /\ PlReturns(p).dir = PlNone /\ PlReturns(p).prev = PlNone
    BY DEF PlReturns
  <2> QED
    BY <1>1, <1>2, <2>1, <2>2, PlEnableDoes DEF HandleEnablePlugin, PlTyped, PlTypedEntries
<1>4. PlTypedDirs'
  BY <1>3, PlTypedSame DEF PlInv
<1>5. PlOpTyped(c, PlIdle) /\ PlOpTyped(c, op1) /\ op1 # PlIdle /\ op1.id = p /\ op1.pc = "persist" /\ op1.then = "return"
  <2>1. op1 \in PlOpsOn(p)
    BY <1>1, PlOpIntro DEF PlMaybeDir
  <2>2. c # Starter
    BY PluginsConstants
  <2> QED
    BY <1>1, <2>1, <2>2, PlOpShape DEF PlOpTyped
<1>6. CASE UNCHANGED plEntries /\ plOps' = [plOps EXCEPT ![c] = PlIdle]
  <2>1. ASSUME Restores(p), plEntries'[p] = plEntries[p], plRecords'[p] = plRecords[p]
        PROVE  Restores(p)'
    BY <2>1 DEF Restores
  <2> QED
    BY <1>3, <1>4, <1>5, <1>6, <2>1, PlRequestStep
<1>7. CASE /\ plEntries[p] \in PlEntryOf(p) /\ plEntries[p].state # "enabled"
           /\ plEntries' = [plEntries EXCEPT ![p] = e1]
           /\ plOps' = [plOps EXCEPT ![c] = IF p \in BuiltIns THEN PlIdle ELSE op1]
  <2>1. /\ e1 \in PlSlot(p) /\ e1 # PlAbsent /\ e1.state = "enabled" /\ e1.dir = plEntries[p].dir
        /\ e1.config = plEntries[p].config /\ plEntries[p] # PlAbsent
    <3>1. plEntries[p] # PlAbsent
      BY <1>7, PlEntryEdits
    <3> QED
      BY <1>2, <1>7, <3>1, PlEnabledMatches DEF PlSlot
  <2>2. CASE p \in BuiltIns
    <3>1. ASSUME Restores(p), plEntries'[p] = e1, plRecords'[p] = plRecords[p]
          PROVE  Restores(p)'
      BY <2>1, <2>2, <3>1 DEF Restores
    <3> QED
      BY <1>3, <1>4, <1>5, <1>7, <2>1, <2>2, <3>1, PlRequestStep
  <2>3. CASE p \notin BuiltIns
    <3>1. ASSUME plEntries'[p] = e1, plRecords'[p] = plRecords[p]
          PROVE  PlProgress(op1, p)'
      BY <1>5, <2>1, <3>1 DEF PlProgress, Finishing, FirstSave, Saved
    <3> QED
      BY <1>3, <1>4, <1>5, <1>7, <2>1, <2>3, <3>1, PlRequestStep
  <2> QED
    BY <2>2, <2>3
<1> QED
  BY <1>3, <1>6, <1>7

LEMMA PlChangeRequest ==
  ASSUME PlInv, NEW c \in PlCallers, NEW p \in PluginIds,
         HandleDisablePlugin(c, p) \/ \E cfg \in PlConfigs : HandlePutPluginConfig(c, p, cfg)
  PROVE  PlInv'
<1>1. PICK op : op = [pc |-> "persist", id |-> p, then |-> "return", dir |-> PlNone, prev |-> PlNone]
  OBVIOUS
<1>2. PICK e : /\ PlChange(c, p, e)
               /\ \/ e = [plEntries[p] EXCEPT !.state = "disabled"]
                  \/ \E cfg \in PlConfigs : e = [plEntries[p] EXCEPT !.config = cfg]
  BY DEF HandleDisablePlugin, HandlePutPluginConfig
<1>3. /\ plEntries[p] # PlAbsent /\ Requested(c, p) /\ plEntries' = [plEntries EXCEPT ![p] = e]
      /\ plOps' = [plOps EXCEPT ![c] = op] /\ UNCHANGED <<plRecords, plDirs, plStart>>
  BY <1>1, <1>2 DEF PlChange, PersistsThenReturns
<1>4. plEntries[p] \in PlEntryOf(p) /\ PlTypedDirs'
  BY <1>3, PlTypedSame DEF PlInv, PlTyped, PlTypedEntries, PlSlot
<1>5. /\ e \in PlSlot(p) /\ e # PlAbsent /\ e.dir = plEntries[p].dir
      /\ e.state \in {"disabled", plEntries[p].state}
  <2>1. "disabled" \in EntryStates
    BY DEF EntryStates
  <2>2. /\ e \in PlEntryOf(p) /\ e.dir = plEntries[p].dir /\ e.state \in {"disabled", plEntries[p].state}
    BY <1>2, <1>4, <2>1 DEF PlEntryOf
  <2> QED
    BY <2>2, PlEntryEdits DEF PlSlot
<1>6. PlOpTyped(c, op) /\ op # PlIdle /\ op.id = p /\ op.pc = "persist" /\ op.then = "return"
  <2>1. op \in PlOpsOn(p)
    BY <1>1, PlOpIntro DEF PlMaybeDir
  <2>2. c # Starter
    BY PluginsConstants
  <2> QED
    BY <1>1, <2>1, <2>2, PlOpShape DEF PlOpTyped
<1>7. ASSUME plEntries'[p] = e PROVE PlProgress(op, p)'
  BY <1>5, <1>6, <1>7 DEF PlProgress, Finishing, FirstSave, Saved
<1> QED
  BY <1>3, <1>4, <1>5, <1>6, <1>7, PlRequestStep

LEMMA PlUninstallRequest ==
  ASSUME PlInv, NEW c \in PlCallers, NEW p \in PluginIds, HandleUninstallPlugin(c, p) PROVE PlInv'
<1>1. PICK e \in PlEntryOf(p) : e = plEntries[p]
  BY DEF HandleUninstallPlugin, PlInv, PlTyped, PlTypedEntries, PlSlot
<1>2. PICK op : op = [pc |-> "remove", id |-> p, dir |-> e.dir]
  OBVIOUS
<1>3. /\ p \notin BuiltIns /\ e # PlAbsent /\ Requested(c, p) /\ plOps' = [plOps EXCEPT ![c] = op]
      /\ UNCHANGED <<plEntries, plRecords, plDirs, plStart>>
  BY <1>1, <1>2 DEF HandleUninstallPlugin
<1>4. PlTypedDirs' /\ e \in PlSlot(p)
  BY <1>3, PlTypedSame DEF PlInv, PlSlot
<1>5. PlOpTyped(c, op) /\ op # PlIdle /\ op.id = p /\ op.pc = "remove"
  <2>1. e.dir \in PlMaybeDir(p)
    BY <1>3 DEF PlEntryOf, PlMaybeDir
  <2>2. op \in PlOpsOn(p)
    BY <1>2, <1>3, <2>1, PlOpIntro
  <2>3. c # Starter
    BY PluginsConstants
  <2> QED
    BY <1>2, <2>2, <2>3, PlOpShape DEF PlOpTyped
<1>6. ASSUME plEntries'[p] = e PROVE PlProgress(op, p)'
  BY <1>3, <1>5, <1>6 DEF PlProgress, Finishing, FirstSave, Saved
<1> QED
  BY <1>1, <1>3, <1>4, <1>5, <1>6, PlRequestStep

(* Registry.Start: it lists the records, loads each of them, and starts what is still
   only installed.                                                            *)
LEMMA PlListStep ==
  ASSUME PlInv, StartLists PROVE PlInv'
<1>1. /\ plStart.pc = "list" /\ UNCHANGED <<plEntries, plRecords, plDirs, plOps, plRaced, plCount>>
      /\ plStart' = [pc |-> "records", recs |-> plRecords,
                     todo |-> {p \in PluginIds : plRecords[p] # PlAbsent}]
  BY DEF StartLists
<1>2. /\ plStart'.pc = "records" /\ plStart'.recs = plRecords
      /\ plStart'.todo = {p \in PluginIds : plRecords[p] # PlAbsent}
  BY <1>1
<1>3. PlTypedStart'
  BY <1>1, <1>2 DEF PlTypedStart, PlInv, PlTyped, PlTypedRecords, PlSlot
<1>4. PlTyped'
  BY <1>1, <1>3, PlTypedSame DEF PlInv, PlTyped
<1>5. ASSUME NEW p \in PluginIds \ plRaced' PROVE PlKept(p)'
  <2>1. PlKept(p) /\ Pending(p)
    BY <1>1, <1>5 DEF PlInv, Pending
  <2>2. (\A g \in Goroutines : ~On(g, p)) /\ plEntries[p] = RegisterBuiltIns[p]
    BY <2>1 DEF PlKept, PlAlone, PlUntouched
  <2>3. \A g \in Goroutines : ~On(g, p)'
    BY <1>1, <2>2 DEF On
  <2>4. PlAlone(p)'
    <3>1. PlCallers \subseteq Goroutines
      BY DEF Goroutines
    <3> QED
      BY <2>3, <3>1 DEF PlAlone
  <2>5. PlUntouched(p)'
    BY <1>1, <1>2, <2>2 DEF PlUntouched, RegisterBuiltIns
  <2>6. PlFresh(p)' /\ PlFiles(p)'
    <3>1. p \in RemotePlugins => plEntries[p] = PlAbsent
      BY <2>2, PluginsConstants DEF RegisterBuiltIns
    <3> QED
      BY <1>1, <2>1, <3>1 DEF PlKept, PlFresh, PlFiles, PlAbsent
  <2>7. PlSettled(p)'
    <3> SUFFICES ASSUME ~Pending(p)' PROVE Restores(p)'
      BY DEF PlSettled
    <3>1. plRecords[p] = PlAbsent
      BY <1>2 DEF Pending
    <3>2. Restores(p)
      <4>1. CASE p \in BuiltIns
        <5>1. plEntries[p].config = PlNone /\ plEntries[p].state = "installed"
          BY <2>2, <4>1 DEF RegisterBuiltIns
        <5> QED
          BY <3>1, <4>1, <5>1 DEF Restores
      <4>2. CASE p \notin BuiltIns
        BY <2>2, <3>1, <4>2 DEF Restores, RegisterBuiltIns
      <4> QED
        BY <4>1, <4>2
    <3> QED
      BY <1>1, <3>2 DEF Restores
  <2> QED
    BY <2>3, <2>4, <2>5, <2>6, <2>7 DEF PlKept
<1> QED
  BY <1>4, <1>5 DEF PlInv

(* The entry of a plugin that a record describes: what was fresh becomes as recorded,
   enabled unless the record says disabled.                                   *)
LEMMA PlLoads ==
  ASSUME PlInv, NEW p \in PluginIds, StartRecord(p)
  PROVE  \E e1, op :
           /\ e1 \in PlSlot(p) /\ e1 # PlAbsent /\ PlOpTyped(Starter, op)
           /\ op = PlIdle \/ (op.id = p /\ op # PlIdle /\ op.pc = "persist" /\ op.then = "return")
           /\ plEntries' = [plEntries EXCEPT ![p] = e1] /\ plOps' = [plOps EXCEPT ![Starter] = op]
           /\ p \notin plRaced /\ PlKept(p) =>
                /\ plRecords[p] # PlAbsent /\ Matches(p, e1, plRecords[p]) /\ e1.state # "installed"
<1>1. PICK rec \in PlEntryOf(p) : rec = plStart.recs[p]
  BY DEF StartRecord, PlInv, PlTyped, PlTypedStart
<1>2. PICK e0 \in PlSlot(p) : e0 = plEntries[p] /\ (p \in BuiltIns => e0 # PlAbsent)
  BY DEF PlInv, PlTyped, PlTypedEntries
<1>3. PICK e : e = Loaded(p, rec)
  OBVIOUS
<1>4. /\ e \in PlEntryOf(p)
      /\ e0 = RegisterBuiltIns[p] => e.state = "installed" /\ e.config = rec.config
                                     /\ (p \in RemotePlugins => e.dir = rec.dir)
  <2>1. CASE p \in BuiltIns
    <3>1. e0 \in PlEntryOf(p)
      BY <1>2, <2>1 DEF PlSlot
    <3>2. e = [e0 EXCEPT !.config = IF rec.config = PlNone THEN @ ELSE rec.config]
      BY <1>2, <1>3, <2>1 DEF Loaded
    <3>3. rec.config \in PlConfigs \cup {PlNone}
      BY DEF PlEntryOf
    <3>4. e \in PlEntryOf(p)
      BY <3>1, <3>2, <3>3 DEF PlEntryOf
    <3>5. ASSUME e0 = RegisterBuiltIns[p] PROVE e.state = "installed" /\ e.config = rec.config
      <4>1. e0 = [state |-> "installed", dir |-> PlNone, config |-> PlNone, runnable |-> TRUE]
        BY <2>1, <3>5 DEF RegisterBuiltIns
      <4> QED
        BY <3>2, <4>1
    <3> QED
      BY <2>1, <3>4, <3>5, PluginsConstants
  <2>2. CASE p \notin BuiltIns
    <3>1. e = IF e0 = PlAbsent THEN [rec EXCEPT !.state = "installed"] ELSE e0
      BY <1>2, <1>3, <2>2 DEF Loaded
    <3>2. /\ [rec EXCEPT !.state = "installed"] \in PlEntryOf(p)
          /\ [rec EXCEPT !.state = "installed"].state = "installed"
          /\ [rec EXCEPT !.state = "installed"].config = rec.config
          /\ [rec EXCEPT !.state = "installed"].dir = rec.dir
      BY DEF PlEntryOf, EntryStates
    <3>3. e0 = RegisterBuiltIns[p] => e0 = PlAbsent
      BY <2>2 DEF RegisterBuiltIns
    <3> QED
      BY <3>1, <3>2, <3>3 DEF PlSlot
  <2> QED
    BY <2>1, <2>2
<1>5. PICK dis : dis = [e EXCEPT !.state = "disabled"]
  OBVIOUS
<1>6. PICK ena : ena = [e EXCEPT !.state = "enabled"]
  OBVIOUS
<1>7. /\ dis \in PlEntryOf(p) /\ dis.state = "disabled" /\ dis.config = e.config /\ dis.dir = e.dir
      /\ ena \in PlEntryOf(p) /\ ena.state = "enabled" /\ ena.config = e.config /\ ena.dir = e.dir
  BY <1>4, <1>5, <1>6 DEF PlEntryOf, EntryStates
<1>8. PICK op1 : op1 = [pc |-> "persist", id |-> p, then |-> "return", dir |-> PlNone, prev |-> PlNone]
  OBVIOUS
<1>9. PICK e1 : e1 = IF rec.state = "disabled" THEN dis ELSE IF e.state # "enabled" THEN ena ELSE e
  OBVIOUS
<1>10. PICK op : op = IF rec.state # "disabled" /\ e.state # "enabled" /\ p \notin BuiltIns THEN op1 ELSE PlIdle
  OBVIOUS
<1>11. plEntries' = [plEntries EXCEPT ![p] = e1] /\ plOps' = [plOps EXCEPT ![Starter] = op]
  <2>1. e.runnable = TRUE
    BY <1>4, PlEntryEdits
  <2>2. Enabled(e) = ena
    BY <1>6, <2>1 DEF Enabled
  <2>3. PersistsThenReturns(p) = op1
    BY <1>8 DEF PersistsThenReturns
  <2> QED
    BY <1>1, <1>3, <1>5, <1>9, <1>10, <2>1, <2>2, <2>3, Zenon DEF StartRecord
<1>12. PlOpTyped(Starter, op) /\ (op = PlIdle \/ (op.id = p /\ op # PlIdle /\ op.pc = "persist" /\ op.then = "return"))
  <2>1. op1 \in PlOpsOn(p)
    BY <1>8, PlOpIntro DEF PlMaybeDir
  <2>2. op1.pc = "persist" /\ op1.then = "return" /\ op1.id = p /\ op1 # PlIdle
    BY <1>8, <2>1, PlOpShape
  <2>3. op = PlIdle \/ (op = op1 /\ p \notin BuiltIns)
    BY <1>10
  <2>4. p \notin BuiltIns => PlOpTyped(Starter, op1)
    BY <2>1, <2>2, Zenon DEF PlOpTyped
  <2>5. CASE op = PlIdle
    BY <2>5, Zenon DEF PlOpTyped
  <2>6. CASE op = op1 /\ p \notin BuiltIns
    BY <2>2, <2>4, <2>6
  <2> QED
    BY <2>3, <2>5, <2>6
<1>13. e1 \in PlSlot(p) /\ e1 # PlAbsent
  <2>1. e1 \in PlEntryOf(p)
    BY <1>4, <1>7, <1>9
  <2> QED
    BY <2>1, PlEntryEdits DEF PlSlot
<1>14. ASSUME p \notin plRaced, PlKept(p)
       PROVE  plRecords[p] # PlAbsent /\ Matches(p, e1, plRecords[p]) /\ e1.state # "installed"
  <2>1. e0 = RegisterBuiltIns[p] /\ plRecords[p] = rec
    BY <1>1, <1>2, <1>14 DEF StartRecord, PlKept, PlUntouched, Pending
  <2>2. rec # PlAbsent
    BY PlEntryEdits
  <2>3. /\ e1.config = rec.config /\ (p \in RemotePlugins => e1.dir = rec.dir)
        /\ e1.state = IF rec.state = "disabled" THEN "disabled" ELSE "enabled"
    BY <1>4, <1>7, <1>9, <2>1
  <2> QED
    BY <2>1, <2>2, <2>3 DEF Matches
<1> QED
  BY <1>11, <1>12, <1>13, <1>14

LEMMA PlRecordStep ==
  ASSUME PlInv, NEW p \in PluginIds, StartRecord(p) PROVE PlInv'
<1>1. PICK e1, op :
        /\ e1 \in PlSlot(p) /\ e1 # PlAbsent /\ PlOpTyped(Starter, op)
        /\ op = PlIdle \/ (op.id = p /\ op # PlIdle /\ op.pc = "persist" /\ op.then = "return")
        /\ plEntries' = [plEntries EXCEPT ![p] = e1] /\ plOps' = [plOps EXCEPT ![Starter] = op]
        /\ p \notin plRaced /\ PlKept(p) =>
             /\ plRecords[p] # PlAbsent /\ Matches(p, e1, plRecords[p]) /\ e1.state # "installed"
  BY PlLoads
<1>2. /\ plStart.pc = "records" /\ p \in plStart.todo /\ plOps[Starter] = PlIdle
      /\ plStart' = [plStart EXCEPT !.todo = @ \ {p}]
      /\ UNCHANGED <<plRecords, plDirs, plRaced, plCount>>
  BY DEF StartRecord
<1>3. plStart' = [pc |-> "records", recs |-> plStart.recs, todo |-> plStart.todo \ {p}]
  BY <1>2 DEF PlInv, PlTyped, PlTypedStart
<1>4. /\ plStart'.pc = "records" /\ plStart'.todo = plStart.todo \ {p} /\ plStart'.recs = plStart.recs
      /\ PlTypedStart'
  BY <1>2, <1>3 DEF PlInv, PlTyped, PlTypedStart
<1>5. Starter \in Goroutines /\ PlCallers \subseteq Goroutines
  BY DEF Goroutines
<1>6. /\ PlTypedEntries' /\ plEntries'[p] = e1
      /\ \A q \in PluginIds \ {p} : plEntries'[q] = plEntries[q]
  BY <1>1, PlTypedWrites DEF PlInv
<1>7. PlTypedOps' /\ plOps'[Starter] = op /\ \A h \in Goroutines \ {Starter} : plOps'[h] = plOps[h]
  BY <1>1, <1>5, PlTypedOp DEF PlInv
<1>8. PlTypedRecords' /\ PlTypedDirs' /\ \A q \in PluginIds : plRecords'[q] = plRecords[q]
  BY <1>2, PlTypedSame DEF PlInv
<1>9. ASSUME NEW q \in PluginIds \ plRaced', q # p PROVE PlKept(q)'
  <2>1. \A s \in PluginIds \ {p} : PlStartFrame(s)
    BY <1>2, <1>4 DEF PlStartFrame, Pending
  <2> QED
    BY <1>1, <1>2, <1>5, <1>6, <1>7, <1>8, <1>9, <2>1, PlOthers
<1>10. ASSUME p \notin plRaced' PROVE PlKept(p)'
  <2>1. p \notin plRaced /\ PlKept(p) /\ Pending(p)
    BY <1>2, <1>10 DEF PlInv, Pending
  <2>2. \A g \in Goroutines : ~On(g, p)
    BY <2>1 DEF PlKept, PlAlone
  <2>3. \A g \in Goroutines \ {Starter} : ~On(g, p)'
    BY <1>7, <2>2 DEF On
  <2>4. ~Pending(p)'
    BY <1>4 DEF Pending
  <2>5. PlAlone(p)' /\ PlUntouched(p)'
    <3>1. \A c \in PlCallers : ~On(c, p)'
      BY <1>5, <2>3, PluginsConstants
    <3> QED
      BY <1>4, <2>4, <3>1 DEF PlAlone, PlUntouched
  <2>6. plRecords[p] # PlAbsent /\ Matches(p, e1, plRecords[p]) /\ e1.state # "installed"
    BY <1>1, <2>1
  <2>7. PlFresh(p)' /\ PlFiles(p)'
    BY <1>1, <1>2, <1>6, <2>1, <2>6 DEF PlFresh, PlFiles, PlKept, Matches
  <2>8. Restores(p)'
    <3>1. PICK e, r : e = plEntries'[p] /\ r = plRecords'[p]
      OBVIOUS
    <3>2. /\ e # PlAbsent /\ r # PlAbsent /\ Matches(p, e, r)
          /\ p \notin BuiltIns => p \in RemotePlugins
      BY <1>1, <1>6, <1>8, <2>6, <3>1 DEF PluginIds
    <3> QED
      BY <3>1, <3>2 DEF Restores, Matches
  <2>9. On(Starter, p)' => PlProgress(op, p)'
    BY <1>1, <1>6, <1>7 DEF On, PlProgress, Finishing, FirstSave, Saved
  <2>10. ASSUME NEW h \in Goroutines, On(h, p)' PROVE PlProgress(plOps[h], p)'
    BY <1>7, <2>3, <2>9, <2>10, PlProgressOf
  <2> QED
    BY <2>5, <2>7, <2>8, <2>10 DEF PlKept, PlSettled
<1> QED
  BY <1>4, <1>6, <1>7, <1>8, <1>9, <1>10 DEF PlInv, PlTyped

LEMMA PlRestStep ==
  ASSUME PlInv, StartRest PROVE PlInv'
<1>1. /\ plStart.pc = "records" /\ plStart.todo = {} /\ plOps[Starter] = PlIdle
      /\ plStart' = [pc |-> "rest", todo |-> {p \in PluginIds : plEntries[p].state = "installed"}]
      /\ UNCHANGED <<plEntries, plRecords, plDirs, plOps, plRaced, plCount>>
  BY DEF StartRest
<1>2. plStart'.pc = "rest" /\ plStart'.todo = {p \in PluginIds : plEntries[p].state = "installed"}
  BY <1>1
<1>3. PlTyped'
  <2>1. PlTypedStart'
    BY <1>1, <1>2 DEF PlTypedStart
  <2> QED
    BY <1>1, <2>1, PlTypedSame DEF PlInv, PlTyped
<1>4. ASSUME NEW p \in PluginIds \ plRaced' PROVE PlKept(p)'
  <2>1. PlKept(p) /\ ~Pending(p) /\ ~Pending(p)' /\ ~On(Starter, p)'
    BY <1>1, <1>2, <1>4 DEF PlInv, Pending, On
  <2>2. \A g \in Goroutines : On(g, p)' <=> On(g, p)
    BY <1>1 DEF On
  <2>3. PlAlone(p)'
    <3>1. ASSUME p \in RemotePlugins, StartsLate(p)', NEW c \in PlCallers, On(c, p)'
          PROVE  Finishing(plOps'[c])
      <4>1. plEntries[p].state = "installed" /\ On(c, p)
        BY <1>1, <1>2, <2>1, <3>1 DEF StartsLate, On
      <4>2. PICK d \in PlCallers : On(d, p) /\ FirstSave(plOps[d])
        BY <2>1, <3>1, <4>1 DEF PlKept, PlFresh
      <4>3. d = c
        BY <2>1, <4>1, <4>2 DEF PlKept, PlAlone
      <4> QED
        BY <1>1, <4>2, <4>3 DEF Finishing
    <3>2. \A c, d \in PlCallers : On(c, p)' /\ On(d, p)' => c = d
      BY <1>1, <2>1 DEF PlKept, PlAlone, On
    <3> QED
      BY <2>1, <3>1, <3>2 DEF PlAlone, Finishing, FirstSave, Saved
  <2>4. PlUntouched(p)' /\ PlFiles(p)'
    BY <1>1, <1>2, <2>1 DEF PlUntouched, PlFiles, PlKept
  <2>5. PlFresh(p)'
    BY <1>1, <2>1 DEF PlFresh, PlKept, On, FirstSave
  <2>6. Restores(p)' <=> Restores(p)
    BY <1>1 DEF Restores
  <2>7. PlSettled(p)'
    BY <2>1, <2>2, <2>6 DEF PlSettled, PlKept
  <2>8. ASSUME NEW g \in Goroutines, On(g, p)' PROVE PlProgress(plOps[g], p)'
    <3>1. PICK op : op = plOps[g]
      OBVIOUS
    <3>2. PlProgress(op, p) /\ plOps'[g] = op
      BY <1>1, <2>1, <2>2, <2>8, <3>1 DEF PlKept
    <3>3. PlProgress(op, p)'
      BY <1>1, <2>6, <3>2 DEF PlProgress, Matches
    <3> QED
      BY <3>2, <3>3, PlProgressOf
  <2> QED
    BY <2>3, <2>4, <2>5, <2>7, <2>8 DEF PlKept
<1> QED
  BY <1>3, <1>4 DEF PlInv

(* What Start does to a plugin that is still only installed: nothing when it is gone or
   runs by now, or it enables the entry, and records that for a remote plugin. *)
LEMMA PlStarts ==
  ASSUME PlTyped, NEW p \in PluginIds, StartInstalled(p)
  PROVE  \E e, op :
           /\ e \in PlSlot(p) /\ (p \in BuiltIns => e # PlAbsent) /\ PlOpTyped(Starter, op)
           /\ \/ op = PlIdle
              \/ /\ op.id = p /\ op # PlIdle /\ op.pc = "persist" /\ op.then = "return"
                 /\ e # PlAbsent /\ p \notin BuiltIns
           /\ plEntries' = [plEntries EXCEPT ![p] = e] /\ plOps' = [plOps EXCEPT ![Starter] = op]
           /\ \/ e = plEntries[p]
              \/ /\ plEntries[p] # PlAbsent /\ e # PlAbsent /\ e.state = "enabled"
                 /\ e.dir = plEntries[p].dir /\ e.config = plEntries[p].config
                 /\ p \notin BuiltIns => op # PlIdle
                 /\ \A r : (plEntries[p].state # "disabled" \/ p \notin RemotePlugins)
                             /\ Matches(p, plEntries[p], r) => Matches(p, e, r)
<1>1. PICK op1 : op1 = [pc |-> "persist", id |-> p, then |-> "return", dir |-> PlNone, prev |-> PlNone]
  OBVIOUS
<1>2. PICK e0 \in PlSlot(p) : e0 = plEntries[p] /\ (p \in BuiltIns => e0 # PlAbsent)
  BY DEF PlTyped, PlTypedEntries
<1>3. PICK e1 : e1 = [e0 EXCEPT !.state = "enabled"]
  OBVIOUS
<1>4. \/ UNCHANGED plEntries /\ plOps' = [plOps EXCEPT ![Starter] = PlIdle]
      \/ /\ e0 \in PlEntryOf(p) /\ plEntries' = [plEntries EXCEPT ![p] = e1]
         /\ plOps' = [plOps EXCEPT ![Starter] = IF p \in BuiltIns THEN PlIdle ELSE op1]
  <2>1. EnableLocked(p, Starter, PlReturns(p))
    BY DEF StartInstalled
  <2>2. PlReturns(p).pc = "return" /\ PlReturns(p).dir = PlNone /\ PlReturns(p).prev = PlNone
    BY DEF PlReturns
  <2> QED
    BY <1>1, <1>2, <1>3, <2>1, <2>2, PlEnableDoes
<1>5. PlOpTyped(Starter, PlIdle)
  BY DEF PlOpTyped
<1>6. CASE UNCHANGED plEntries /\ plOps' = [plOps EXCEPT ![Starter] = PlIdle]
  <2>1. plEntries' = [plEntries EXCEPT ![p] = e0]
    BY <1>2, <1>6 DEF PlTyped, PlTypedEntries
  <2> QED
    BY <1>2, <1>5, <1>6, <2>1
<1>7. CASE /\ e0 \in PlEntryOf(p) /\ plEntries' = [plEntries EXCEPT ![p] = e1]
           /\ plOps' = [plOps EXCEPT ![Starter] = IF p \in BuiltIns THEN PlIdle ELSE op1]
  <2>1. /\ e1 \in PlSlot(p) /\ e1 # PlAbsent /\ e1.state = "enabled" /\ e1.dir = e0.dir
        /\ e1.config = e0.config /\ e0 # PlAbsent
        /\ \A r : (e0.state # "disabled" \/ p \notin RemotePlugins) /\ Matches(p, e0, r)
                    => Matches(p, e1, r)
    <3>1. e0 # PlAbsent
      BY <1>7, PlEntryEdits
    <3> QED
      BY <1>3, <1>7, <3>1, PlEnabledMatches DEF PlSlot
  <2>2. CASE p \in BuiltIns
    BY <1>2, <1>5, <1>7, <2>1, <2>2
  <2>3. CASE p \notin BuiltIns
    <3>1. op1 \in PlOpsOn(p)
      BY <1>1, PlOpIntro DEF PlMaybeDir
    <3>2. op1.pc = "persist" /\ op1.then = "return" /\ op1.id = p /\ op1 # PlIdle
      BY <1>1, <3>1, PlOpShape
    <3>3. PlOpTyped(Starter, op1)
      BY <2>3, <3>1, <3>2, Zenon DEF PlOpTyped
    <3>4. plOps' = [plOps EXCEPT ![Starter] = op1]
      BY <1>7, <2>3
    <3>5. plEntries' = [plEntries EXCEPT ![p] = e1]
      BY <1>7
    <3> WITNESS e1, op1
    <3> QED
      BY <1>2, <2>1, <2>3, <3>2, <3>3, <3>4, <3>5
  <2> QED
    BY <2>2, <2>3
<1> QED
  BY <1>4, <1>6, <1>7

LEMMA PlInstalledStep ==
  ASSUME PlInv, NEW p \in PluginIds, StartInstalled(p) PROVE PlInv'
<1>1. PICK e, op :
        /\ e \in PlSlot(p) /\ (p \in BuiltIns => e # PlAbsent) /\ PlOpTyped(Starter, op)
        /\ \/ op = PlIdle
           \/ /\ op.id = p /\ op # PlIdle /\ op.pc = "persist" /\ op.then = "return"
              /\ e # PlAbsent /\ p \notin BuiltIns
        /\ plEntries' = [plEntries EXCEPT ![p] = e] /\ plOps' = [plOps EXCEPT ![Starter] = op]
        /\ \/ e = plEntries[p]
           \/ /\ plEntries[p] # PlAbsent /\ e # PlAbsent /\ e.state = "enabled"
              /\ e.dir = plEntries[p].dir /\ e.config = plEntries[p].config
              /\ p \notin BuiltIns => op # PlIdle
              /\ \A r : (plEntries[p].state # "disabled" \/ p \notin RemotePlugins)
                          /\ Matches(p, plEntries[p], r) => Matches(p, e, r)
  BY PlStarts DEF PlInv
<1>2. /\ plStart.pc = "rest" /\ p \in plStart.todo /\ plOps[Starter] = PlIdle
      /\ plStart' = [plStart EXCEPT !.todo = @ \ {p}]
      /\ UNCHANGED <<plRecords, plDirs, plRaced, plCount>>
  BY DEF StartInstalled
<1>3. plStart' = [pc |-> "rest", todo |-> plStart.todo \ {p}]
  BY <1>2 DEF PlInv, PlTyped, PlTypedStart
<1>4. plStart'.pc = "rest" /\ plStart'.todo = plStart.todo \ {p} /\ PlTypedStart'
  BY <1>2, <1>3 DEF PlInv, PlTyped, PlTypedStart
<1>5. /\ Starter \in Goroutines /\ PlCallers \subseteq Goroutines
      /\ \A g \in Goroutines \ {Starter} : g \in PlCallers
      /\ \A c \in PlCallers : c # Starter
  BY PluginsConstants DEF Goroutines
<1>6. /\ PlTypedEntries' /\ plEntries'[p] = e
      /\ \A q \in PluginIds \ {p} : plEntries'[q] = plEntries[q]
  BY <1>1, PlTypedWrites DEF PlInv
<1>7. PlTypedOps' /\ plOps'[Starter] = op /\ \A h \in Goroutines \ {Starter} : plOps'[h] = plOps[h]
  BY <1>1, <1>5, PlTypedOp DEF PlInv
<1>8. PlTypedRecords' /\ PlTypedDirs' /\ \A q \in PluginIds : plRecords'[q] = plRecords[q]
  BY <1>2, PlTypedSame DEF PlInv
<1>9. ASSUME NEW q \in PluginIds \ plRaced', q # p PROVE PlKept(q)'
  <2>1. \A s \in PluginIds \ {p} : PlStartFrame(s)
    BY <1>2, <1>4 DEF PlStartFrame, Pending
  <2> QED
    BY <1>1, <1>2, <1>5, <1>6, <1>7, <1>8, <1>9, <2>1, PlOthers
<1>10. ASSUME p \notin plRaced' PROVE PlKept(p)'
  <2>1. PlKept(p) /\ ~Pending(p) /\ ~Pending(p)' /\ ~On(Starter, p)
    BY <1>2, <1>4, <1>10 DEF PlInv, Pending, On
  <2>2. \A g \in Goroutines \ {Starter} : On(g, p)' <=> On(g, p)
    BY <1>7 DEF On
  <2>3. PlAlone(p)'
    <3>1. \A c, d \in PlCallers : On(c, p)' /\ On(d, p)' => c = d
      BY <1>5, <2>1, <2>2 DEF PlKept, PlAlone
    <3>2. ASSUME p \in RemotePlugins, NEW c \in PlCallers, On(c, p)' PROVE Finishing(plOps'[c])
      BY <1>2, <1>5, <1>7, <2>1, <2>2, <3>2 DEF PlKept, PlAlone, StartsLate
    <3> QED
      BY <2>1, <3>1, <3>2 DEF PlAlone, Finishing, FirstSave, Saved
  <2>4. PlUntouched(p)'
    BY <1>4, <2>1 DEF PlUntouched
  <2>5. PlFiles(p)'
    BY <1>1, <1>2, <1>6, <1>8, <2>1 DEF PlFiles, PlKept
  <2>6. PlFresh(p)'
    <3>1. CASE e = plEntries[p]
      BY <1>5, <1>6, <1>7, <2>1, <2>2, <3>1 DEF PlFresh, PlKept, FirstSave
    <3>2. CASE e.state = "enabled"
      BY <1>6, <3>2 DEF PlFresh
    <3> QED
      BY <1>1, <3>1, <3>2
  <2>7. ASSUME e = plEntries[p] \/ p \in BuiltIns, Restores(p) PROVE Restores(p)'
    <3>1. CASE e = plEntries[p]
      BY <1>6, <1>8, <2>7, <3>1 DEF Restores
    <3>2. CASE p \in BuiltIns /\ e.state = "enabled" /\ e.config = plEntries[p].config
      BY <1>6, <1>8, <2>7, <3>2 DEF Restores
    <3> QED
      BY <1>1, <2>7, <3>1, <3>2
  <2>8. ASSUME \A g \in Goroutines : ~On(g, p)' PROVE Restores(p)'
    <3>1. \A g \in Goroutines : ~On(g, p)
      BY <1>5, <2>1, <2>2, <2>8
    <3>2. Restores(p)
      BY <2>1, <3>1 DEF PlKept, PlSettled
    <3>3. op = PlIdle
      BY <1>1, <1>5, <1>7, <2>8 DEF On
    <3> QED
      BY <1>1, <2>7, <3>2, <3>3
  <2>9. ASSUME On(Starter, p)' PROVE PlProgress(plOps[Starter], p)'
    <3>1. op # PlIdle /\ op.pc = "persist" /\ op.then = "return" /\ e # PlAbsent
      BY <1>1, <1>7, <2>9 DEF On
    <3>2. PlProgress(op, p)'
      BY <1>6, <3>1 DEF PlProgress, Finishing, FirstSave, Saved
    <3> QED
      BY <1>7, <3>2, PlProgressOf
  <2>10. ASSUME NEW h \in Goroutines \ {Starter}, On(h, p)' PROVE PlProgress(plOps[h], p)'
    <3>1. PICK oh : oh = plOps[h]
      OBVIOUS
    <3>2. /\ On(h, p) /\ PlProgress(oh, p) /\ plOps'[h] = oh /\ h \in PlCallers
          /\ oh \in PlOpsOn(p)
      <4>1. On(h, p) /\ PlProgress(plOps[h], p) /\ plOps'[h] = plOps[h] /\ h \in PlCallers
        BY <1>5, <1>7, <2>1, <2>2, <2>10 DEF PlKept
      <4>2. PICK q \in PluginIds : oh \in PlOpsOn(q)
        BY <3>1, <4>1 DEF On, PlInv, PlTyped, PlTypedOps, PlOpTyped
      <4>3. q = p
        BY <3>1, <4>1, <4>2, PlOpShape DEF On
      <4> QED
        BY <3>1, <4>1, <4>2, <4>3
    <3>3. CASE p \in RemotePlugins
      <4>1. Finishing(oh)
        BY <1>2, <2>1, <3>1, <3>2, <3>3 DEF PlKept, PlAlone, StartsLate
      <4>2. plEntries[p].state # "disabled"
        BY <3>2, <4>1 DEF PlProgress
      <4>3. oh.pc \notin {"extracted", "register", "remove", "delete", "files"}
        BY <4>1 DEF Finishing, FirstSave, Saved
      <4> QED
        BY <1>1, <1>6, <1>8, <3>1, <3>2, <4>2, <4>3, PlOtherStays
    <3>4. CASE p \notin RemotePlugins
      <4>1. p \in BuiltIns
        BY <3>4 DEF PluginIds
      <4>2. oh.pc \in {"extracted", "register", "persist", "save"} /\ ~Finishing(oh)
        BY <3>2, <4>1, PlOpShape DEF Finishing, FirstSave, Saved
      <4>3. CASE oh.pc \in {"extracted", "register"}
        <5>1. DirOf(oh.archive) \in plDirs' /\ Restores(p)'
          BY <1>2, <2>7, <3>2, <4>1, <4>3 DEF PlProgress
        <5>2. PlProgress(oh, p)'
          BY <4>2, <4>3, <5>1 DEF PlProgress, Finishing, FirstSave, Saved, DirOf
        <5> QED
          BY <3>2, <5>2, PlProgressOf
      <4>4. CASE oh.pc \in {"persist", "save"}
        <5>1. plEntries'[p] # PlAbsent
          BY <1>1, <1>6, <4>1
        <5>2. oh.pc = "save" => Matches(p, e, oh.rec)
          BY <1>1, <3>2, <3>4 DEF PlProgress
        <5>3. PlProgress(oh, p)'
          BY <1>6, <4>2, <4>4, <5>1, <5>2 DEF PlProgress, Matches, Finishing, FirstSave, Saved
        <5> QED
          BY <3>2, <5>3, PlProgressOf
      <4> QED
        BY <4>2, <4>3, <4>4
    <3> QED
      BY <3>3, <3>4
  <2> QED
    BY <2>3, <2>4, <2>5, <2>6, <2>8, <2>9, <2>10 DEF PlKept, PlSettled
<1> QED
  BY <1>4, <1>6, <1>7, <1>8, <1>9, <1>10 DEF PlInv, PlTyped

(* Start has nothing left to do.                                              *)
LEMMA PlReturnsStep ==
  ASSUME PlInv, StartReturns PROVE PlInv'
<1>1. /\ plStart.pc = "rest" /\ plStart.todo = {} /\ plStart' = [pc |-> "done"]
      /\ UNCHANGED <<plEntries, plRecords, plDirs, plOps, plRaced, plCount>>
  BY DEF StartReturns
<1>2. plStart'.pc = "done"
  BY <1>1
<1>3. PlTyped'
  BY <1>1, <1>2, PlTypedSame DEF PlInv, PlTyped, PlTypedStart
<1>4. ASSUME NEW p \in PluginIds \ plRaced' PROVE PlKept(p)'
  <2>1. PlStartFrame(p) /\ PlOpsFrame(p)
    BY <1>1, <1>2 DEF PlStartFrame, PlOpsFrame, Pending
  <2> QED
    BY <1>1, <1>4, <2>1, PlFrame DEF PlInv
<1> QED
  BY <1>3, <1>4 DEF PlInv

(* A crash and a restart: the registry has the built-ins, nothing runs, and the files and
   the records are what they were.                                            *)
LEMMA PlRestartStep ==
  ASSUME PlInv, PluginsRestart PROVE PlInv'
<1>1. /\ plEntries' = RegisterBuiltIns /\ plOps' = [g \in Goroutines |-> PlIdle]
      /\ plStart' = [pc |-> "list"] /\ UNCHANGED <<plRecords, plDirs, plRaced>>
  BY DEF PluginsRestart
<1>2. plStart'.pc = "list"
  BY <1>1
<1>3. PlTyped'
  <2>1. PlTypedEntries'
    BY <1>1 DEF PlTypedEntries, PlSlot, PlEntryOf, EntryStates, RegisterBuiltIns, PlAbsent
  <2>2. PlTypedOps'
    BY <1>1 DEF PlTypedOps, PlOpTyped
  <2>3. PlTypedStart'
    BY <1>2 DEF PlTypedStart
  <2> QED
    BY <1>1, <2>1, <2>2, <2>3, PlTypedSame DEF PlInv, PlTyped
<1>4. ASSUME NEW p \in PluginIds \ plRaced' PROVE PlKept(p)'
  <2>1. PlKept(p)
    BY <1>1, <1>4 DEF PlInv
  <2>2. Pending(p)' /\ plEntries'[p] = RegisterBuiltIns[p]
    BY <1>1, <1>2 DEF Pending
  <2>3. \A g \in Goroutines : ~On(g, p)'
    BY <1>1 DEF On
  <2>4. p \in RemotePlugins => plEntries'[p] = PlAbsent /\ plEntries'[p].state = "absent"
    BY <2>2, PluginsConstants DEF RegisterBuiltIns, PlAbsent
  <2>5. PlAlone(p)'
    <3>1. PlCallers \subseteq Goroutines
      BY DEF Goroutines
    <3> QED
      BY <2>3, <3>1 DEF PlAlone
  <2>6. PlUntouched(p)'
    BY <1>2, <2>2 DEF PlUntouched, RegisterBuiltIns
  <2>7. PlFresh(p)' /\ PlFiles(p)'
    BY <1>1, <2>1, <2>4 DEF PlFresh, PlFiles, PlKept
  <2> QED
    BY <2>2, <2>3, <2>5, <2>6, <2>7 DEF PlKept, PlSettled
<1> QED
  BY <1>3, <1>4 DEF PlInv

(* The first start: no records and no files.                                  *)
LEMMA PlInit ==
  ASSUME PluginsInit PROVE PlInv
<1>1. /\ plEntries = RegisterBuiltIns /\ plOps = [g \in Goroutines |-> PlIdle]
      /\ plStart.pc = "list" /\ plRecords = [p \in PluginIds |-> PlAbsent]
      /\ plDirs = {} /\ plRaced = {}
  BY DEF PluginsInit
<1>2. PlTyped
  <2>1. PlTypedEntries
    BY <1>1 DEF PlTypedEntries, PlSlot, PlEntryOf, EntryStates, RegisterBuiltIns, PlAbsent
  <2>2. PlTypedOps
    BY <1>1 DEF PlTypedOps, PlOpTyped
  <2>3. PlTypedStart /\ PlTypedDirs /\ PlTypedRecords
    BY <1>1 DEF PlTypedStart, PlTypedDirs, PlTypedRecords, PlSlot
  <2> QED
    BY <2>1, <2>2, <2>3 DEF PlTyped
<1>3. ASSUME NEW p \in PluginIds PROVE PlKept(p)
  <2>1. Pending(p) /\ plEntries[p] = RegisterBuiltIns[p] /\ plRecords[p] = PlAbsent
    BY <1>1 DEF Pending
  <2>2. \A g \in Goroutines : ~On(g, p)
    BY <1>1 DEF On
  <2>3. p \in RemotePlugins => plEntries[p] = PlAbsent /\ plEntries[p].state = "absent"
    BY <2>1, PluginsConstants DEF RegisterBuiltIns, PlAbsent
  <2>4. PlAlone(p)
    <3>1. PlCallers \subseteq Goroutines
      BY DEF Goroutines
    <3> QED
      BY <2>2, <3>1 DEF PlAlone
  <2>5. PlUntouched(p) /\ PlFresh(p) /\ PlFiles(p)
    BY <1>1, <2>1, <2>3 DEF PlUntouched, PlFresh, PlFiles
  <2> QED
    BY <2>1, <2>2, <2>4, <2>5 DEF PlKept, PlSettled
<1> QED
  BY <1>2, <1>3 DEF PlInv

(* Every step of the registry, its callers and its starts keeps the invariant. *)
LEMMA PlNext ==
  ASSUME PlInv, [PluginsNext]_plVars PROVE PlInv'
<1>1. CASE UNCHANGED plVars
  <2>1. PlTyped'
    BY <1>1, PlTypedSame DEF PlInv, PlTyped, plVars
  <2>2. ASSUME NEW p \in PluginIds \ plRaced' PROVE PlKept(p)'
    <3>1. PlStartFrame(p) /\ PlOpsFrame(p)
      BY <1>1 DEF PlStartFrame, PlOpsFrame, Pending, plVars
    <3> QED
      BY <1>1, <2>2, <3>1, PlFrame DEF PlInv, plVars
  <2> QED
    BY <2>1, <2>2 DEF PlInv
<1>2. ASSUME NEW c \in PlCallers,
             \/ \E a \in Archives : HandleInstallPlugin(c, a)
             \/ \E p \in PluginIds :
                  \/ HandleEnablePlugin(c, p) \/ HandleDisablePlugin(c, p) \/ HandleUninstallPlugin(c, p)
                  \/ \E cfg \in PlConfigs : HandlePutPluginConfig(c, p, cfg)
      PROVE  PlInv'
  BY <1>2, PlInstallRequest, PlEnableRequest, PlChangeRequest, PlUninstallRequest
<1>3. ASSUME NEW g \in Goroutines,
             \/ InstallChecks(g) \/ RegisterRemote(g) \/ InstallEnables(g) \/ CleanPrevious(g)
             \/ PersistReads(g) \/ SaveRecord(g)
             \/ RemoveEntry(g) \/ DeleteRecord(g) \/ UninstallFiles(g)
      PROVE  PlInv'
  BY <1>3, PlChecksStep, PlRegisterStep, PlEnablesStep, PlCleanStep, PlReadsStep, PlSaveStep,
     PlRemoveStep, PlDeleteStep, PlFilesStep
<1>4. ASSUME \/ StartLists \/ \E p \in PluginIds : StartRecord(p) \/ StartInstalled(p)
             \/ StartRest \/ StartReturns \/ PluginsRestart
      PROVE  PlInv'
  BY <1>4, PlListStep, PlRecordStep, PlInstalledStep, PlRestStep, PlReturnsStep, PlRestartStep
<1> QED
  BY <1>1, <1>2, <1>3, <1>4 DEF PluginsNext

(* What the invariant says of the plugins that no two operations raced on.    *)
LEMMA PlInvKeeps ==
  ASSUME PlInv PROVE PluginsKept
<1>1. PluginsTypeOK
  <2>1. \A p \in PluginIds : PlEntryOf(p) \subseteq EntryType
    BY DEF PlEntryOf, EntryType, PlDirsOf
  <2> QED
    BY <2>1 DEF PlInv, PlTyped, PlTypedEntries, PlTypedRecords, PlTypedDirs, PlSlot, PluginsTypeOK,
                PluginIds
<1>2. InstallDirsKept
  BY DEF PlInv, PlKept, PlFiles, InstallDirsKept, PluginIds
<1>3. ASSUME NEW p \in PluginIds \ plRaced, PluginAtRest(p) PROVE Restores(p)
  <2>1. ~Pending(p) /\ \A g \in Goroutines : ~On(g, p)
    BY <1>3 DEF PluginAtRest, Busy, Pending, On
  <2> QED
    BY <2>1 DEF PlInv, PlKept, PlSettled
<1> QED
  BY <1>1, <1>2, <1>3 DEF PluginsKept, RestartRestores

(* The plugin host: however requests on different plugins interleave with one another and
   with Registry.Start, and wherever the daemon dies, an installed plugin keeps the files that
   its entry and its record name, and once nothing works on it a restart brings back what it
   was.  On a plugin whose operations overlapped nothing is promised.          *)
THEOREM PluginsSurvive == PluginsInit /\ [][PluginsNext]_plVars => []PluginsKept
BY PlInit, PlNext, PlInvKeeps, PTL
=============================================================================
