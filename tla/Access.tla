------------------------------- MODULE Access -------------------------------
(* Who may call the daemon: scoped API tokens (MemTokens behind               *)
(* tokenStoreWrapper), the user accounts and sessions of hosted mode          *)
(* (hosted.Manager, SQLStore) and the scoped() middleware that admits a       *)
(* request.                                                                   *)
(*                                                                            *)
(* A secret is its identity: hashing and cookies are left out.  A row of the  *)
(* token table that has lost its secret is the blank row.                     *)
EXTENDS Integers, Sequences, FiniteSets, SequencesExt

CONSTANTS
  AcClients,             \* requests in progress at the same time
  ApiTokens, Root,       \* secrets of minted tokens; the root token
  AcUsers, Sessions,     \* accounts and session secrets
  SessionTTL, Window, Attempts,  \* life of a session; rateOK's window and limit
  MaxNow, MaxAcRestarts

ASSUME AccessConstants ==
  /\ IsFiniteSet(AcClients)
  /\ Root \notin ApiTokens /\ "blank" \notin ApiTokens \cup {Root} /\ ApiTokens \cap Sessions = {}
  /\ {SessionTTL, Window, Attempts, MaxNow, MaxAcRestarts} \subseteq Nat /\ Attempts # 0

VARIABLES
  acHosted,    \* Server.hostedAuth # nil
  acRows,      \* MemTokens.rows
  acStored,    \* the setting "api.tokens"
  acUsers,     \* users that exist
  acSession,   \* sessions table
  acLimiter,   \* limiter entry of the address the clients share
  acNow,
  acCall,      \* the request of each client
  acGone,      \* tokens revoked and sessions logged out so far
  acMinted,    \* tokens minted so far, with their scopes
  acRestarts

acVars == <<acHosted, acRows, acStored, acUsers, acSession, acLimiter, acNow, acCall,
            acGone, acMinted, acRestarts>>

Scopes == {"read", "admin"}
Idle == [pc |-> "idle"]
NoSession == "no session"
BlankRow == [secret |-> "blank", scopes |-> {}]
AcAt(c, pc) == acCall[c].pc = pc
AcGoto(c, rec) == acCall' = [acCall EXCEPT ![c] = rec]

AccessInit ==
  /\ acHosted \in BOOLEAN
  /\ acRows = <<>> /\ acStored = <<>> /\ acUsers = {} /\ acSession = <<>>
  /\ acLimiter = [count |-> 0, start |-> -Window - 1] /\ acNow = 0
  /\ acCall = [c \in AcClients |-> Idle]
  /\ acGone = {} /\ acMinted = <<>> /\ acRestarts = 0

-----------------------------------------------------------------------------
(* Tokens. *)

\* handleMintToken and handleRevokeToken: refused in hosted mode; both end in
\* persist, which dumps the rows and then stores them.
MintToken(c, t, scopes) ==
  /\ ~acHosted /\ acCall[c] = Idle /\ t \notin DOMAIN acMinted
  /\ acRows' = Append(acRows, [secret |-> t, scopes |-> scopes])
  /\ acMinted' = [x \in DOMAIN acMinted \cup {t} |-> IF x = t THEN scopes ELSE acMinted[x]]
  /\ AcGoto(c, [pc |-> "dump"])
  /\ UNCHANGED <<acHosted, acStored, acUsers, acSession, acLimiter, acNow, acGone, acRestarts>>
RevokeToken(c, t) ==
  /\ ~acHosted /\ acCall[c] = Idle
  /\ \E i \in 1 .. Len(acRows) : acRows[i].secret = t /\ acRows' = RemoveAt(acRows, i)
  /\ acGone' = acGone \cup {t}
  /\ AcGoto(c, [pc |-> "dump"])
  /\ UNCHANGED <<acHosted, acStored, acUsers, acSession, acLimiter, acNow, acMinted, acRestarts>>

\* A bug for comparison: the dump keeps the rows' contents, so that saves which
\* overtake each other can bring a revoked token back.
DumpedRows(rows) == rows

\* DumpJSON: the fields of tokenRow are unexported, so each row becomes {}.
DumpJSON(rows) == [i \in 1 .. Len(rows) |-> BlankRow]
PersistDumps(c) ==
  /\ AcAt(c, "dump")
  /\ AcGoto(c, [pc |-> "put", data |-> DumpJSON(acRows)])
  /\ UNCHANGED <<acHosted, acRows, acStored, acUsers, acSession, acLimiter, acNow, acGone, acMinted, acRestarts>>
PersistPuts(c) ==
  /\ AcAt(c, "put")
  /\ acStored' = acCall[c].data
  /\ AcGoto(c, Idle)
  /\ UNCHANGED <<acHosted, acRows, acUsers, acSession, acLimiter, acNow, acGone, acMinted, acRestarts>>

-----------------------------------------------------------------------------
(* Accounts and sessions. *)

\* A bug for comparison: one attempt more than the limit.
RateOKOffByOne == acNow - acLimiter.start > Window \/ acLimiter.count <= Attempts

\* The rate limiter of Login.
RateOK == acNow - acLimiter.start > Window \/ acLimiter.count < Attempts
RecordAttempt ==
  acLimiter' = IF acNow - acLimiter.start > Window THEN [count |-> 1, start |-> acNow]
               ELSE [acLimiter EXCEPT !.count = @ + 1]

\* Register inserts the user, unless the address is taken, and logs in.
HandleHostedRegister(c, u) ==
  /\ acHosted /\ acCall[c] = Idle /\ u \notin acUsers
  /\ acUsers' = acUsers \cup {u}
  /\ AcGoto(c, [pc |-> "login", user |-> u, good |-> TRUE])
  /\ UNCHANGED <<acHosted, acRows, acStored, acSession, acLimiter, acNow, acGone, acMinted, acRestarts>>
HandleHostedLogin(c, u, good) ==
  /\ acHosted /\ acCall[c] = Idle
  /\ AcGoto(c, [pc |-> "login", user |-> u, good |-> good])
  /\ UNCHANGED <<acHosted, acRows, acStored, acUsers, acSession, acLimiter, acNow, acGone, acMinted, acRestarts>>
LoginChecksRate(c) ==
  /\ AcAt(c, "login")
  /\ AcGoto(c, IF RateOK THEN [acCall[c] EXCEPT !.pc = "compare"] ELSE Idle)
  /\ UNCHANGED <<acHosted, acRows, acStored, acUsers, acSession, acLimiter, acNow, acGone, acMinted, acRestarts>>

\* The password is compared; a failure is recorded, a success makes a session.
LoginFails(c) ==
  /\ AcAt(c, "compare") /\ ~(acCall[c].good /\ acCall[c].user \in acUsers)
  /\ RecordAttempt /\ AcGoto(c, Idle)
  /\ UNCHANGED <<acHosted, acRows, acStored, acUsers, acSession, acNow, acGone, acMinted, acRestarts>>
CreateSession(c, s) ==
  /\ AcAt(c, "compare") /\ acCall[c].good /\ acCall[c].user \in acUsers
  /\ s \notin DOMAIN acSession \cup acGone
  /\ acSession' = [x \in DOMAIN acSession \cup {s} |->
                     IF x = s THEN [user |-> acCall[c].user, exp |-> acNow + SessionTTL] ELSE acSession[x]]
  /\ AcGoto(c, Idle)
  /\ UNCHANGED <<acHosted, acRows, acStored, acUsers, acLimiter, acNow, acGone, acMinted, acRestarts>>

DropSessions(S) == acSession' = [x \in DOMAIN acSession \ S |-> acSession[x]]
HandleHostedLogout(c, s) ==
  /\ acHosted /\ acCall[c] = Idle /\ s \in DOMAIN acSession
  /\ DropSessions({s}) /\ acGone' = acGone \cup {s}
  /\ UNCHANGED <<acHosted, acRows, acStored, acUsers, acLimiter, acNow, acCall, acMinted, acRestarts>>
SweepSessions ==
  /\ \E s \in DOMAIN acSession : acSession[s].exp < acNow
  /\ DropSessions({s \in DOMAIN acSession : acSession[s].exp < acNow})
  /\ acGone' = acGone \cup (DOMAIN acSession \ DOMAIN acSession')
  /\ UNCHANGED <<acHosted, acRows, acStored, acUsers, acLimiter, acNow, acCall, acMinted, acRestarts>>

-----------------------------------------------------------------------------
(* A request to a route. *)

\* The request notes what was already revoked, logged out or expired.
BeginRequest(c, t, s, need) ==
  /\ acCall[c] = Idle
  /\ AcGoto(c, [pc |-> "verify", token |-> t, session |-> s, need |-> need, user |-> NoSession,
                dead |-> acGone \cup {x \in DOMAIN acSession : acNow > acSession[x].exp}])
  /\ UNCHANGED <<acHosted, acRows, acStored, acUsers, acSession, acLimiter, acNow, acGone, acMinted, acRestarts>>
HasScope(granted, need) == "admin" \in granted \/ need \in granted
Admits(t, need) ==
  t = Root \/ \E i \in 1 .. Len(acRows) : acRows[i].secret = t /\ HasScope(acRows[i].scopes, need)
ScopedVerifies(c) ==
  /\ AcAt(c, "verify")
  /\ AcGoto(c, IF ~Admits(acCall[c].token, acCall[c].need) THEN Idle
               ELSE [acCall[c] EXCEPT !.pc = IF acHosted THEN "resolve" ELSE "serve"])
  /\ UNCHANGED <<acHosted, acRows, acStored, acUsers, acSession, acLimiter, acNow, acGone, acMinted, acRestarts>>

\* A bug for comparison: expiry is left to the sweeper.
SessionLives(s) == s \in DOMAIN acSession
SessionUser(s) == s \in DOMAIN acSession /\ acNow <= acSession[s].exp
ScopedResolves(c) ==
  /\ AcAt(c, "resolve")
  /\ LET s == acCall[c].session IN
       IF SessionUser(s)
         THEN AcGoto(c, [acCall[c] EXCEPT !.pc = "serve", !.user = acSession[s].user]) /\ UNCHANGED <<acSession, acGone>>
         ELSE AcGoto(c, Idle) /\ DropSessions({s}) /\ acGone' = acGone \cup (DOMAIN acSession \cap {s})
  /\ UNCHANGED <<acHosted, acRows, acStored, acUsers, acLimiter, acNow, acMinted, acRestarts>>
Serve(c) ==
  /\ AcAt(c, "serve") /\ AcGoto(c, Idle)
  /\ UNCHANGED <<acHosted, acRows, acStored, acUsers, acSession, acLimiter, acNow, acGone, acMinted, acRestarts>>

\* A crash, and NewDaemon with LoadFromJSON.
AccessRestart ==
  /\ acRestarts < MaxAcRestarts /\ acRestarts' = acRestarts + 1
  /\ acRows' = acStored
  /\ acCall' = [c \in AcClients |-> Idle]
  /\ acLimiter' = [count |-> 0, start |-> -Window - 1]
  /\ UNCHANGED <<acHosted, acStored, acUsers, acSession, acNow, acGone, acMinted>>
AcTick ==
  /\ acHosted /\ acNow < MaxNow /\ acNow' = acNow + 1
  /\ UNCHANGED <<acHosted, acRows, acStored, acUsers, acSession, acLimiter, acCall, acGone, acMinted, acRestarts>>

AccessNext ==
  \/ \E c \in AcClients :
       \/ PersistDumps(c) \/ PersistPuts(c) \/ LoginChecksRate(c) \/ LoginFails(c)
       \/ ScopedVerifies(c) \/ ScopedResolves(c) \/ Serve(c)
       \/ \E t \in ApiTokens : RevokeToken(c, t) \/ \E sc \in Scopes : MintToken(c, t, {sc})
       \/ \E u \in AcUsers : HandleHostedRegister(c, u) \/ \E good \in BOOLEAN : HandleHostedLogin(c, u, good)
       \/ \E s \in Sessions : CreateSession(c, s) \/ HandleHostedLogout(c, s)
       \/ \E t \in ApiTokens \cup {Root}, s \in Sessions, need \in Scopes : BeginRequest(c, t, s, need)
  \/ SweepSessions \/ AccessRestart \/ AcTick

-----------------------------------------------------------------------------
AccessTypeOK ==
  /\ acHosted \in BOOLEAN /\ acUsers \subseteq AcUsers
  /\ \A i \in 1 .. Len(acRows) : acRows[i].secret \in ApiTokens \cup {"blank"}
  /\ \A s \in DOMAIN acSession : acSession[s].user \in acUsers
  /\ acNow \in 0 .. MaxNow /\ acLimiter.count \in Nat

\* scoped(): a handler runs only for a token that grants the scope and was not
\* revoked before the request began, not even before a restart; in hosted mode
\* also only for the owner of a session that was neither logged out nor
\* expired when the request began, whatever the sweeper did meanwhile.
AdmittedIsEntitled ==
  \A c \in AcClients : acCall[c].pc = "serve" =>
    LET r == acCall[c] IN
      /\ r.token # Root =>
           /\ r.token \in DOMAIN acMinted /\ HasScope(acMinted[r.token], r.need)
           /\ r.token \notin r.dead
      /\ acHosted => r.user \in acUsers /\ r.session \notin r.dead

\* The login limiter lets an address fail at most Attempts times in a window,
\* plus the logins that had passed rateOK before the last failure was recorded.
FailuresBounded == acLimiter.count <= Attempts + Cardinality(AcClients) - 1

\* "every mutation serialises the current set to the settings repo so tokens
\* survive daemon restarts": after a restart with no save under way, a token
\* that was minted and stored and not revoked still opens what it opened.
TokensSurvive ==
  (\A c \in AcClients : acCall[c] = Idle) /\ Len(acStored) > 0 =>
    \A t \in DOMAIN acMinted \ acGone :
      \E i \in 1 .. Len(acRows) : acRows[i].secret = t

\* A request is served only to a holder entitled to it, and failed logins are
\* bounded in a window.
RequestsEntitled == AccessTypeOK /\ AdmittedIsEntitled /\ FailuresBounded
=============================================================================
