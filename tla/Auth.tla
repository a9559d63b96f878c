-------------------------------- MODULE Auth --------------------------------
(* Signing in to Twitch (device flow) and Kick (redirect to a loopback        *)
(* server), and the tokens this yields: auth/twitch.Manager, auth/kick.Manager*)
(* with the vault, the account row and the adapter they feed, Disconnect and  *)
(* Close.                                                                     *)
(*                                                                            *)
(* One account of one platform; Flow tells which.  A token set is the number  *)
(* of its single-use refresh token and whether it is still far from expiry.   *)
(* AccessToken, lockRef, writeToken and persist are the same code in the two  *)
(* managers.                                                                  *)
EXTENDS Integers, FiniteSets

CONSTANTS
  AuCallers,        \* concurrent callers of AccessToken
  Browsers,         \* requests to the loopback server
  MaxIssued         \* bound on token sets issued

ASSUME AuthConstants == MaxIssued \in Nat \ {0} /\ "poll" \notin Browsers /\ "free" \notin AuCallers

VARIABLES
  auFlow,      \* "device" or "redirect"
  auVault,     \* the stored token set, or NoToken
  auValid,     \* refresh tokens the platform accepts
  auIssued,    \* token sets issued so far
  auRow,       \* the account row exists
  auAttached,  \* the adapter acts for the account
  auLock,      \* refLocks of the account: its holder, or "free"
  auCaller,    \* where each caller of AccessToken is
  auSession,   \* State of the sign-in session
  auWork,      \* the poll goroutine or the callback of each browser request
  auOnce,      \* redeemOnce: "free", "busy" or "done"
  auExchanges, \* how often the authorization code was redeemed
  auServer,    \* loopback server: "none", "open", "closing" or "closed"
  auExpire,    \* the goroutine that abandons the session
  auClose,     \* Close: "no", "asked" or "done"
  auDisc,      \* where Disconnect is
  auLost       \* a rotated token set never reached the vault

auVars == <<auFlow, auVault, auValid, auIssued, auRow, auAttached, auLock, auCaller, auSession,
            auWork, auOnce, auExchanges, auServer, auExpire, auClose, auDisc, auLost>>
tokenVars == <<auVault, auValid, auIssued, auRow, auAttached, auLost>>
flowVars == <<auSession, auOnce, auExchanges, auServer, auExpire, auClose>>

NoToken == [n |-> 0, fresh |-> FALSE]
Workers == {"poll"} \cup Browsers
Free == "free"
AtRest == [pc |-> "idle"]
Issue == auIssued < MaxIssued /\ auIssued' = auIssued + 1
NewToken == [n |-> auIssued + 1, fresh |-> TRUE]

\* An account may have signed in before.
AuthInit ==
  /\ auFlow \in {"device", "redirect"}
  /\ \/ auVault = NoToken /\ auValid = {} /\ auIssued = 0 /\ auRow = FALSE
     \/ auVault = [n |-> 1, fresh |-> FALSE] /\ auValid = {1} /\ auIssued = 1 /\ auRow = TRUE
  /\ auAttached = auRow /\ auLost = FALSE
  /\ auLock = Free /\ auCaller = [c \in AuCallers |-> AtRest]
  /\ auSession = "none" /\ auWork = [w \in Workers |-> AtRest]
  /\ auOnce = Free /\ auExchanges = 0 /\ auServer = "none" /\ auExpire = "none"
  /\ auClose = "no" /\ auDisc = "idle"

-----------------------------------------------------------------------------
(* AccessToken: a stale token set is refreshed by one caller at a time. *)

ReadToken(c) ==
  /\ auCaller[c] = AtRest
  /\ auVault # NoToken /\ ~auVault.fresh
  /\ auCaller' = [auCaller EXCEPT ![c] = [pc |-> "lock"]]
  /\ UNCHANGED <<auFlow, tokenVars, flowVars, auLock, auWork, auDisc>>

\* The check that is repeated under the lock.
NeedsRefresh == auVault # NoToken /\ ~auVault.fresh

\* A bug for comparison: callers refresh without waiting for each other.
LockRefNotHeld(c) ==
  /\ auCaller[c].pc = "lock" /\ NeedsRefresh
  /\ auCaller' = [auCaller EXCEPT ![c] = [pc |-> "refresh", n |-> auVault.n]]
  /\ UNCHANGED <<auFlow, tokenVars, flowVars, auLock, auWork, auDisc>>

LockRef(c) ==
  /\ auCaller[c].pc = "lock" /\ auLock = Free
  /\ IF NeedsRefresh
       THEN auLock' = c /\ auCaller' = [auCaller EXCEPT ![c] = [pc |-> "refresh", n |-> auVault.n]]
       ELSE auCaller' = [auCaller EXCEPT ![c] = AtRest] /\ UNCHANGED auLock
  /\ UNCHANGED <<auFlow, tokenVars, flowVars, auWork, auDisc>>

\* The platform rotates the refresh token; the answer may be lost.
Refresh(c) ==
  /\ auCaller[c].pc = "refresh" /\ auCaller[c].n \in auValid /\ Issue
  /\ auValid' = (auValid \ {auCaller[c].n}) \cup {NewToken.n}
  /\ \/ auCaller' = [auCaller EXCEPT ![c] = [pc |-> "write", tok |-> NewToken]] /\ UNCHANGED <<auLock, auLost>>
     \/ auCaller' = [auCaller EXCEPT ![c] = AtRest] /\ auLock' = Free /\ auLost' = TRUE
  /\ UNCHANGED <<auFlow, auVault, auRow, auAttached, flowVars, auWork, auDisc>>
RefreshFails(c) ==
  /\ auCaller[c].pc = "refresh"
  /\ auCaller' = [auCaller EXCEPT ![c] = AtRest] /\ auLock' = Free
  /\ UNCHANGED <<auFlow, tokenVars, flowVars, auWork, auDisc>>
WriteToken(c) ==
  /\ auCaller[c].pc = "write"
  /\ \/ auVault' = auCaller[c].tok /\ UNCHANGED auLost
     \/ auLost' = TRUE /\ UNCHANGED auVault      \* the vault refused it
  /\ auCaller' = [auCaller EXCEPT ![c] = AtRest] /\ auLock' = Free
  /\ UNCHANGED <<auFlow, auValid, auIssued, auRow, auAttached, flowVars, auWork, auDisc>>

\* Time passes until the stored token set is within refreshSkew of its expiry.
TokenAges ==
  /\ auVault.fresh /\ auVault' = [auVault EXCEPT !.fresh = FALSE]
  /\ UNCHANGED <<auFlow, auValid, auIssued, auRow, auAttached, auLost, flowVars, auLock, auCaller, auWork, auDisc>>

-----------------------------------------------------------------------------
(* The device flow. *)

Goto(w, rec) == auWork' = [auWork EXCEPT ![w] = rec]
StartDevice ==
  /\ auFlow = "device" /\ auSession = "none" /\ auClose = "no"
  /\ auSession' = "pending" /\ Goto("poll", [pc |-> "wait"])
  /\ UNCHANGED <<auFlow, tokenVars, auOnce, auExchanges, auServer, auExpire, auClose, auLock, auCaller, auDisc>>
\* Cancelled, past the deadline, declined or refused; pending and slow_down
\* only wait again.
PollEnds(state) ==
  /\ auWork["poll"].pc = "wait"
  /\ state = "pending" => auClose # "no"
  /\ auSession' = state /\ Goto("poll", AtRest)
  /\ UNCHANGED <<auFlow, tokenVars, auOnce, auExchanges, auServer, auExpire, auClose, auLock, auCaller, auDisc>>
PollToken ==
  /\ auWork["poll"].pc = "wait" /\ auClose = "no" /\ Issue
  /\ auValid' = auValid \cup {NewToken.n} /\ Goto("poll", [pc |-> "validate", tok |-> NewToken])
  /\ UNCHANGED <<auFlow, auVault, auRow, auAttached, auLost, flowVars, auLock, auCaller, auDisc>>

-----------------------------------------------------------------------------
(* The redirect flow. *)

StartAuth ==
  /\ auFlow = "redirect" /\ auSession = "none" /\ auClose = "no"
  /\ auSession' = "pending" /\ auServer' = "open" /\ auExpire' = "armed"
  /\ UNCHANGED <<auFlow, tokenVars, auOnce, auExchanges, auClose, auLock, auCaller, auWork, auDisc>>

\* callback: a wrong state or a refusal is an error; a code is redeemed once.
Callback(b) ==
  /\ auServer = "open" /\ auWork[b] = AtRest
  /\ \E pc \in {"refused", "code"} : Goto(b, [pc |-> pc])
  /\ UNCHANGED <<auFlow, tokenVars, flowVars, auLock, auCaller, auDisc>>

\* The end of a handler: the server is shut down in a goroutine of its own.
ShutSoon == auServer' = IF auServer = "open" THEN "closing" ELSE auServer
CallbackRefused(b) ==
  /\ auWork[b].pc = "refused"
  /\ auSession' = "error" /\ Goto(b, AtRest) /\ ShutSoon
  /\ UNCHANGED <<auFlow, tokenVars, auOnce, auExchanges, auExpire, auClose, auLock, auCaller, auDisc>>

\* A bug for comparison: every callback redeems the code it carries.
RedeemAgain(b) ==
  /\ auWork[b].pc = "code"
  /\ auOnce' = "busy" /\ auExchanges' = auExchanges + 1 /\ Goto(b, [pc |-> "exchange"])
  /\ UNCHANGED <<auFlow, tokenVars, auSession, auServer, auExpire, auClose, auLock, auCaller, auDisc>>

RedeemOnce(b) ==
  /\ auWork[b].pc = "code" /\ auOnce = Free
  /\ auOnce' = "busy" /\ auExchanges' = auExchanges + 1 /\ Goto(b, [pc |-> "exchange"])
  /\ UNCHANGED <<auFlow, tokenVars, auSession, auServer, auExpire, auClose, auLock, auCaller, auDisc>>
AlreadyRedeemed(b) ==
  /\ auWork[b].pc = "code" /\ auOnce = "done"
  /\ Goto(b, AtRest) /\ ShutSoon
  /\ UNCHANGED <<auFlow, tokenVars, auSession, auOnce, auExchanges, auExpire, auClose, auLock, auCaller, auDisc>>
Exchange(b) ==
  /\ auWork[b].pc = "exchange" /\ Issue
  /\ auValid' = auValid \cup {NewToken.n} /\ Goto(b, [pc |-> "validate", tok |-> NewToken])
  /\ UNCHANGED <<auFlow, auVault, auRow, auAttached, auLost, flowVars, auLock, auCaller, auDisc>>

\* A worker ends: the poll goroutine returns, a handler also leaves redeemOnce.
WorkerEnds(w) ==
  /\ Goto(w, AtRest)
  /\ IF w = "poll" THEN UNCHANGED <<auOnce, auServer>> ELSE auOnce' = "done" /\ ShutSoon

\* expire: the state is read and then, in a separate step, overwritten.
ExpireReads ==
  /\ auExpire = "armed"
  /\ auExpire' = IF auSession = "pending" THEN "mark" ELSE "shut"
  /\ UNCHANGED <<auFlow, tokenVars, auSession, auOnce, auExchanges, auServer, auClose, auLock, auCaller, auWork, auDisc>>
ExpireMarks ==
  /\ auExpire = "mark" /\ auExpire' = "shut" /\ auSession' = "expired"
  /\ UNCHANGED <<auFlow, tokenVars, auOnce, auExchanges, auServer, auClose, auLock, auCaller, auWork, auDisc>>
ExpireCancelled ==
  /\ auExpire = "armed" /\ auClose # "no" /\ auExpire' = "shut"
  /\ UNCHANGED <<auFlow, tokenVars, auSession, auOnce, auExchanges, auServer, auClose, auLock, auCaller, auWork, auDisc>>

\* A bug for comparison: expire does not wait for the server to shut down.
ExpireLeaves ==
  /\ auExpire = "shut" /\ auExpire' = "ended" /\ ShutSoon
  /\ UNCHANGED <<auFlow, tokenVars, auSession, auOnce, auExchanges, auClose, auLock, auCaller, auWork, auDisc>>

ExpireShuts ==
  /\ auExpire = "shut"
  /\ auExpire' = IF auServer = "closed" THEN "ended" ELSE "shut"
  /\ ShutSoon
  /\ UNCHANGED <<auFlow, tokenVars, auSession, auOnce, auExchanges, auClose, auLock, auCaller, auWork, auDisc>>

\* Shutdown waits for the handlers that run.
ServerCloses ==
  /\ auServer = "closing" /\ \A b \in Browsers : auWork[b] = AtRest
  /\ auServer' = "closed"
  /\ UNCHANGED <<auFlow, tokenVars, auSession, auOnce, auExchanges, auExpire, auClose, auLock, auCaller, auWork, auDisc>>

-----------------------------------------------------------------------------
(* persist, which both flows share, and what follows it. *)

\* A step of persist, or the exchange, fails.
PersistFails(w) ==
  /\ auWork[w].pc \in {"exchange", "validate", "store", "upsert"}
  /\ auSession' = "error" /\ WorkerEnds(w)
  /\ UNCHANGED <<auFlow, tokenVars, auExchanges, auExpire, auClose, auLock, auCaller, auDisc>>
Identified(w) ==
  /\ auWork[w].pc = "validate" /\ Goto(w, [auWork[w] EXCEPT !.pc = "store"])
  /\ UNCHANGED <<auFlow, tokenVars, flowVars, auLock, auCaller, auDisc>>
Validate == Identified("poll")
Identity(b) == Identified(b)
StoreToken(w) ==
  /\ auWork[w].pc = "store" /\ auVault' = auWork[w].tok /\ Goto(w, [pc |-> "upsert"])
  /\ UNCHANGED <<auFlow, auValid, auIssued, auRow, auAttached, auLost, flowVars, auLock, auCaller, auDisc>>
UpsertAccount(w) ==
  /\ auWork[w].pc = "upsert" /\ auRow' = TRUE /\ Goto(w, [pc |-> "state"])
  /\ UNCHANGED <<auFlow, auVault, auValid, auIssued, auAttached, auLost, flowVars, auLock, auCaller, auDisc>>
SetAuthorized(w) ==
  /\ auWork[w].pc = "state" /\ auSession' = "authorized" /\ Goto(w, [pc |-> "attach"])
  /\ UNCHANGED <<auFlow, tokenVars, auOnce, auExchanges, auServer, auExpire, auClose, auLock, auCaller, auDisc>>
OnAuthorized(w) ==
  /\ auWork[w].pc = "attach" /\ auAttached' = TRUE /\ WorkerEnds(w)
  /\ UNCHANGED <<auFlow, auVault, auValid, auIssued, auRow, auLost, auSession, auExchanges, auExpire, auClose, auLock, auCaller, auDisc>>

-----------------------------------------------------------------------------
(* Disconnect, Close and a crash. *)

Disconnect(from, to) ==
  /\ auDisc = from /\ auDisc' = to
  /\ from = "idle" => auRow
  /\ auVault' = IF from = "vault" THEN NoToken ELSE auVault
  /\ auRow' = IF from = "row" THEN FALSE ELSE auRow
  /\ auAttached' = IF from = "deauth" THEN FALSE ELSE auAttached
  /\ UNCHANGED <<auFlow, auValid, auIssued, auLost, flowVars, auLock, auCaller, auWork>>
CloseAsked ==
  /\ auClose = "no" /\ auClose' = "asked"
  /\ UNCHANGED <<auFlow, tokenVars, auSession, auOnce, auExchanges, auServer, auExpire, auLock, auCaller, auWork, auDisc>>
AuthCloseReturns ==
  /\ auClose = "asked" /\ auWork["poll"] = AtRest /\ auExpire \in {"none", "ended"}
  /\ auClose' = "done"
  /\ UNCHANGED <<auFlow, tokenVars, auSession, auOnce, auExchanges, auServer, auExpire, auLock, auCaller, auWork, auDisc>>

\* A crash and a restart: the account rows are attached again.
AuthCrash ==
  /\ auIssued < MaxIssued
  /\ auCaller' = [c \in AuCallers |-> AtRest] /\ auWork' = [w \in Workers |-> AtRest]
  /\ auLock' = Free /\ auSession' = "none" /\ auOnce' = Free /\ auExchanges' = 0
  /\ auServer' = "none" /\ auExpire' = "none" /\ auClose' = "no" /\ auDisc' = "idle"
  /\ auAttached' = auRow
  /\ auLost' = (auLost \/ \E c \in AuCallers : auCaller[c].pc = "write")
  /\ UNCHANGED <<auFlow, auVault, auValid, auIssued, auRow>>

AuthNext ==
  \/ \E c \in AuCallers : ReadToken(c) \/ LockRef(c) \/ Refresh(c) \/ RefreshFails(c) \/ WriteToken(c)
  \/ TokenAges \/ StartDevice \/ PollToken \/ Validate \/ StartAuth
  \/ \E state \in {"pending", "expired", "denied", "error"} : PollEnds(state)
  \/ \E b \in Browsers :
       Callback(b) \/ CallbackRefused(b) \/ RedeemOnce(b) \/ AlreadyRedeemed(b) \/ Exchange(b) \/ Identity(b)
  \/ \E w \in Workers :
       PersistFails(w) \/ StoreToken(w) \/ UpsertAccount(w) \/ SetAuthorized(w) \/ OnAuthorized(w)
  \/ ExpireReads \/ ExpireMarks \/ ExpireCancelled \/ ExpireShuts \/ ServerCloses
  \/ Disconnect("idle", "vault") \/ Disconnect("vault", "row") \/ Disconnect("row", "deauth") \/ Disconnect("deauth", "idle")
  \/ CloseAsked \/ AuthCloseReturns \/ AuthCrash

AuthSpec == AuthInit /\ [][AuthNext]_auVars

-----------------------------------------------------------------------------
AuthTypeOK ==
  /\ auVault \in [n : 0 .. MaxIssued, fresh : BOOLEAN] /\ auValid \subseteq 1 .. MaxIssued
  /\ auLock \in AuCallers \cup {Free}
  /\ auSession \in {"none", "pending", "authorized", "denied", "expired", "error"}

\* "two concurrent refreshes would both spend the same token and strand one of
\* them": however callers, sign-ins and a disconnect interleave, no caller
\* presents a refresh token that is already spent, and the stored one is one
\* the platform still accepts, unless its successor is about to be stored or
\* was lost on the way.
NotStranded ==
  ~auLost =>
    /\ \A c \in AuCallers : auCaller[c].pc = "refresh" => auCaller[c].n \in auValid
    /\ auVault # NoToken /\ (\A c \in AuCallers : auCaller[c].pc # "write") => auVault.n \in auValid

\* "the authorization code is redeemed at most once", by however many requests
\* to the loopback server.
CodeRedeemedOnce == auExchanges <= 1

\* After Close no poll runs, the loopback server is down and no handler is left
\* that could still store a token or attach the account.
AuthClosedIsQuiet ==
  auClose = "done" => auServer \in {"none", "closed"} /\ \A w \in Workers : auWork[w] = AtRest

\* "must not ... turn an already-authorized session into a spent-code error":
\* a session that has been authorized stays authorized.
AuthorizedStays == [][auSession = "authorized" /\ auSession' # "authorized" => auSession' = "none"]_auVars

\* Sign-in and refresh are safe to overlap: no caller presents a refresh token
\* that another has used up, a code is redeemed once, and after Close nothing
\* is left that could still store a token.
AuthSound == AuthTypeOK /\ NotStranded /\ CodeRedeemedOnce /\ AuthClosedIsQuiet
=============================================================================
