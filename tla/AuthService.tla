----------------------------- MODULE AuthService -----------------------------
(***************************************************************************)
(* Logging in, using a session and logging out: the handlers of             *)
(* internal/httpapi over auth.Limiter and auth.Manager.                      *)
(*                                                                         *)
(* Every operation reads the clock before it takes a lock, so an operation  *)
(* may run under the lock with a time older than that of the one before it. *)
(* The limiter's lock is held while credentials are verified; a critical    *)
(* section of the manager's lock is one step.  Credentials are right or     *)
(* wrong; a token stands for 32 random bytes, which never come twice.       *)
(***************************************************************************)
EXTENDS LoginLimiter

CONSTANTS
    Clients,     \* the requests in progress
    Tokens,      \* session tokens
    NoSession,   \* a token without session; no token
    SessionTTL,  \* lifetime of a session
    MaxTime      \* bound on the clock

ASSUME AuthAssumption ==
    /\ IsFiniteSet(Clients)
    /\ NoSession \notin Nat \cup Tokens \cup Clients
    /\ SessionTTL \in Nat \ {0}
    /\ MaxTime \in Nat

VARIABLES
    now,         \* the clock
    failures,    \* Limiter.failures
    limiterMu,   \* the client that holds the limiter's lock, or NoSession
    sessions,    \* Manager.sessions: when each token's session expires
    req,         \* req[c]: the request of client c
    expiry,      \* history: the expiry every token was issued with
    denied       \* history: tokens refused, or logged out, once

vars == <<now, failures, limiterMu, sessions, req, expiry, denied>>

LoginPcs == {"attempt", "verify", "prune", "issue", "insert", "failed", "succeeded"}

(* The steps of Attempt under the limiter's lock. *)
LockedPcs == LoginPcs \ {"attempt"}

ReqPcs == LoginPcs \cup {"idle", "validate", "serving", "logout"}

Req == [pc : ReqPcs, ip : IPs \cup {NoWindow}, right : BOOLEAN, logout : BOOLEAN,
        clock : Nat, managerClock : Nat, token : Tokens \cup {NoSession}]

IdleReq == [pc |-> "idle", ip |-> NoWindow, right |-> FALSE, logout |-> FALSE,
            clock |-> 0, managerClock |-> 0, token |-> NoSession]

Init ==
    /\ now = 0
    /\ failures = [ip \in IPs |-> NoWindow]
    /\ limiterMu = NoSession
    /\ sessions = [t \in Tokens |-> NoSession]
    /\ req = [c \in Clients |-> IdleReq]
    /\ expiry = [t \in Tokens |-> NoSession]
    /\ denied = {}

Issued == {t \in Tokens : expiry[t] /= NoSession}

(* The tokens whose cookie has reached a browser. *)
Delivered == Issued \ {req[c].token : c \in {d \in Clients : req[d].pc \in LoginPcs}}

(* Manager.pruneExpired *)
PruneSessions(table, time) ==
    [t \in Tokens |-> IF table[t] /= NoSession /\ time >= table[t] THEN NoSession ELSE table[t]]

-----------------------------------------------------------------------------
(* login, Limiter.Attempt, Manager.Login *)

BeginLogin(c, ip, right) ==
    /\ req[c].pc = "idle"
    /\ req' = [req EXCEPT ![c] = [IdleReq EXCEPT !.pc = "attempt", !.ip = ip,
                                                 !.right = right, !.clock = now]]
    /\ UNCHANGED <<now, failures, limiterMu, sessions, expiry, denied>>

(* Mutant: the lock is not released when the attempt is refused. *)
RefuseLocked(c) ==
    LET pruned == PruneFailures(failures, req[c].clock)
    IN  /\ req[c].pc = "attempt"
        /\ limiterMu = NoSession
        /\ Refused(pruned, req[c].ip)
        /\ limiterMu' = c
        /\ failures' = pruned
        /\ req' = [req EXCEPT ![c] = IdleReq]
        /\ UNCHANGED <<now, sessions, expiry, denied>>

(* The limit is reached: 429. *)
Refuse(c) ==
    LET pruned == PruneFailures(failures, req[c].clock)
    IN  /\ req[c].pc = "attempt"
        /\ limiterMu = NoSession
        /\ Refused(pruned, req[c].ip)
        /\ failures' = pruned
        /\ req' = [req EXCEPT ![c] = IdleReq]
        /\ UNCHANGED <<now, limiterMu, sessions, expiry, denied>>

(* Mutant: the limit is checked, and the lock released before the verification. *)
EnterUnlocked(c) ==
    LET pruned == PruneFailures(failures, req[c].clock)
    IN  /\ req[c].pc = "attempt"
        /\ limiterMu = NoSession
        /\ ~Refused(pruned, req[c].ip)
        /\ failures' = pruned
        /\ req' = [req EXCEPT ![c] = [@ EXCEPT !.pc = "verify"]]
        /\ UNCHANGED <<now, limiterMu, sessions, expiry, denied>>

(* The attempt is allowed; the lock is kept. *)
Enter(c) ==
    LET pruned == PruneFailures(failures, req[c].clock)
    IN  /\ req[c].pc = "attempt"
        /\ limiterMu = NoSession
        /\ ~Refused(pruned, req[c].ip)
        /\ limiterMu' = c
        /\ failures' = pruned
        /\ req' = [req EXCEPT ![c] = [@ EXCEPT !.pc = "verify"]]
        /\ UNCHANGED <<now, sessions, expiry, denied>>

VerifyClock(c) ==
    /\ req[c].pc = "verify"
    /\ req' = [req EXCEPT ![c] = [@ EXCEPT !.pc = "prune", !.managerClock = now]]
    /\ UNCHANGED <<now, failures, limiterMu, sessions, expiry, denied>>

(* Expired sessions go at every login, even at one that fails. *)
VerifyPrune(c) ==
    /\ req[c].pc = "prune"
    /\ sessions' = PruneSessions(sessions, req[c].managerClock)
    /\ req' = [req EXCEPT ![c] = [@ EXCEPT !.pc = IF req[c].right THEN "issue" ELSE "failed"]]
    /\ UNCHANGED <<now, failures, limiterMu, expiry, denied>>

(* Random bytes, and the clock again for the expiry. *)
IssueToken(c, t) ==
    /\ req[c].pc = "issue"
    /\ t \notin Issued
    /\ \A d \in Clients : req[d].token /= t
    /\ req' = [req EXCEPT ![c] = [@ EXCEPT !.pc = "insert", !.token = t,
                                              !.managerClock = now]]
    /\ UNCHANGED <<now, failures, limiterMu, sessions, expiry, denied>>

(* No random bytes: the login fails, whatever the credentials. *)
IssueFails(c) ==
    /\ req[c].pc = "issue"
    /\ req' = [req EXCEPT ![c] = [@ EXCEPT !.pc = "failed"]]
    /\ UNCHANGED <<now, failures, limiterMu, sessions, expiry, denied>>

Insert(c) ==
    LET t == req[c].token
        expiresAt == req[c].managerClock + SessionTTL
    IN  /\ req[c].pc = "insert"
        /\ sessions' = [PruneSessions(sessions, req[c].managerClock) EXCEPT ![t] = expiresAt]
        /\ expiry' = [expiry EXCEPT ![t] = expiresAt]
        /\ req' = [req EXCEPT ![c] = [@ EXCEPT !.pc = "succeeded"]]
        /\ UNCHANGED <<now, failures, limiterMu, denied>>

(* Wrong, or without random bytes: 401, with the time read before the lock. *)
LoginFails(c) ==
    /\ req[c].pc = "failed"
    /\ failures' \in FailureRecorded(failures, req[c].ip, req[c].clock)
    /\ limiterMu' = NoSession
    /\ req' = [req EXCEPT ![c] = IdleReq]
    /\ UNCHANGED <<now, sessions, expiry, denied>>

(* The failures of the address are forgotten; the cookie is set. *)
LoginSucceeds(c) ==
    /\ req[c].pc = "succeeded"
    /\ failures' = [failures EXCEPT ![req[c].ip] = NoWindow]
    /\ limiterMu' = NoSession
    /\ req' = [req EXCEPT ![c] = IdleReq]
    /\ UNCHANGED <<now, sessions, expiry, denied>>

-----------------------------------------------------------------------------
(* requireAuthentication, Manager.Validate, logout *)

(* A request for a page, or to log out; Validate reads the clock. *)
BeginProtected(c, t, logout) ==
    /\ req[c].pc = "idle"
    /\ t \in Delivered
    /\ req' = [req EXCEPT ![c] = [IdleReq EXCEPT !.pc = "validate", !.token = t,
                                                 !.logout = logout, !.clock = now]]
    /\ UNCHANGED <<now, failures, limiterMu, sessions, expiry, denied>>

(* Mutant: the token's own expiry is compared, and nothing is removed. *)
ValidateOnly(c) ==
    LET t == req[c].token
        ok == sessions[t] /= NoSession /\ req[c].clock < sessions[t]
    IN  /\ req[c].pc = "validate"
        /\ req' = [req EXCEPT ![c] =
                      IF ok THEN [@ EXCEPT !.pc = IF req[c].logout THEN "logout" ELSE "serving"]
                      ELSE IdleReq]
        /\ denied' = IF ok THEN denied ELSE denied \cup {t}
        /\ UNCHANGED <<now, failures, limiterMu, sessions, expiry>>

Validate(c) ==
    LET t == req[c].token
        pruned == PruneSessions(sessions, req[c].clock)
        ok == pruned[t] /= NoSession
    IN  /\ req[c].pc = "validate"
        /\ sessions' = pruned
        /\ req' = [req EXCEPT ![c] =
                      IF ok THEN [@ EXCEPT !.pc = IF req[c].logout THEN "logout" ELSE "serving"]
                      ELSE IdleReq]
        /\ denied' = IF ok THEN denied ELSE denied \cup {t}
        /\ UNCHANGED <<now, failures, limiterMu, expiry>>

(* The page is sent. *)
Serve(c) ==
    /\ req[c].pc = "serving"
    /\ req' = [req EXCEPT ![c] = IdleReq]
    /\ UNCHANGED <<now, failures, limiterMu, sessions, expiry, denied>>

(* Mutant: all sessions of the one account end. *)
LogoutAll(c) ==
    /\ req[c].pc = "logout"
    /\ sessions' = [t \in Tokens |-> NoSession]
    /\ denied' = denied \cup {req[c].token}
    /\ req' = [req EXCEPT ![c] = IdleReq]
    /\ UNCHANGED <<now, failures, limiterMu, expiry>>

(* Manager.Logout; the session may be gone already. *)
Logout(c) ==
    /\ req[c].pc = "logout"
    /\ sessions' = [sessions EXCEPT ![req[c].token] = NoSession]
    /\ denied' = denied \cup {req[c].token}
    /\ req' = [req EXCEPT ![c] = IdleReq]
    /\ UNCHANGED <<now, failures, limiterMu, expiry>>

Tick ==
    /\ now < MaxTime
    /\ now' = now + 1
    /\ UNCHANGED <<failures, limiterMu, sessions, req, expiry, denied>>

Attempting(c) == Refuse(c) \/ Enter(c)

Finish(c) == LoginFails(c) \/ LoginSucceeds(c)

Proceed(c) ==
    \/ VerifyClock(c) \/ VerifyPrune(c) \/ IssueFails(c) \/ Insert(c)
    \/ \E t \in Tokens : IssueToken(c, t)
    \/ Finish(c) \/ Validate(c) \/ Serve(c) \/ Logout(c)

Next ==
    \/ \E c \in Clients :
          \/ \E ip \in IPs, right \in BOOLEAN : BeginLogin(c, ip, right)
          \/ Attempting(c)
          \/ Proceed(c)
          \/ \E t \in Tokens, logout \in BOOLEAN : BeginProtected(c, t, logout)
    \/ Tick

Spec == Init /\ [][Next]_vars

(* A goroutine runs on unless it waits for a lock, and a sync.Mutex starves nobody. *)
Fairness == \A c \in Clients : WF_vars(Proceed(c)) /\ SF_vars(Attempting(c))

FairSpec == Spec /\ Fairness

-----------------------------------------------------------------------------
(* Properties *)

(* Every variable keeps its type. *)
TypeOK ==
    /\ now \in Nat
    /\ failures \in [IPs -> FailureWindow \cup {NoWindow}]
    /\ limiterMu \in Clients \cup {NoSession}
    /\ sessions \in [Tokens -> Nat \cup {NoSession}]
    /\ req \in [Clients -> Req]
    /\ expiry \in [Tokens -> Nat \cup {NoSession}]
    /\ denied \subseteq Tokens

Verifying(ip) == {c \in Clients : req[c].pc \in LockedPcs /\ req[c].ip = ip}

FailureCount(ip) == IF failures[ip] = NoWindow THEN 0 ELSE failures[ip].count

(* Attempts that race do not share the last try of an address: those under   *)
(* verification and the failures counted never exceed the limit (Attempt).   *)
TriesBounded == \A ip \in IPs : Cardinality(Verifying(ip)) + FailureCount(ip) <= Limit

(* The table of failures never outgrows its capacity (ensureCapacity). *)
CapacityKept == Cardinality(Tracked(failures)) <= Capacity

(***************************************************************************)
(* Failures are forgotten only when their window is over, when the address  *)
(* logs in, or when no failure the table keeps is older and another address *)
(* takes the place.  Late clock readings forgive nobody early.              *)
(***************************************************************************)
NotForgivenEarly ==
    [][\A ip \in IPs :
         (failures[ip] /= NoWindow /\ failures'[ip] = NoWindow) =>
            \/ now - failures[ip].startedAt >= Window
            \/ \E c \in Clients : req[c].pc = "succeeded" /\ req[c].ip = ip /\ req'[c].pc = "idle"
            \/ /\ \E other \in Tracked(failures') : other \notin Tracked(failures)
               /\ \A other \in Tracked(failures) \cap Tracked(failures') :
                     failures[ip].startedAt <= failures[other].startedAt]_vars

(***************************************************************************)
(* A token once refused, or logged out, is never accepted again, even by a  *)
(* Validate that read the clock before the refusal (Validate prunes under   *)
(* the lock and looks up what is left).                                     *)
(***************************************************************************)
DeniedStaysDenied ==
    [][\A c \in Clients :
         req[c].pc = "validate" /\ req'[c].pc \in {"serving", "logout"} =>
            req[c].token \notin denied]_vars

(* A session is usable until it expires or is logged out: neither the end of *)
(* another session nor a failed login takes it away (pruneExpired, Logout).  *)
LiveSessionsKept ==
    [][\A t \in denied' \ denied :
         \/ now >= expiry[t]
         \/ \E c \in Clients : req[c].pc = "logout" /\ req[c].token = t]_vars

(* Requests that share the limiter's lock all get their answer. *)
RequestsReturn == \A c \in Clients : req[c].pc /= "idle" ~> req[c].pc = "idle"
=============================================================================
