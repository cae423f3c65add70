-------------------------- MODULE AuthServiceProofs --------------------------
(***************************************************************************)
(* For any number of clients, tokens and addresses: what AuthService says   *)
(* of tries and of sessions.  Tries are bounded because the lock has one    *)
(* holder (LockHeld) and nobody touches the failures of the address under   *)
(* verification meanwhile (Headroom).  Refused tokens stay refused because  *)
(* a refusal leaves no session behind (SessionsTrue), which late clock      *)
(* readings cannot undo, for they are never ahead of the clock (ClocksPast).*)
(***************************************************************************)
EXTENDS AuthService, FiniteSetTheorems, TLAPS

LockHeld == \A c \in Clients : req[c].pc \in LockedPcs => limiterMu = c

Headroom ==
    \A c \in Clients : req[c].pc \in LockedPcs =>
        /\ req[c].ip \in IPs
        /\ FailureCount(req[c].ip) < Limit

Addressed == \A c \in Clients : req[c].pc \in LoginPcs => req[c].ip \in IPs

ClocksPast == \A c \in Clients : req[c].clock <= now /\ req[c].managerClock <= now

(* The one login about to insert a session has a token nobody was given. *)
TokensNew ==
    \A c \in Clients : req[c].pc = "insert" => req[c].token \in Tokens \ Issued

TokensIssued ==
    \A c \in Clients : req[c].pc \in {"validate", "serving", "logout"} => req[c].token \in Issued

(* A session is there with the expiry it was issued with, or it is gone: *)
(* expired, or its token has been denied.                                *)
SessionsTrue ==
    /\ denied \subseteq Issued
    /\ \A t \in Tokens :
          /\ sessions[t] \in {NoSession, expiry[t]}
          /\ sessions[t] /= NoSession => t \notin denied
          /\ t \in Issued /\ sessions[t] = NoSession => t \in denied \/ now >= expiry[t]

IInv ==
    /\ TypeOK
    /\ LockHeld
    /\ Addressed
    /\ Headroom
    /\ ClocksPast
    /\ TokensNew
    /\ TokensIssued
    /\ SessionsTrue

-----------------------------------------------------------------------------
(* The operators on the tables *)

Failures == [IPs -> FailureWindow \cup {NoWindow}]

(* Pruning keeps the type, and forgets or keeps each address as it is. *)
LEMMA PruneFailuresType ==
    ASSUME NEW table \in Failures, NEW time \in Nat
    PROVE  /\ PruneFailures(table, time) \in Failures
           /\ \A ip \in IPs : PruneFailures(table, time)[ip] \in {table[ip], NoWindow}
BY DEF PruneFailures, Failures

(* A recorded failure keeps the type: no count passes the limit. *)
LEMMA FailureRecordedType ==
    ASSUME NEW table \in Failures, NEW ip \in IPs, NEW time \in Nat,
           NEW after \in FailureRecorded(table, ip, time)
    PROVE  after \in Failures
<1> USE LimiterAssumption
<1>1. CASE table[ip] = NoWindow
  <2>1. PICK room \in EnsureCapacity(table) :
            after = [room EXCEPT ![ip] = [startedAt |-> time, count |-> 1]]
      BY <1>1 DEF FailureRecorded
  <2>2. room \in Failures
      BY <2>1 DEF EnsureCapacity, Failures, OldestWindows, Tracked
  <2>3. [startedAt |-> time, count |-> 1] \in FailureWindow
      BY DEF FailureWindow
  <2> QED
      BY <2>1, <2>2, <2>3 DEF Failures
<1>2. CASE table[ip] /= NoWindow /\ table[ip].count >= Limit
    BY <1>2 DEF FailureRecorded
<1>3. CASE table[ip] /= NoWindow /\ ~(table[ip].count >= Limit)
  <2>1. table[ip] \in FailureWindow /\ after = [table EXCEPT ![ip].count = @ + 1]
      BY <1>3 DEF FailureRecorded, Failures
  <2>2. [table[ip] EXCEPT !.count = @ + 1] \in FailureWindow
      BY <1>3, <2>1 DEF FailureWindow
  <2> QED
      BY <2>1, <2>2 DEF Failures
<1> QED
    BY <1>1, <1>2, <1>3

(* Pruning keeps a session, or drops it because its time is over. *)
LEMMA PruneSessionsKeeps ==
    ASSUME NEW table \in [Tokens -> Nat \cup {NoSession}], NEW time \in Nat
    PROVE  /\ PruneSessions(table, time) \in [Tokens -> Nat \cup {NoSession}]
           /\ \A t \in Tokens :
                 \/ PruneSessions(table, time)[t] = table[t]
                 \/ /\ PruneSessions(table, time)[t] = NoSession
                    /\ table[t] \in Nat
                    /\ time >= table[t]
BY DEF PruneSessions

LEMMA IdleReqType == IdleReq \in Req
BY DEF IdleReq, Req, ReqPcs, LoginPcs

-----------------------------------------------------------------------------
LEMMA InitIInv == Init => IInv
<1> USE AuthAssumption, LimiterAssumption
<1> SUFFICES ASSUME Init PROVE IInv
    OBVIOUS
<1>1. TypeOK
    BY IdleReqType DEF Init, TypeOK
<1>2. \A c \in Clients : req[c] = IdleReq
    BY DEF Init
<1>3. LockHeld /\ Addressed /\ Headroom /\ TokensNew /\ TokensIssued
    BY <1>2 DEF LockHeld, Addressed, Headroom, TokensNew, TokensIssued, IdleReq, LockedPcs, LoginPcs
<1>4. ClocksPast
    BY <1>2 DEF Init, ClocksPast, IdleReq
<1>5. SessionsTrue
    BY DEF Init, SessionsTrue, Issued
<1> QED
    BY <1>1, <1>3, <1>4, <1>5 DEF IInv

(***************************************************************************)
(* Steps that leave all but requests alone, and put c's request at r.       *)
(***************************************************************************)
RequestMoves(c, r) ==
    /\ req' = [req EXCEPT ![c] = r]
    /\ UNCHANGED <<now, failures, limiterMu, sessions, expiry, denied>>

(* What such a step has to respect. *)
LEMMA RequestStep ==
    ASSUME IInv, NEW c \in Clients, NEW r \in Req, RequestMoves(c, r),
           r.pc \in LockedPcs => limiterMu = c /\ r.ip \in IPs /\ FailureCount(r.ip) < Limit,
           r.pc \in LoginPcs => r.ip \in IPs,
           r.clock <= now, r.managerClock <= now,
           r.pc = "insert" => r.token \in Tokens \ Issued,
           r.pc \in {"validate", "serving", "logout"} => r.token \in Issued
    PROVE  IInv'
<1>1. /\ req'[c] = r /\ req' \in [Clients -> Req]
      /\ \A d \in Clients \ {c} : req'[d] = req[d]
      /\ UNCHANGED <<now, failures, limiterMu, sessions, expiry, denied>>
    BY DEF RequestMoves, IInv, TypeOK
<1>2. TypeOK'
    BY <1>1 DEF IInv, TypeOK
<1>3. LockHeld' /\ Addressed'
    BY <1>1 DEF IInv, LockHeld, Addressed
<1>4. \A ip : FailureCount(ip)' = FailureCount(ip)
    BY <1>1 DEF FailureCount
<1>5. Headroom'
    BY <1>1, <1>4 DEF IInv, Headroom, FailureCount
<1>6. ClocksPast'
    BY <1>1 DEF IInv, ClocksPast
<1>7. Issued' = Issued
    BY <1>1 DEF Issued
<1>8. TokensNew' /\ TokensIssued'
    BY <1>1, <1>7 DEF IInv, TokensNew, TokensIssued
<1>9. SessionsTrue'
    BY <1>1, <1>7 DEF IInv, SessionsTrue
<1> QED
    BY <1>2, <1>3, <1>5, <1>6, <1>8, <1>9 DEF IInv

-----------------------------------------------------------------------------
(* The steps that move a request and nothing else. *)
LEMMA QuietSteps ==
    ASSUME IInv, NEW c \in Clients,
           \/ \E ip \in IPs, right \in BOOLEAN : BeginLogin(c, ip, right)
           \/ VerifyClock(c)
           \/ \E t \in Tokens : IssueToken(c, t)
           \/ IssueFails(c)
           \/ \E t \in Tokens, logout \in BOOLEAN : BeginProtected(c, t, logout)
           \/ Serve(c)
    PROVE  IInv'
<1> USE AuthAssumption, LimiterAssumption
<1>0. now \in Nat /\ req[c] \in Req /\ req[c].clock <= now /\ req[c].managerClock <= now
    BY DEF IInv, TypeOK, ClocksPast
<1>1. ASSUME NEW ip \in IPs, NEW right \in BOOLEAN, BeginLogin(c, ip, right) PROVE IInv'
  <2> DEFINE r == [IdleReq EXCEPT !.pc = "attempt", !.ip = ip, !.right = right, !.clock = now]
  <2>1. r \in Req /\ r.pc = "attempt" /\ r.ip = ip /\ r.clock = now /\ r.managerClock = 0
      BY <1>0 DEF Req, IdleReq, ReqPcs, LoginPcs
  <2>2. RequestMoves(c, r)
      BY <1>1 DEF BeginLogin, RequestMoves
  <2> HIDE DEF r
  <2> QED
      BY <1>0, <2>1, <2>2, RequestStep DEF LockedPcs, LoginPcs
<1>2. ASSUME VerifyClock(c) PROVE IInv'
  <2> DEFINE r == [req[c] EXCEPT !.pc = "prune", !.managerClock = now]
  <2>1. /\ r \in Req /\ r.pc = "prune" /\ r.ip = req[c].ip /\ r.clock = req[c].clock
        /\ r.managerClock = now
      BY <1>0 DEF Req, ReqPcs, LoginPcs
  <2>2. RequestMoves(c, r) /\ req[c].pc \in LockedPcs
      BY <1>2 DEF VerifyClock, RequestMoves, LockedPcs, LoginPcs
  <2>3. limiterMu = c /\ r.ip \in IPs /\ FailureCount(r.ip) < Limit
      BY <2>1, <2>2 DEF IInv, LockHeld, Headroom
  <2> HIDE DEF r
  <2> QED
      BY <1>0, <2>1, <2>2, <2>3, RequestStep
<1>3. ASSUME NEW t \in Tokens, IssueToken(c, t) PROVE IInv'
  <2> DEFINE r == [req[c] EXCEPT !.pc = "insert", !.token = t, !.managerClock = now]
  <2>1. /\ r \in Req /\ r.pc = "insert" /\ r.ip = req[c].ip /\ r.clock = req[c].clock
        /\ r.managerClock = now /\ r.token = t
      BY <1>0 DEF Req, ReqPcs, LoginPcs
  <2>2. RequestMoves(c, r) /\ req[c].pc \in LockedPcs /\ t \notin Issued
      BY <1>3 DEF IssueToken, RequestMoves, LockedPcs, LoginPcs
  <2>3. limiterMu = c /\ r.ip \in IPs /\ FailureCount(r.ip) < Limit
      BY <2>1, <2>2 DEF IInv, LockHeld, Headroom
  <2> HIDE DEF r
  <2> QED
      BY <1>0, <2>1, <2>2, <2>3, RequestStep
<1>4. ASSUME IssueFails(c) PROVE IInv'
  <2> DEFINE r == [req[c] EXCEPT !.pc = "failed"]
  <2>1. /\ r \in Req /\ r.pc = "failed" /\ r.ip = req[c].ip /\ r.clock = req[c].clock
        /\ r.managerClock = req[c].managerClock
      BY <1>0 DEF Req, ReqPcs, LoginPcs
  <2>2. RequestMoves(c, r) /\ req[c].pc \in LockedPcs
      BY <1>4 DEF IssueFails, RequestMoves, LockedPcs, LoginPcs
  <2>3. limiterMu = c /\ r.ip \in IPs /\ FailureCount(r.ip) < Limit
      BY <2>1, <2>2 DEF IInv, LockHeld, Headroom
  <2> QED
      BY <1>0, <2>1, <2>2, <2>3, RequestStep
<1>5. ASSUME NEW t \in Tokens, NEW logout \in BOOLEAN, BeginProtected(c, t, logout) PROVE IInv'
  <2> DEFINE r == [IdleReq EXCEPT !.pc = "validate", !.token = t, !.logout = logout, !.clock = now]
  <2>1. r \in Req /\ r.pc = "validate" /\ r.token = t /\ r.clock = now /\ r.managerClock = 0
      BY <1>0 DEF Req, IdleReq, ReqPcs, LoginPcs
  <2>2. RequestMoves(c, r) /\ t \in Issued
      BY <1>5 DEF BeginProtected, RequestMoves, Delivered
  <2> HIDE DEF r
  <2> QED
      BY <1>0, <2>1, <2>2, RequestStep DEF LockedPcs, LoginPcs
<1>6. ASSUME Serve(c) PROVE IInv'
  <2>1. RequestMoves(c, IdleReq) /\ IdleReq.pc = "idle" /\ IdleReq.clock = 0 /\ IdleReq.managerClock = 0
      BY <1>6 DEF Serve, RequestMoves, IdleReq
  <2> QED
      BY <1>0, <2>1, IdleReqType, RequestStep DEF LockedPcs, LoginPcs
<1> QED
    BY <1>1, <1>2, <1>3, <1>4, <1>5, <1>6

(***************************************************************************)
(* Steps of the limiter: c's request moves to r, the failures to table, the *)
(* lock to holder.                                                          *)
(***************************************************************************)
LimiterMoves(c, r, table, holder) ==
    /\ req' = [req EXCEPT ![c] = r]
    /\ failures' = table
    /\ limiterMu' = holder
    /\ UNCHANGED <<now, sessions, expiry, denied>>

(* Only a holder of the lock, or one who finds it free, may take such a step. *)
LEMMA LimiterStep ==
    ASSUME IInv, NEW c \in Clients, NEW r \in Req, NEW table \in Failures,
           NEW holder \in Clients \cup {NoSession}, LimiterMoves(c, r, table, holder),
           limiterMu \in {NoSession, c},
           r.pc \in {"idle", "verify"},
           r.pc = "verify" => /\ holder = c /\ r.ip \in IPs
                              /\ ~Refused(table, r.ip),
           r.clock <= now, r.managerClock <= now
    PROVE  IInv'
<1> USE AuthAssumption, LimiterAssumption
<1>1. /\ req'[c] = r /\ req' \in [Clients -> Req]
      /\ \A d \in Clients \ {c} : req'[d] = req[d]
      /\ UNCHANGED <<now, sessions, expiry, denied>>
    BY DEF LimiterMoves, IInv, TypeOK
<1>2. TypeOK'
    BY <1>1 DEF IInv, TypeOK, LimiterMoves, Failures
<1>3. \A d \in Clients \ {c} : req[d].pc \notin LockedPcs
    BY DEF IInv, LockHeld
<1>4. LockHeld'
    BY <1>1, <1>3 DEF LockHeld, LimiterMoves, LockedPcs, LoginPcs
<1>5. Addressed'
    BY <1>1 DEF IInv, Addressed, LoginPcs
<1>6. ASSUME r.pc = "verify" PROVE FailureCount(r.ip)' < Limit
    BY <1>6 DEF FailureCount, Refused, LimiterMoves, Failures, FailureWindow
<1>7. Headroom'
    BY <1>1, <1>3, <1>6 DEF Headroom, LockedPcs, LoginPcs
<1>8. ClocksPast'
    BY <1>1 DEF IInv, ClocksPast
<1>9. Issued' = Issued
    BY <1>1 DEF Issued
<1>10. TokensNew' /\ TokensIssued'
    BY <1>1, <1>9 DEF IInv, TokensNew, TokensIssued
<1>11. SessionsTrue'
    BY <1>1, <1>9 DEF IInv, SessionsTrue
<1> QED
    BY <1>2, <1>4, <1>5, <1>7, <1>8, <1>10, <1>11 DEF IInv

(* Refused, let in, failed or succeeded. *)
LEMMA LimiterSteps ==
    ASSUME IInv, NEW c \in Clients, Refuse(c) \/ Enter(c) \/ LoginFails(c) \/ LoginSucceeds(c)
    PROVE  IInv'
<1> USE AuthAssumption, LimiterAssumption
<1>0. /\ now \in Nat /\ req[c] \in Req /\ req[c].clock <= now /\ req[c].managerClock <= now
      /\ req[c].clock \in Nat /\ failures \in Failures
    BY DEF IInv, TypeOK, ClocksPast, Req, Failures
<1>1. IdleReq.pc = "idle" /\ IdleReq.clock = 0 /\ IdleReq.managerClock = 0
    BY DEF IdleReq
<1>2. PruneFailures(failures, req[c].clock) \in Failures
    BY <1>0, PruneFailuresType
<1>3. ASSUME Refuse(c) PROVE IInv'
  <2>1. /\ LimiterMoves(c, IdleReq, PruneFailures(failures, req[c].clock), NoSession)
        /\ limiterMu = NoSession
      BY <1>3 DEF Refuse, LimiterMoves
  <2> QED
      BY <1>0, <1>1, <1>2, <2>1, IdleReqType, LimiterStep
<1>4. ASSUME Enter(c) PROVE IInv'
  <2> DEFINE r == [req[c] EXCEPT !.pc = "verify"]
  <2>1. /\ r \in Req /\ r.pc = "verify" /\ r.ip = req[c].ip /\ r.clock = req[c].clock
        /\ r.managerClock = req[c].managerClock
      BY <1>0 DEF Req, ReqPcs, LoginPcs
  <2>2. /\ LimiterMoves(c, r, PruneFailures(failures, req[c].clock), c)
        /\ limiterMu = NoSession
        /\ ~Refused(PruneFailures(failures, req[c].clock), r.ip)
      BY <1>4, <2>1 DEF Enter, LimiterMoves
  <2>3. r.ip \in IPs
      BY <1>4, <2>1 DEF Enter, IInv, Addressed, LoginPcs
  <2> QED
      BY <1>0, <1>2, <2>1, <2>2, <2>3, LimiterStep
<1>5. ASSUME LoginFails(c) \/ LoginSucceeds(c) PROVE IInv'
  <2>1. limiterMu = c /\ req[c].ip \in IPs
      BY <1>5 DEF LoginFails, LoginSucceeds, IInv, LockHeld, Headroom, LockedPcs, LoginPcs
  <2>2. failures' \in Failures
    <3>1. CASE LoginFails(c)
        BY <1>0, <2>1, <3>1, FailureRecordedType DEF LoginFails
    <3>2. CASE LoginSucceeds(c)
        BY <1>0, <2>1, <3>2 DEF LoginSucceeds, Failures
    <3> QED
        BY <1>5, <3>1, <3>2
  <2>3. LimiterMoves(c, IdleReq, failures', NoSession)
      BY <1>5 DEF LoginFails, LoginSucceeds, LimiterMoves
  <2> QED
      BY <1>0, <1>1, <2>1, <2>2, <2>3, IdleReqType, LimiterStep
<1> QED
    BY <1>3, <1>4, <1>5

(***************************************************************************)
(* Steps of the manager on the sessions there are: c's request moves to r,  *)
(* sessions are dropped when due or when their token is denied.             *)
(***************************************************************************)
SessionMoves(c, r) ==
    /\ req' = [req EXCEPT ![c] = r]
    /\ sessions' \in [Tokens -> Nat \cup {NoSession}]
    /\ denied \subseteq denied' /\ denied' \subseteq Issued
    /\ \A t \in Tokens :
          \/ sessions'[t] = sessions[t] /\ (sessions[t] /= NoSession => t \notin denied')
          \/ sessions'[t] = NoSession /\ (t \in denied' \/ now >= expiry[t])
    /\ UNCHANGED <<now, failures, limiterMu, expiry>>

LEMMA SessionStep ==
    ASSUME IInv, NEW c \in Clients, NEW r \in Req, SessionMoves(c, r),
           r.pc \in LockedPcs =>
              req[c].pc \in LockedPcs /\ r.ip = req[c].ip,
           r.pc \in LoginPcs => r.pc \in LockedPcs /\ r.pc /= "insert",
           r.clock <= now, r.managerClock <= now,
           r.pc \in {"validate", "serving", "logout"} => r.token \in Issued
    PROVE  IInv'
<1> USE AuthAssumption
<1>1. /\ req'[c] = r /\ req' \in [Clients -> Req]
      /\ \A d \in Clients \ {c} : req'[d] = req[d]
      /\ UNCHANGED <<now, failures, limiterMu, expiry>>
    BY DEF SessionMoves, IInv, TypeOK
<1>2. TypeOK'
    BY <1>1 DEF IInv, TypeOK, SessionMoves, Issued
<1>3. r.pc \in LockedPcs => limiterMu = c /\ r.ip \in IPs /\ FailureCount(r.ip) < Limit
    BY DEF IInv, LockHeld, Headroom
<1>4. LockHeld' /\ Addressed'
    BY <1>1, <1>3 DEF IInv, LockHeld, Addressed
<1>5. Headroom'
    BY <1>1, <1>3 DEF IInv, Headroom, FailureCount
<1>6. ClocksPast'
    BY <1>1 DEF IInv, ClocksPast
<1>7. Issued' = Issued
    BY <1>1 DEF Issued
<1>8. r.pc /= "insert"
    BY DEF LoginPcs
<1>9. TokensNew' /\ TokensIssued'
    BY <1>1, <1>7, <1>8 DEF IInv, TokensNew, TokensIssued
<1>10. SessionsTrue'
  <2>1. denied' \subseteq Issued'
      BY <1>7 DEF SessionMoves
  <2>2. ASSUME NEW t \in Tokens
        PROVE  /\ sessions'[t] \in {NoSession, expiry'[t]}
               /\ sessions'[t] /= NoSession => t \notin denied'
               /\ t \in Issued' /\ sessions'[t] = NoSession => t \in denied' \/ now' >= expiry'[t]
      BY <1>1, <1>7 DEF SessionMoves, IInv, SessionsTrue
  <2> QED
      BY <2>1, <2>2 DEF SessionsTrue
<1> QED
    BY <1>2, <1>4, <1>5, <1>6, <1>9, <1>10 DEF IInv

(* A session pruned at a clock reading is over by now. *)
LEMMA PrunedIsOver ==
    ASSUME IInv, NEW time \in Nat, time <= now, NEW t \in Tokens
    PROVE  \/ PruneSessions(sessions, time)[t] = sessions[t]
           \/ PruneSessions(sessions, time)[t] = NoSession /\ now >= expiry[t]
<1> USE AuthAssumption
<1>1. sessions \in [Tokens -> Nat \cup {NoSession}] /\ now \in Nat
    BY DEF IInv, TypeOK
<1>2. sessions[t] \in Nat => sessions[t] = expiry[t]
    BY DEF IInv, SessionsTrue
<1> QED
    BY <1>1, <1>2, PruneSessionsKeeps

(* The manager's critical sections, but for a new session. *)
LEMMA SessionSteps ==
    ASSUME IInv, NEW c \in Clients, VerifyPrune(c) \/ Validate(c) \/ Logout(c)
    PROVE  IInv'
<1> USE AuthAssumption
<1>0. /\ now \in Nat /\ req[c] \in Req /\ req[c].clock <= now /\ req[c].managerClock <= now
      /\ req[c].clock \in Nat /\ req[c].managerClock \in Nat
      /\ sessions \in [Tokens -> Nat \cup {NoSession}]
      /\ denied \subseteq Issued
    BY DEF IInv, TypeOK, ClocksPast, Req, SessionsTrue
<1>1. \A t \in Tokens : sessions[t] /= NoSession => t \notin denied
    BY DEF IInv, SessionsTrue
<1>2. /\ IdleReq.pc = "idle" /\ IdleReq.clock = 0 /\ IdleReq.managerClock = 0
      /\ "idle" \notin LoginPcs /\ "idle" \notin LockedPcs
    BY DEF IdleReq, LoginPcs, LockedPcs
<1>3. ASSUME VerifyPrune(c) PROVE IInv'
  <2> DEFINE r == [req[c] EXCEPT !.pc = IF req[c].right THEN "issue" ELSE "failed"]
  <2>1. /\ r \in Req /\ r.pc \in {"issue", "failed"} /\ r.ip = req[c].ip /\ r.clock = req[c].clock
        /\ r.managerClock = req[c].managerClock /\ req[c].pc = "prune"
      BY <1>0, <1>3 DEF VerifyPrune, Req, ReqPcs, LoginPcs
  <2>2. SessionMoves(c, r)
      BY <1>0, <1>1, <1>3, PruneSessionsKeeps, PrunedIsOver DEF VerifyPrune, SessionMoves
  <2> HIDE DEF r
  <2> QED
      BY <1>0, <2>1, <2>2, SessionStep DEF LoginPcs, LockedPcs
<1>4. ASSUME Logout(c) PROVE IInv'
  <2>1. req[c].token \in Issued
      BY <1>4 DEF Logout, IInv, TokensIssued
  <2>2. SessionMoves(c, IdleReq)
      BY <1>0, <1>1, <1>4, <2>1 DEF Logout, SessionMoves, Issued
  <2> QED
      BY <1>0, <1>2, <2>2, IdleReqType, SessionStep
<1>5. ASSUME Validate(c) PROVE IInv'
  <2> DEFINE t == req[c].token
             pruned == PruneSessions(sessions, req[c].clock)
             r == [req[c] EXCEPT !.pc = IF req[c].logout THEN "logout" ELSE "serving"]
  <2>1. t \in Issued /\ t \in Tokens
      BY <1>5 DEF Validate, IInv, TokensIssued, Issued
  <2>2. /\ pruned \in [Tokens -> Nat \cup {NoSession}]
        /\ \A u \in Tokens : \/ pruned[u] = sessions[u]
                             \/ pruned[u] = NoSession /\ now >= expiry[u]
      BY <1>0, PruneSessionsKeeps, PrunedIsOver
  <2>3. CASE pruned[t] /= NoSession
    <3>1. /\ r \in Req /\ r.pc \in {"logout", "serving"} /\ r.clock = req[c].clock
          /\ r.managerClock = req[c].managerClock /\ r.token = t
        BY <1>0 DEF Req, ReqPcs, LoginPcs
    <3>2. /\ sessions' = pruned /\ denied' = denied /\ req' = [req EXCEPT ![c] = r]
          /\ UNCHANGED <<now, failures, limiterMu, expiry>>
        BY <1>5, <2>3 DEF Validate
    <3>3. SessionMoves(c, r)
        BY <1>0, <1>1, <2>2, <3>2 DEF SessionMoves
    <3> HIDE DEF r
    <3> QED
        BY <1>0, <2>1, <3>1, <3>3, SessionStep DEF LoginPcs, LockedPcs
  <2>4. CASE pruned[t] = NoSession
    <3>1. /\ sessions' = pruned /\ denied' = denied \cup {t} /\ req' = [req EXCEPT ![c] = IdleReq]
          /\ UNCHANGED <<now, failures, limiterMu, expiry>>
        BY <1>5, <2>4 DEF Validate
    <3>2. \A u \in Tokens :
            \/ sessions'[u] = sessions[u] /\ (sessions[u] /= NoSession => u \notin denied')
            \/ sessions'[u] = NoSession /\ (u \in denied' \/ now >= expiry[u])
        BY <1>1, <2>2, <2>4, <3>1
    <3>3. SessionMoves(c, IdleReq)
        BY <1>0, <2>1, <2>2, <3>1, <3>2 DEF SessionMoves
    <3> QED
        BY <1>0, <1>2, <3>3, IdleReqType, SessionStep
  <2> QED
      BY <2>3, <2>4
<1> QED
    BY <1>3, <1>4, <1>5

(* A new session has a token nobody was given, and the expiry that is recorded. *)
LEMMA InsertStep ==
    ASSUME IInv, NEW c \in Clients, Insert(c)
    PROVE  IInv'
<1> USE AuthAssumption, LimiterAssumption
<1> DEFINE t == req[c].token
           e == req[c].managerClock + SessionTTL
           pruned == PruneSessions(sessions, req[c].managerClock)
           r == [req[c] EXCEPT !.pc = "succeeded"]
<1>0. /\ now \in Nat /\ req[c] \in Req /\ req[c].clock <= now /\ req[c].managerClock <= now
      /\ req[c].managerClock \in Nat /\ req[c].pc = "insert"
      /\ t \in Tokens /\ t \notin Issued /\ e \in Nat
    BY DEF Insert, IInv, TypeOK, ClocksPast, TokensNew, Req
<1>1. /\ r \in Req /\ r.pc = "succeeded" /\ r.ip = req[c].ip /\ r.clock = req[c].clock
      /\ r.managerClock = req[c].managerClock
    BY <1>0 DEF Req, ReqPcs, LoginPcs
<1>2. /\ pruned \in [Tokens -> Nat \cup {NoSession}]
      /\ \A u \in Tokens : \/ pruned[u] = sessions[u]
                           \/ pruned[u] = NoSession /\ now >= expiry[u]
    BY <1>0, PruneSessionsKeeps, PrunedIsOver DEF IInv, TypeOK
<1>3. /\ sessions' = [pruned EXCEPT ![t] = e] /\ expiry' = [expiry EXCEPT ![t] = e]
      /\ req' = [req EXCEPT ![c] = r]
      /\ UNCHANGED <<now, failures, limiterMu, denied>>
    BY DEF Insert
<1>4. /\ req'[c] = r /\ req' \in [Clients -> Req]
      /\ \A d \in Clients \ {c} : req'[d] = req[d]
    BY <1>1, <1>3 DEF IInv, TypeOK
<1> HIDE DEF r, e, pruned
<1>5. TypeOK'
    BY <1>0, <1>2, <1>3, <1>4 DEF IInv, TypeOK
<1>6. \A d \in Clients \ {c} : req[d].pc \notin LockedPcs
    BY <1>0 DEF IInv, LockHeld, LockedPcs, LoginPcs
<1>7. limiterMu = c /\ r.ip \in IPs /\ FailureCount(r.ip) < Limit
    BY <1>0, <1>1 DEF IInv, LockHeld, Headroom, LockedPcs, LoginPcs
<1>8. LockHeld' /\ Addressed'
    BY <1>3, <1>4, <1>7 DEF IInv, LockHeld, Addressed
<1>9. Headroom'
    BY <1>3, <1>4, <1>6, <1>7 DEF Headroom, FailureCount
<1>10. ClocksPast'
    BY <1>0, <1>1, <1>3, <1>4 DEF IInv, ClocksPast
<1>11. Issued' = Issued \cup {t}
    BY <1>0, <1>3 DEF Issued, IInv, TypeOK
<1>12. TokensNew' /\ TokensIssued'
    BY <1>1, <1>4, <1>6, <1>11 DEF IInv, TokensNew, TokensIssued, LockedPcs, LoginPcs
<1>13. SessionsTrue'
  <2>1. t \notin denied /\ denied' \subseteq Issued'
      BY <1>0, <1>3, <1>11 DEF IInv, SessionsTrue
  <2>2. ASSUME NEW u \in Tokens
        PROVE  /\ sessions'[u] \in {NoSession, expiry'[u]}
               /\ sessions'[u] /= NoSession => u \notin denied'
               /\ u \in Issued' /\ sessions'[u] = NoSession => u \in denied' \/ now' >= expiry'[u]
    <3>1. CASE u = t
        BY <1>0, <1>2, <1>3, <2>1, <3>1 DEF IInv, TypeOK
    <3>2. CASE u /= t
      <4>1. sessions'[u] = pruned[u] /\ expiry'[u] = expiry[u] /\ (u \in Issued' <=> u \in Issued)
          BY <1>2, <1>3, <1>11, <3>2 DEF IInv, TypeOK
      <4> QED
          BY <1>2, <1>3, <4>1 DEF IInv, SessionsTrue
    <3> QED
        BY <3>1, <3>2
  <2> QED
      BY <2>1, <2>2 DEF SessionsTrue
<1> QED
    BY <1>5, <1>8, <1>9, <1>10, <1>12, <1>13 DEF IInv

(* As time passes, readings fall behind and sessions that are over stay so. *)
LEMMA TickStep == IInv /\ Tick => IInv'
<1> SUFFICES ASSUME IInv, Tick PROVE IInv'
    OBVIOUS
<1>1. now \in Nat /\ now' = now + 1 /\ UNCHANGED <<failures, limiterMu, sessions, req, expiry, denied>>
    BY DEF Tick, IInv, TypeOK
<1>2. TypeOK'
    BY <1>1 DEF IInv, TypeOK
<1>3. LockHeld' /\ Addressed' /\ Headroom'
    BY <1>1 DEF IInv, LockHeld, Addressed, Headroom, FailureCount
<1>4. ClocksPast'
  <2>1. \A c \in Clients : req[c].clock \in Nat /\ req[c].managerClock \in Nat
      BY DEF IInv, TypeOK, Req
  <2> QED
      BY <1>1, <2>1 DEF IInv, ClocksPast
<1>5. Issued' = Issued
    BY <1>1 DEF Issued
<1>6. TokensNew' /\ TokensIssued'
    BY <1>1, <1>5 DEF IInv, TokensNew, TokensIssued
<1>7. SessionsTrue'
  <2>1. \A t \in Issued : expiry[t] \in Nat
      BY DEF IInv, TypeOK, Issued
  <2> QED
      BY <1>1, <1>5, <2>1 DEF IInv, SessionsTrue
<1> QED
    BY <1>2, <1>3, <1>4, <1>6, <1>7 DEF IInv

LEMMA NextStep == IInv /\ [Next]_vars => IInv'
<1> SUFFICES ASSUME IInv, [Next]_vars PROVE IInv'
    OBVIOUS
<1>1. CASE UNCHANGED vars
    BY <1>1 DEF vars, IInv, TypeOK, LockHeld, Addressed, Headroom, FailureCount, ClocksPast,
                TokensNew, TokensIssued, SessionsTrue, Issued
<1>2. CASE Tick
    BY <1>2, TickStep
<1>3. ASSUME NEW c \in Clients,
             \/ \E ip \in IPs, right \in BOOLEAN : BeginLogin(c, ip, right)
             \/ Attempting(c)
             \/ Proceed(c)
             \/ \E t \in Tokens, logout \in BOOLEAN : BeginProtected(c, t, logout)
      PROVE  IInv'
    BY <1>3, QuietSteps, LimiterSteps, SessionSteps, InsertStep
    DEF Attempting, Proceed, Finish
<1> QED
    BY <1>1, <1>2, <1>3 DEF Next

(***************************************************************************)
(* The strengthened invariant holds in every reachable state.               *)
(***************************************************************************)
THEOREM AuthInvariant == Spec => []IInv
BY InitIInv, NextStep, PTL DEF Spec

(* Every variable keeps its type; no count of failures passes the limit. *)
THEOREM TypeCorrect == Spec => []TypeOK
<1>1. IInv => TypeOK
    BY DEF IInv
<1> QED
    BY AuthInvariant, <1>1, PTL

(***************************************************************************)
(* Logins under verification and failures counted never exceed the limit,   *)
(* however many logins race: Attempt keeps the lock between its check and   *)
(* its verdict.                                                             *)
(***************************************************************************)
THEOREM TriesNeverShared == Spec => []TriesBounded
<1> USE LimiterAssumption
<1>1. ASSUME IInv, NEW ip \in IPs
      PROVE  Cardinality(Verifying(ip)) + FailureCount(ip) <= Limit
  <2>1. FailureCount(ip) \in Nat /\ FailureCount(ip) <= Limit
      BY <1>1 DEF IInv, TypeOK, FailureCount, FailureWindow
  <2>2. CASE Verifying(ip) = {}
      BY <2>1, <2>2, FS_EmptySet
  <2>3. ASSUME NEW c \in Verifying(ip) PROVE Cardinality(Verifying(ip)) + FailureCount(ip) <= Limit
    <3>1. Verifying(ip) = {c}
        BY <1>1, <2>3 DEF IInv, LockHeld, Verifying
    <3>2. Cardinality(Verifying(ip)) = 1
        BY <3>1, FS_Singleton
    <3>3. FailureCount(ip) < Limit
        BY <1>1, <2>3 DEF IInv, Headroom, Verifying
    <3> QED
        BY <2>1, <3>2, <3>3
  <2> QED
      BY <2>2, <2>3
<1>2. IInv => TriesBounded
    BY <1>1 DEF TriesBounded
<1> QED
    BY AuthInvariant, <1>2, PTL

(***************************************************************************)
(* A token once refused or logged out is never accepted again, whatever the *)
(* order in which requests read the clock and took the lock.                *)
(***************************************************************************)
THEOREM DenialIsFinal == Spec => DeniedStaysDenied
<1> DEFINE Final(c) == req[c].pc = "validate" /\ req'[c].pc \in {"serving", "logout"} =>
                           req[c].token \notin denied
<1>1. ASSUME IInv, [Next]_vars, NEW c \in Clients PROVE Final(c)
  <2> SUFFICES ASSUME req[c].pc = "validate", req'[c].pc \in {"serving", "logout"}
               PROVE  req[c].token \notin denied
      OBVIOUS
  <2>0. req \in [Clients -> Req]
      BY <1>1 DEF IInv, TypeOK
  <2>1. Validate(c)
    <3>1. PICK d \in Clients :
              \/ \E ip \in IPs, right \in BOOLEAN : BeginLogin(d, ip, right)
              \/ Attempting(d)
              \/ Proceed(d)
              \/ \E t \in Tokens, logout \in BOOLEAN : BeginProtected(d, t, logout)
        BY <1>1, <2>0 DEF Next, Tick, vars
    <3>2. \E r : req' = [req EXCEPT ![d] = r]
        BY <3>1 DEF Attempting, Proceed, Finish, BeginLogin, Refuse, Enter, VerifyClock,
                    VerifyPrune, IssueToken, IssueFails, Insert, LoginFails, LoginSucceeds,
                    BeginProtected, Validate, Serve, Logout
    <3>3. d = c
        BY <2>0, <3>2
    <3> QED
        BY <3>1, <3>3 DEF Attempting, Proceed, Finish, BeginLogin, Refuse, Enter, VerifyClock,
                    VerifyPrune, IssueToken, IssueFails, Insert, LoginFails, LoginSucceeds,
                    BeginProtected, Serve, Logout
  <2>2. PruneSessions(sessions, req[c].clock)[req[c].token] /= NoSession
      BY <2>0, <2>1 DEF Validate, IdleReq
  <2>3. req[c].token \in Tokens /\ sessions[req[c].token] /= NoSession
      BY <1>1, <2>2 DEF PruneSessions, IInv, TokensIssued, Issued
  <2> QED
      BY <1>1, <2>3 DEF IInv, SessionsTrue
<1>2. IInv /\ [Next]_vars => [\A c \in Clients : Final(c)]_vars
    BY <1>1
<1> QED
    BY AuthInvariant, <1>2, PTL DEF Spec, DeniedStaysDenied

(***************************************************************************)
(* A token is denied only after its expiry, or because it is logged out:    *)
(* nothing that happens to other sessions ends this one.                    *)
(***************************************************************************)
THEOREM SessionsAreKept == Spec => LiveSessionsKept
<1> USE AuthAssumption
<1> DEFINE Kept(t) == \/ now >= expiry[t]
                      \/ \E c \in Clients : req[c].pc = "logout" /\ req[c].token = t
<1>1. ASSUME IInv, [Next]_vars, NEW t \in denied' \ denied PROVE Kept(t)
  <2>1. PICK c \in Clients : (Validate(c) \/ Logout(c)) /\ t = req[c].token
      BY <1>1 DEF Next, vars, Attempting, Proceed, Finish, BeginLogin, Refuse, Enter, VerifyClock,
                  VerifyPrune, IssueToken, IssueFails, Insert, LoginFails, LoginSucceeds,
                  BeginProtected, Serve, Tick, Validate, Logout
  <2>2. CASE Logout(c)
      BY <2>1, <2>2 DEF Logout
  <2>3. CASE Validate(c)
    <3>1. t \in Issued /\ t \in Tokens
        BY <1>1, <2>1, <2>3 DEF Validate, IInv, TokensIssued, Issued
    <3>2. PruneSessions(sessions, req[c].clock)[t] = NoSession
        BY <1>1, <2>1, <2>3 DEF Validate
    <3>3. req[c].clock \in Nat /\ req[c].clock <= now
        BY <1>1 DEF IInv, TypeOK, ClocksPast, Req
    <3>4. sessions[t] = NoSession \/ now >= expiry[t]
        BY <1>1, <3>1, <3>2, <3>3, PrunedIsOver
    <3> QED
        BY <1>1, <3>1, <3>4 DEF IInv, SessionsTrue
  <2> QED
      BY <2>1, <2>2, <2>3
<1>2. IInv /\ [Next]_vars => [\A t \in denied' \ denied : Kept(t)]_vars
    BY <1>1
<1> QED
    BY AuthInvariant, <1>2, PTL DEF Spec, LiveSessionsKept

-----------------------------------------------------------------------------
(* The table of failures *)

(* What a step does to the table: it is pruned, or a failure is recorded in it, *)
(* or those of an address are forgotten.                                        *)
LEMMA TableSteps ==
    ASSUME IInv, Next
    PROVE  \/ failures' = failures
           \/ \E c \in Clients : failures' = PruneFailures(failures, req[c].clock)
           \/ \E c \in Clients :
                 /\ req[c].ip \in IPs
                 /\ failures' \in FailureRecorded(failures, req[c].ip, req[c].clock)
           \/ \E c \in Clients :
                 /\ req[c].pc = "succeeded" /\ req'[c].pc = "idle"
                 /\ failures' = [failures EXCEPT ![req[c].ip] = NoWindow]
<1>1. CASE Tick
    BY <1>1 DEF Tick
<1>2. ASSUME NEW c \in Clients, Attempting(c) PROVE failures' = PruneFailures(failures, req[c].clock)
    BY <1>2 DEF Attempting, Refuse, Enter
<1>3. ASSUME NEW c \in Clients, LoginFails(c)
      PROVE  req[c].ip \in IPs /\ failures' \in FailureRecorded(failures, req[c].ip, req[c].clock)
    BY <1>3 DEF LoginFails, IInv, Addressed, LoginPcs
<1>4. ASSUME NEW c \in Clients, LoginSucceeds(c)
      PROVE  /\ req[c].pc = "succeeded" /\ req'[c].pc = "idle"
             /\ failures' = [failures EXCEPT ![req[c].ip] = NoWindow]
  <2>1. req \in [Clients -> Req]
      BY DEF IInv, TypeOK
  <2> QED
      BY <1>4, <2>1 DEF LoginSucceeds, IdleReq
<1>5. ASSUME NEW c \in Clients, Proceed(c), ~Finish(c) PROVE failures' = failures
  <2>1. VerifyClock(c) => failures' = failures
      BY DEF VerifyClock
  <2>2. VerifyPrune(c) => failures' = failures
      BY DEF VerifyPrune
  <2>3. IssueFails(c) => failures' = failures
      BY DEF IssueFails
  <2>4. Insert(c) => failures' = failures
      BY DEF Insert
  <2>5. \A t \in Tokens : IssueToken(c, t) => failures' = failures
      BY DEF IssueToken
  <2>6. Validate(c) => failures' = failures
      BY DEF Validate
  <2>7. Serve(c) => failures' = failures
      BY DEF Serve
  <2>8. Logout(c) => failures' = failures
      BY DEF Logout
  <2> QED
      BY <1>5, <2>1, <2>2, <2>3, <2>4, <2>5, <2>6, <2>7, <2>8 DEF Proceed
<1>6. ASSUME NEW c \in Clients, NEW ip \in IPs, NEW right \in BOOLEAN, BeginLogin(c, ip, right)
      PROVE  failures' = failures
    BY <1>6 DEF BeginLogin
<1>7. ASSUME NEW c \in Clients, NEW t \in Tokens, NEW logout \in BOOLEAN,
             BeginProtected(c, t, logout)
      PROVE  failures' = failures
    BY <1>7 DEF BeginProtected
<1>8. CASE \E c \in Clients : Attempting(c)
    BY <1>2, <1>8
<1>9. CASE \E c \in Clients : LoginFails(c)
    BY <1>3, <1>9
<1>10. CASE \E c \in Clients : LoginSucceeds(c)
    BY <1>4, <1>10
<1>11. CASE \E c \in Clients : Proceed(c) /\ ~Finish(c)
    BY <1>5, <1>11
<1>12. CASE \E c \in Clients :
                \/ \E ip \in IPs, right \in BOOLEAN : BeginLogin(c, ip, right)
                \/ \E t \in Tokens, logout \in BOOLEAN : BeginProtected(c, t, logout)
    BY <1>6, <1>7, <1>12
<1> QED
    BY <1>1, <1>8, <1>9, <1>10, <1>11, <1>12 DEF Next, Finish

(* Recording a failure tracks the address, and only in a table that has room. *)
LEMMA RecordingKeepsCapacity ==
    ASSUME NEW table \in Failures, NEW ip \in IPs, NEW time \in Nat,
           Cardinality(Tracked(table)) <= Capacity,
           NEW after \in FailureRecorded(table, ip, time)
    PROVE  Cardinality(Tracked(after)) <= Capacity
<1> USE LimiterAssumption
<1>1. IsFiniteSet(Tracked(table)) /\ Cardinality(Tracked(table)) \in Nat
    BY FS_Subset, FS_CardinalityType DEF Tracked
<1>2. CASE table[ip] /= NoWindow
  <2>1. Tracked(after) = Tracked(table)
    <3>1. table[ip] \in FailureWindow
        BY <1>2 DEF Failures
    <3>2. CASE table[ip].count >= Limit
        BY <1>2, <3>2 DEF FailureRecorded
    <3>3. CASE ~(table[ip].count >= Limit)
      <4>1. after = [table EXCEPT ![ip].count = table[ip].count + 1]
          BY <1>2, <3>3 DEF FailureRecorded
      <4>2. [table[ip] EXCEPT !.count = table[ip].count + 1] \in FailureWindow
          BY <3>1, <3>3 DEF FailureWindow
      <4>3. after[ip] /= NoWindow
          BY <4>1, <4>2, LimiterAssumption DEF Failures
      <4>4. \A other \in IPs \ {ip} : after[other] = table[other]
          BY <4>1 DEF Failures
      <4> QED
          BY <4>3, <4>4, <1>2 DEF Tracked
    <3> QED
        BY <3>2, <3>3
  <2> QED
      BY <2>1
<1>3. CASE table[ip] = NoWindow
  <2>1. PICK room \in EnsureCapacity(table) :
            after = [room EXCEPT ![ip] = [startedAt |-> time, count |-> 1]]
      BY <1>3 DEF FailureRecorded
  <2>2. ip \notin Tracked(table)
      BY <1>3 DEF Tracked
  <2>3. IsFiniteSet(Tracked(room)) /\ Cardinality(Tracked(room)) + 1 <= Capacity
    <3>1. CASE Cardinality(Tracked(table)) < Capacity
        BY <1>1, <2>1, <3>1 DEF EnsureCapacity
    <3>2. CASE ~(Cardinality(Tracked(table)) < Capacity)
      <4>1. PICK old \in OldestWindows(table) : room = [table EXCEPT ![old] = NoWindow]
          BY <2>1, <3>2 DEF EnsureCapacity
      <4>2. old \in Tracked(table) /\ Tracked(room) = Tracked(table) \ {old}
          BY <4>1 DEF OldestWindows, Tracked, Failures
      <4>3. IsFiniteSet(Tracked(room)) /\ Cardinality(Tracked(room)) = Cardinality(Tracked(table)) - 1
        <5>1. /\ IsFiniteSet(Tracked(table) \ {old})
              /\ Cardinality(Tracked(table) \ {old}) =
                    IF old \in Tracked(table) THEN Cardinality(Tracked(table)) - 1
                                              ELSE Cardinality(Tracked(table))
            BY <1>1, FS_RemoveElement, Zenon
        <5> QED
            BY <4>2, <5>1
      <4> QED
          BY <1>1, <4>3
    <3> QED
        BY <3>1, <3>2
  <2>4. Tracked(after) \subseteq Tracked(room) \cup {ip}
    <3>1. DOMAIN room = IPs
        BY <2>1 DEF EnsureCapacity, Failures, OldestWindows, Tracked
    <3> QED
        BY <2>1, <3>1 DEF Tracked
  <2>5. /\ IsFiniteSet(Tracked(room) \cup {ip})
        /\ Cardinality(Tracked(room) \cup {ip}) <= Cardinality(Tracked(room)) + 1
        /\ Cardinality(Tracked(room)) \in Nat
    <3>1. Cardinality(Tracked(room)) \in Nat
        BY <2>3, FS_CardinalityType
    <3>2. /\ IsFiniteSet(Tracked(room) \cup {ip})
          /\ \/ Cardinality(Tracked(room) \cup {ip}) = Cardinality(Tracked(room))
             \/ Cardinality(Tracked(room) \cup {ip}) = Cardinality(Tracked(room)) + 1
        BY <2>3, FS_AddElement, Zenon
    <3> QED
        BY <3>1, <3>2
  <2>6. /\ Cardinality(Tracked(after)) <= Cardinality(Tracked(room) \cup {ip})
        /\ Cardinality(Tracked(after)) \in Nat
        /\ Cardinality(Tracked(room) \cup {ip}) \in Nat
      BY <2>4, <2>5, FS_Subset, FS_CardinalityType
  <2> QED
      BY <2>3, <2>5, <2>6
<1> QED
    BY <1>2, <1>3

(* Pruning and forgetting track no more than before. *)
LEMMA FewerTracked ==
    ASSUME NEW table \in Failures, Cardinality(Tracked(table)) <= Capacity,
           NEW after, Tracked(after) \subseteq Tracked(table)
    PROVE  Cardinality(Tracked(after)) <= Capacity
<1>1. IsFiniteSet(Tracked(table))
    BY LimiterAssumption, FS_Subset DEF Tracked
<1>2. /\ Cardinality(Tracked(after)) <= Cardinality(Tracked(table))
      /\ Cardinality(Tracked(after)) \in Nat /\ Cardinality(Tracked(table)) \in Nat
    BY <1>1, FS_Subset, FS_CardinalityType
<1> QED
    BY <1>2, LimiterAssumption

(***************************************************************************)
(* The table of failures never holds more addresses than it may, whichever  *)
(* of the oldest windows make room (recordFailure, ensureCapacity).         *)
(***************************************************************************)
THEOREM TableBounded == Spec => []CapacityKept
<1> USE LimiterAssumption
<1>1. Init => CapacityKept
  <2>1. Init => Tracked(failures) = {}
      BY DEF Init, Tracked
  <2> QED
      BY <2>1, FS_EmptySet DEF CapacityKept
<1>2. ASSUME IInv, CapacityKept, [Next]_vars PROVE CapacityKept'
  <2>0. /\ failures \in Failures
        /\ \A c \in Clients : req[c].clock \in Nat
      BY <1>2 DEF IInv, TypeOK, Failures, Req
  <2>1. CASE failures' = failures
      BY <1>2, <2>1 DEF CapacityKept, Tracked
  <2>2. ASSUME NEW c \in Clients, failures' = PruneFailures(failures, req[c].clock)
        PROVE  CapacityKept'
    <3>1. Tracked(PruneFailures(failures, req[c].clock)) \subseteq Tracked(failures)
        BY <2>0 DEF Tracked, PruneFailures
    <3>2. Cardinality(Tracked(PruneFailures(failures, req[c].clock))) <= Capacity
        BY <1>2, <2>0, <3>1, FewerTracked DEF CapacityKept
    <3> QED
        BY <2>2, <3>2 DEF CapacityKept, Tracked
  <2>3. ASSUME NEW c \in Clients, req[c].ip \in IPs,
               failures' \in FailureRecorded(failures, req[c].ip, req[c].clock)
        PROVE  CapacityKept'
    <3>1. Cardinality(Tracked(failures')) <= Capacity
        BY <1>2, <2>0, <2>3, RecordingKeepsCapacity DEF CapacityKept
    <3> QED
        BY <3>1 DEF CapacityKept, Tracked
  <2>4. ASSUME NEW c \in Clients, failures' = [failures EXCEPT ![req[c].ip] = NoWindow]
        PROVE  CapacityKept'
    <3>1. Tracked(failures') \subseteq Tracked(failures)
        BY <2>0, <2>4 DEF Tracked, Failures
    <3>2. Cardinality(Tracked(failures')) <= Capacity
        BY <1>2, <2>0, <3>1, FewerTracked DEF CapacityKept
    <3> QED
        BY <3>2 DEF CapacityKept, Tracked
  <2>5. CASE UNCHANGED vars
      BY <2>1, <2>5 DEF vars
  <2> QED
      BY <1>2, <2>1, <2>2, <2>3, <2>4, <2>5, TableSteps
<1> QED
    BY AuthInvariant, <1>1, <1>2, PTL DEF Spec

(***************************************************************************)
(* Failures are forgotten for a reason only: their window is over, the      *)
(* address logged in, or no kept window is older and another address needed *)
(* the place.                                                               *)
(***************************************************************************)
THEOREM FailuresForgottenForCause == Spec => NotForgivenEarly
<1> USE LimiterAssumption
<1> DEFINE Forgotten(ip) == failures[ip] /= NoWindow /\ failures'[ip] = NoWindow
           Cause(ip) ==
               \/ now - failures[ip].startedAt >= Window
               \/ \E c \in Clients : req[c].pc = "succeeded" /\ req[c].ip = ip /\ req'[c].pc = "idle"
               \/ /\ \E other \in Tracked(failures') : other \notin Tracked(failures)
                  /\ \A other \in Tracked(failures) \cap Tracked(failures') :
                        failures[ip].startedAt <= failures[other].startedAt
<1>1. ASSUME IInv, [Next]_vars, NEW ip \in IPs, Forgotten(ip) PROVE Cause(ip)
  <2>0. /\ failures \in Failures /\ now \in Nat
        /\ failures[ip] \in FailureWindow
        /\ failures' /= failures
        /\ \A c \in Clients : req[c].clock \in Nat /\ req[c].clock <= now
      BY <1>1 DEF IInv, TypeOK, Failures, Req, ClocksPast
  <2>1. ASSUME NEW c \in Clients, failures' = PruneFailures(failures, req[c].clock)
        PROVE  Cause(ip)
    <3>1. req[c].clock - failures[ip].startedAt >= Window
        BY <1>1, <2>1 DEF PruneFailures
    <3>2. failures[ip].startedAt \in Nat
        BY <2>0 DEF FailureWindow
    <3> QED
        BY <2>0, <3>1, <3>2
  <2>2. ASSUME NEW c \in Clients, req[c].ip \in IPs,
               failures' \in FailureRecorded(failures, req[c].ip, req[c].clock)
        PROVE  Cause(ip)
    <3> DEFINE new == req[c].ip
    <3>0. [startedAt |-> req[c].clock, count |-> 1] \in FailureWindow
        BY <2>0 DEF FailureWindow
    <3>1. failures[new] = NoWindow
      <4> SUFFICES ASSUME failures[new] /= NoWindow PROVE FALSE
          OBVIOUS
      <4>1. failures[new] \in FailureWindow
          BY <2>0, <2>2 DEF Failures
      <4>2. failures' = [failures EXCEPT ![new].count = failures[new].count + 1]
          BY <2>0, <2>2 DEF FailureRecorded
      <4>3. ip = new
          BY <1>1, <2>0, <4>2 DEF Failures
      <4>4. ~(failures[new].count >= Limit)
          BY <2>0, <2>2 DEF FailureRecorded
      <4>5. [failures[new] EXCEPT !.count = failures[new].count + 1] \in FailureWindow
          BY <4>1, <4>4 DEF FailureWindow
      <4> QED
          BY <1>1, <2>0, <4>2, <4>3, <4>5 DEF Failures
    <3>2. PICK room \in EnsureCapacity(failures) :
              failures' = [room EXCEPT ![new] = [startedAt |-> req[c].clock, count |-> 1]]
        BY <2>2, <3>1 DEF FailureRecorded
    <3>3. DOMAIN room = IPs
        BY <2>0, <3>2 DEF EnsureCapacity, Failures, OldestWindows, Tracked
    <3>4. failures'[new] /= NoWindow
        BY <2>2, <3>0, <3>2, <3>3
    <3>5. room[ip] = NoWindow
        BY <1>1, <3>2, <3>3, <3>4
    <3>6. PICK old \in OldestWindows(failures) : room = [failures EXCEPT ![old] = NoWindow]
        BY <1>1, <3>2, <3>5 DEF EnsureCapacity
    <3>7. ip = old
        BY <1>1, <2>0, <3>5, <3>6 DEF Failures
    <3>8. new \in Tracked(failures') /\ new \notin Tracked(failures)
        BY <2>2, <3>1, <3>4 DEF Tracked
    <3>9. \A other \in Tracked(failures) : failures[ip].startedAt <= failures[other].startedAt
        BY <3>6, <3>7 DEF OldestWindows
    <3> QED
        BY <3>8, <3>9
  <2>3. ASSUME NEW c \in Clients, req[c].pc = "succeeded", req'[c].pc = "idle",
               failures' = [failures EXCEPT ![req[c].ip] = NoWindow]
        PROVE  Cause(ip)
    <3>1. req[c].ip = ip
        BY <1>1, <2>0, <2>3 DEF Failures
    <3> QED
        BY <2>3, <3>1
  <2>4. Next
      BY <1>1, <2>0 DEF vars
  <2> QED
      BY <1>1, <2>0, <2>1, <2>2, <2>3, <2>4, TableSteps
<1>2. IInv /\ [Next]_vars => [\A ip \in IPs : Forgotten(ip) => Cause(ip)]_vars
    BY <1>1
<1> QED
    BY AuthInvariant, <1>2, PTL DEF Spec, NotForgivenEarly
=============================================================================
