----------------------------- MODULE LoginLimiter -----------------------------
(***************************************************************************)
(* The table of internal/auth/limiter.go: per client address, when its      *)
(* first failure of the current window was, and how many there have been.   *)
(***************************************************************************)
EXTENDS Integers, FiniteSets

CONSTANTS
    IPs,         \* client addresses
    Limit,       \* failures after which an address is refused
    Window,      \* how long failures count, from the first
    Capacity,    \* maxLimiterEntries
    NoWindow     \* an address with no failures

FailureWindow == [startedAt : Nat, count : 1 .. Limit]

ASSUME LimiterAssumption ==
    /\ IsFiniteSet(IPs)
    /\ Limit \in Nat \ {0}
    /\ Window \in Nat \ {0}
    /\ Capacity \in Nat \ {0}
    /\ NoWindow \notin FailureWindow

Tracked(table) == {ip \in IPs : table[ip] /= NoWindow}

(* Limiter.pruneExpired *)
PruneFailures(table, now) ==
    [ip \in IPs |-> IF table[ip] /= NoWindow /\ now - table[ip].startedAt >= Window
                    THEN NoWindow ELSE table[ip]]

(* No attempt of ip is allowed any more. *)
Refused(table, ip) == table[ip] /= NoWindow /\ table[ip].count >= Limit

(* Several windows may have started at the oldest time: map order decides. *)
OldestWindows(table) ==
    {ip \in Tracked(table) :
        \A other \in Tracked(table) : table[ip].startedAt <= table[other].startedAt}

NewestWindows(table) ==
    {ip \in Tracked(table) :
        \A other \in Tracked(table) : table[ip].startedAt >= table[other].startedAt}

(* Mutant: the table is full only when it holds more than its capacity. *)
CapacityPast(table) ==
    IF Cardinality(Tracked(table)) <= Capacity THEN {table}
    ELSE {[table EXCEPT ![ip] = NoWindow] : ip \in OldestWindows(table)}

(* Mutant: the youngest window makes room. *)
EvictNewest(table) ==
    IF Cardinality(Tracked(table)) < Capacity THEN {table}
    ELSE {[table EXCEPT ![ip] = NoWindow] : ip \in NewestWindows(table)}

(* Limiter.ensureCapacity: the tables it may leave. *)
EnsureCapacity(table) ==
    IF Cardinality(Tracked(table)) < Capacity THEN {table}
    ELSE {[table EXCEPT ![ip] = NoWindow] : ip \in OldestWindows(table)}

(* Mutant: the first failure opens the window and is not counted. *)
FirstUncounted(table, ip, now) ==
    IF table[ip] = NoWindow
    THEN {[room EXCEPT ![ip] = [startedAt |-> now, count |-> 0]] : room \in EnsureCapacity(table)}
    ELSE {[table EXCEPT ![ip].count = @ + 1]}

(* Limiter.recordFailure: the tables it may leave. *)
FailureRecorded(table, ip, now) ==
    IF table[ip] = NoWindow
    THEN {[room EXCEPT ![ip] = [startedAt |-> now, count |-> 1]] : room \in EnsureCapacity(table)}
    ELSE IF table[ip].count >= Limit THEN {table}
    ELSE {[table EXCEPT ![ip].count = @ + 1]}
=============================================================================
