---------------------------- MODULE CacheContract ----------------------------
(***************************************************************************)
(* What cache.Store promises each caller of GetOrLoad, with no word on how: *)
(* a request that begins when version f of its key has already been         *)
(* answered to somebody gets                                                *)
(*   - a version the upstream has had, and not an older one than f, or      *)
(*   - the upstream's error, or                                             *)
(*   - its own context's error, if its own context ended.                   *)
(***************************************************************************)
EXTENDS Integers

CONSTANTS
    Keys,        \* cache keys
    Callers,     \* goroutines that call GetOrLoad
    None,        \* no key
    MaxVersion   \* bound on the changes of the upstream

VARIABLES
    upstream,    \* upstream[k]: the version the upstream has
    served,      \* served[k]: the newest version answered
    ask          \* ask[c]: the request of c

contractVars == <<upstream, served, ask>>

Idle == [pc |-> "idle", key |-> None, floor |-> 0, ctxDone |-> FALSE,
         outcome |-> "none", version |-> 0]

Init ==
    /\ upstream = [k \in Keys |-> 0]
    /\ served = [k \in Keys |-> 0]
    /\ ask = [c \in Callers |-> Idle]

Begin(c, k) ==
    /\ ask[c].pc /= "pending"
    /\ ask' = [ask EXCEPT ![c] = [Idle EXCEPT !.pc = "pending", !.key = k,
                                              !.floor = served[k]]]
    /\ UNCHANGED <<upstream, served>>

CancelCtx(c) ==
    /\ ask[c].pc = "pending"
    /\ ask' = [ask EXCEPT ![c].ctxDone = TRUE]
    /\ UNCHANGED <<upstream, served>>

AnswerValue(c) ==
    LET k == ask[c].key
    IN  /\ ask[c].pc = "pending"
        /\ \E v \in ask[c].floor .. upstream[k] :
              /\ ask' = [ask EXCEPT ![c].pc = "answered", ![c].ctxDone = FALSE,
                                    ![c].outcome = "value", ![c].version = v]
              /\ served' = [served EXCEPT ![k] = IF v > @ THEN v ELSE @]
        /\ UNCHANGED upstream

AnswerError(c) ==
    /\ ask[c].pc = "pending"
    /\ ask' = [ask EXCEPT ![c] = [Idle EXCEPT !.pc = "answered", !.outcome = "upstream"]]
    /\ UNCHANGED <<upstream, served>>

AnswerCtx(c) ==
    /\ ask[c].pc = "pending"
    /\ ask[c].ctxDone
    /\ ask' = [ask EXCEPT ![c] = [Idle EXCEPT !.pc = "answered", !.outcome = "ctx"]]
    /\ UNCHANGED <<upstream, served>>

UpstreamAdvance(k) ==
    /\ upstream[k] < MaxVersion
    /\ upstream' = [upstream EXCEPT ![k] = @ + 1]
    /\ UNCHANGED <<served, ask>>

Next ==
    \/ \E c \in Callers : \/ \E k \in Keys : Begin(c, k)
                          \/ CancelCtx(c)
                          \/ AnswerValue(c)
                          \/ AnswerError(c)
                          \/ AnswerCtx(c)
    \/ \E k \in Keys : UpstreamAdvance(k)

Spec == Init /\ [][Next]_contractVars
=============================================================================
