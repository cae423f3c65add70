-------------------------- MODULE MCSnapshotService --------------------------
(* SnapshotService for TLC: one source, which the host service reads under every *)
(* key, like the host list and a host's detail page, and the others under one.   *)
(* The clock goes to where collection is gone for a live service, and to where it *)
(* is delayed for the others: an age becomes a level in one way for all of them.  *)
(* The host service, for its two keys, and RabbitMQ have a tick less than those.  *)
EXTENDS SnapshotService, TLC

CONSTANTS TheSource, TheKey, ShortHorizon

OneSource == {TheSource}
SourceOfEveryKey == [k \in Keys |-> TheSource]
KeysByKind == [i \in Kinds |-> IF i = "host" THEN Keys ELSE {TheKey}]
HorizonByKind == [i \in Kinds |-> CASE i = "live" -> MaxTime
                                   [] i \in {"elasticsearch", "java"} -> ShortHorizon + 1
                                   [] OTHER -> ShortHorizon]

Symmetry == Permutations(Calls)
=============================================================================
