----------------------------- MODULE MCDiscovery -----------------------------
(* TargetListing over DatasourceDiscovery for TLC, without symmetry: the run *)
(* checks liveness.                                                          *)
EXTENDS TargetListing
=============================================================================
