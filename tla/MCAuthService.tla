---------------------------- MODULE MCAuthService ----------------------------
(* AuthService for TLC: clients, tokens and addresses are interchangeable. *)
EXTENDS AuthService, TLC

Symmetry == Permutations(Clients) \cup Permutations(Tokens) \cup Permutations(IPs)
=============================================================================
