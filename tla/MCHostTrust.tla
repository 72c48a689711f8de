---------------------------- MODULE MCHostTrust ----------------------------
(* An instance of HostTrust for TLC: two addresses and two machine keys,   *)
(* both interchangeable; a password and a private key.                     *)
EXTENDS HostTrust, TLC

CONSTANTS a1, a2, k1, k2, pw, pk

MCAddrs == {a1, a2}
MCHostKeys == {k1, k2}
MCPasswords == {pw}
MCPrivateKeys == {pk}
Symmetry == Permutations(MCAddrs) \cup Permutations(MCHostKeys)
=============================================================================
