------------------------------ MODULE MCRelay ------------------------------
(* Model checking of Relay: a host that may connect again while its first   *)
(* socket is still there, and a client.                                     *)
EXTENDS Relay, TLC

CONSTANTS h, c, s1, s2, s3

MCOwner  == (s1 :> h) @@ (s2 :> h) @@ (s3 :> c)
Symmetry == Permutations({s1, s2})
=============================================================================
