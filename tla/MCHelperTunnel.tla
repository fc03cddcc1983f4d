--------------------------- MODULE MCHelperTunnel ---------------------------
(* HelperTunnel on small instances; connections are interchangeable.       *)
EXTENDS HelperTunnel, TLC

Symmetry == Permutations(Conn)
=============================================================================
