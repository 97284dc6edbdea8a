---------------------------- MODULE MCCatterRpc ----------------------------
(* Small instances of CatterRpc for TLC.                                   *)
EXTENDS CatterRpc, TLC

CONSTANTS p1, p2, p3, p4

\* The proxies other than the root are interchangeable.
Nested == Permutations(Proxy \ {Root})
=============================================================================
