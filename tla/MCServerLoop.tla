---------------------------- MODULE MCServerLoop ----------------------------
(* Small instances of ServerLoop for TLC.                                  *)
EXTENDS ServerLoop, TLC

CONSTANTS c1, c2, c3
=============================================================================
