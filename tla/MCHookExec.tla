----------------------------- MODULE MCHookExec -----------------------------
(***************************************************************************)
(* Instances of HookExec small enough that the area and the vector can     *)
(* both run out: the area has room for `proxy -p id -- exe' and a few      *)
(* characters, the vector for two arguments.                               *)
(***************************************************************************)
EXTENDS HookExec
=============================================================================
