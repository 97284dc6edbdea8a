----------------------------- MODULE MCWinHook -----------------------------
(***************************************************************************)
(* Chains of three commands; the first makes its call with every command   *)
(* line of at most MaxLine characters of the four kinds that the quoting   *)
(* tells apart behind the program's name.                                  *)
(***************************************************************************)
EXTENDS WinHook

CONSTANT MaxLine

MCProgram == <<"x">>
MCChars == {"a", "x", Blank, Quote, Backslash}
AllLines(max) == UNION {[1..n -> MCChars \ {"x"}] : n \in 0..max}
MCLines == <<AllLines(MaxLine), {<<"a">>}, {}>>

\* An environment with the id of another command, and one with a longer key.
MCBlocks == {<<Entry("PATH", 0), Entry(IdKey, 0)>>, <<Entry("CATTER_RPC_ID_2", 0)>>}
=============================================================================
