---------------------------- MODULE MCScriptHost ----------------------------
(***************************************************************************)
(* Three kinds of worlds: one script and every text of at most MaxText     *)
(* characters, for the reading and writing methods; two files that stay    *)
(* empty, for what is open at the same time; two scripts, for the runtime  *)
(* and the streams the scripts share.                                      *)
(***************************************************************************)
EXTENDS ScriptHost

CONSTANTS MaxText, s1, s2

Texts == UNION {[1..n -> {"a", NewLine, Return}] : n \in 0..MaxText}

MCWorlds ==
  {[files |-> [x \in {"p"} |-> t], scripts |-> {s1}] : t \in Texts}
    \cup {[files |-> [x \in {"q", "r"} |-> <<>>], scripts |-> {s1}],
          [files |-> [x \in {"q"} |-> <<>>], scripts |-> {s1, s2}]}

MCPaths == {"p", "q", "r"}
\* A whole buffer, and the end of one.
MCData == {[buffer |-> <<"a">>, offset |-> 0, length |-> 1],
           [buffer |-> <<"a", NewLine>>, offset |-> 1, length |-> 1]}
MCMaxSize == [x \in MCPaths |-> IF x = "p" THEN MaxText + 1 ELSE 0]
=============================================================================
