--------------------------- MODULE MCHookLibrary ---------------------------
(***************************************************************************)
(* Two kinds of calls.  The first vary the command: every session, every   *)
(* argument vector, found or not.  The second vary the search: every path  *)
(* of at most MaxPath characters, for a file of one character, among       *)
(* programs in two directories and in one whose name is too long.          *)
(***************************************************************************)
EXTENDS HookLibrary

CONSTANT MaxPath

Env(path) == [inProxy |-> FALSE, proxy |-> TRUE, id |-> TRUE, path |-> path]
Home == Env(<<"a">>)

Call(hook, file, args, search, own, loaded, programs) ==
  [hook |-> hook, file |-> file, args |-> args, search |-> search,
   passed |-> Home, own |-> own, loaded |-> loaded, programs |-> programs]

Commands ==
  {Call(hook, file, args, None, Home, env, {<<"x", "x">>, <<"a", "/", "x">>}) :
     hook \in {"execve", "posix_spawnp"},
     file \in {None, <<"x">>, <<"x", "x">>},
     args \in UNION {[1..n -> {0, 1, 3}] : n \in 0..MaxArgs},
     env \in [inProxy : {FALSE}, proxy : BOOLEAN, id : BOOLEAN, path : {None}]}

Strings3 == UNION {[1..n -> {"a", "b", ":"}] : n \in 0..MaxPath}
Programs == SUBSET {<<"a", "/", "x">>, <<"b", "/", "x">>, <<"a", "b", "/", "x">>}

Searches ==
  {Call("execvP", <<"x">>, <<1>>, s, Home, Home, p) :
     s \in Strings3 \cup {None}, p \in Programs}
    \cup {Call(hook, file, <<1>>, None, own, Home, p) :
            hook \in Direct \cup Searching,
            file \in {<<>>, <<"x">>, <<"a", "/", "x">>, <<"a", "b", "/", "x">>},
            own \in {Env(<<"b">>), Env(None), [Home EXCEPT !.inProxy = TRUE]},
            p \in Programs}

MCCalls == Commands \cup Searches
MCDefaultPath == <<"b">>
=============================================================================
