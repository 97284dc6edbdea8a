---------------------------- MODULE HookLibrary ----------------------------
(***************************************************************************)
(* The hook library in the process that loaded it, through one call of one *)
(* of its exec hooks: the session it took from the environment when it was *)
(* loaded (session.cc), the hooks themselves (inject/lib.cc), the Resolver *)
(* with the splitter it walks a search path with (resolver.cc, paths.h),   *)
(* and the Executor of HookExec.                                           *)
(*                                                                         *)
(* HookExec is told in `given' what the Resolver answers.  Here that is    *)
(* the answer the Resolver owes its caller (Answers), and the executor     *)
(* goes on when the Resolver has come to it, step by step.                 *)
(*                                                                         *)
(* A path is a sequence of characters.  Of an environment only what        *)
(* get_env_value and getenv find in it is kept.                            *)
(***************************************************************************)
EXTENDS HookExec

CONSTANTS
  Characters,
  Separator,    \* OS_PATH_SEPARATOR
  Slash,        \* OS_DIR_SEPARATOR
  None,         \* a null pointer
  DefaultPath,  \* what confstr says of _CS_PATH; None if it says nothing
  StaticSize,   \* BUFFER_SIZE
  Calls

Direct == {"execve", "execv", "exect", "execl", "execle", "posix_spawn"}
Searching == {"execvpe", "execvp", "execlp", "posix_spawnp"}
WithPath == {"execvP"}
\* The hooks that pass on the environment of the process.
Inheriting == {"execv", "execl", "execvp", "execlp", "execvP"}

Paths == Seq(Characters) \cup {None}
Environments ==
  [inProxy : BOOLEAN, proxy : BOOLEAN, id : BOOLEAN, path : Paths]

\* hook is the function called and file its first argument; args are the
\* lengths of the arguments after the program's name, in a vector or one by
\* one; search is execvP's path; passed is the envp argument, and own and
\* loaded the environment of the process now and when it loaded the library;
\* programs are the executable regular files, as the process can name them:
\* a name that ends with a slash is a directory's.
ASSUME PathsAssumption ==
  /\ None \notin Seq(Characters)
  /\ Slash \in Characters
  /\ DefaultPath \in Paths
  /\ StaticSize \in Nat
  /\ PathMax >= 1
  /\ 1..PathMax \subseteq Lengths
ASSUME CallsAssumption ==
  \A c \in Calls :
    /\ c.hook \in Direct \cup Searching \cup WithPath
    /\ c.file \in Paths
    /\ c.file # None => Len(c.file) \in Lengths
    /\ c.args \in UNION {[1..n -> Lengths] : n \in 0..MaxArgs}
    /\ c.search \in Paths
    /\ {c.passed, c.own, c.loaded} \subseteq Environments
    /\ c.programs \subseteq Seq(Characters) \ {<<>>}
    /\ \A f \in c.programs : f[Len(f)] # Slash

VARIABLES
  call,
  route,   \* whose code the call runs
  cursor,  \* the iterator of the splitter
  place    \* what the Resolver has come to

libVars == <<call, route, cursor, place>>
allVars == <<vars, libVars>>

Nowhere == [begin |-> 0, end |-> 0]
Unknown == [is |-> "unknown", path |-> <<>>]
Missing == [is |-> "missing", path |-> <<>>]
At(path) == [is |-> "found", path |-> path]

-----------------------------------------------------------------------------
(* The session.                                                            *)

\* session::from, and persist: a session that is whole is copied to a buffer
\* and loses what does not fit.
SessionOf(env) ==
  LET proxyFits == ProxyLen + 1 <= StaticSize
      idFits == (IF proxyFits THEN ProxyLen + 1 ELSE 0) + IdLen + 1 <= StaticSize
      whole == env.proxy /\ env.id
      hasProxy == env.proxy /\ (whole => proxyFits)
      hasId == env.id /\ (whole => idFits)
  IN CASE hasProxy /\ hasId -> "valid"
       [] hasProxy /\ ~hasId -> "no_id"
       [] ~hasProxy /\ hasId -> "no_proxy"
       [] ~hasProxy /\ ~hasId -> "lost"

-----------------------------------------------------------------------------
(* What the Resolver owes its caller.                                      *)

HasSlash(file) == \E i \in 1..Len(file) : file[i] = Slash

\* A hook that is given a path, or whose file is one, does not search.
IsSearched(c) == c.hook \notin Direct /\ ~HasSlash(c.file)

SearchPath(c) ==
  LET env == IF c.hook \in Inheriting THEN c.own ELSE c.passed IN
    IF c.hook \in WithPath THEN c.search
    ELSE IF env.path # None THEN env.path ELSE DefaultPath

\* A path that result_ cannot hold is no program.
IsProgram(c, path) == Len(path) <= PathMax /\ path \in c.programs

\* The characters from, .., upto - 1 are one piece of the search path.
IsPiece(s, from, upto) ==
  /\ from \in 1..Len(s)
  /\ upto \in from..(Len(s) + 1)
  /\ from = 1 \/ s[from - 1] = Separator
  /\ upto = Len(s) + 1 \/ s[upto] = Separator
  /\ \A k \in from..(upto - 1) : s[k] # Separator

Candidate(c, from, upto) ==
  SubSeq(SearchPath(c), from, upto - 1) \o <<Slash>> \o c.file

\* An empty piece names no directory, and a path too long is not tried.
LeadsTo(c, from, upto) ==
  /\ from < upto
  /\ Len(c.file) + (upto - from) + 1 <= PathMax
  /\ Candidate(c, from, upto) \in c.programs

IsFound(c, from, upto) ==
  /\ IsPiece(SearchPath(c), from, upto)
  /\ LeadsTo(c, from, upto)

\* The file itself, or what the first piece that leads to a program leads to.
Answers(c) ==
  IF ~IsSearched(c)
    THEN {IF IsProgram(c, c.file) THEN At(c.file) ELSE Missing}
  ELSE IF SearchPath(c) = None THEN {Missing}
  ELSE LET ends == 1..(Len(SearchPath(c)) + 1)
           good == {p \in ends \X ends : IsFound(c, p[1], p[2])}
       IN IF good = {} THEN {Missing}
          ELSE {At(Candidate(c, p[1], p[2])) :
                  p \in {q \in good : \A r \in good : q[1] <= r[1]}}

GivenFor(c) ==
  IF c.file = None
    THEN {[session |-> SessionOf(c.loaded), file |-> "null", path |-> 1,
           exe |-> 1, args |-> c.args]}
    ELSE {[session |-> SessionOf(c.loaded), file |-> a.is, path |-> Len(c.file),
           exe |-> IF a.is = "found" THEN Len(a.path) ELSE 1,
           args |-> c.args] : a \in Answers(c)}

-----------------------------------------------------------------------------
(* The hooks.                                                              *)

\* IF_IN_PROXY: what the proxy itself starts is not caught again.
Bypassed ==
  /\ route = "called"
  /\ call.own.inProxy
  /\ route' = "system"
  /\ UNCHANGED <<vars, call, cursor, place>>

Hooked ==
  /\ route = "called"
  /\ ~call.own.inProxy
  /\ route' = "hook"
  /\ UNCHANGED <<vars, call, cursor, place>>

\* The executor waits for the Resolver where it calls it.
ExecutorStep ==
  /\ route = "hook"
  /\ pc = "resolve" => place.is = given.file
  /\ Next
  /\ UNCHANGED libVars

-----------------------------------------------------------------------------
(* The Resolver.                                                           *)

Resolving ==
  route = "hook" /\ pc = "resolve" /\ place = Unknown

\* from_current_directory.
LookUp ==
  /\ Resolving
  /\ ~IsSearched(call)
  /\ place' = IF IsProgram(call, call.file) THEN At(call.file) ELSE Missing
  /\ UNCHANGED <<vars, call, route, cursor>>

\* Splitter::begin; there is nothing to iterate over in an empty path.
BeginSearch ==
  /\ Resolving
  /\ IsSearched(call)
  /\ cursor = Nowhere
  /\ IF SearchPath(call) = None \/ SearchPath(call) = <<>>
       THEN place' = Missing /\ UNCHANGED cursor
       ELSE cursor' = [begin |-> 1, end |-> 1] /\ UNCHANGED place
  /\ UNCHANGED <<vars, call, route>>

AtEnd == cursor.end = Len(SearchPath(call)) + 1
AtSeparator == ~AtEnd /\ SearchPath(call)[cursor.end] = Separator

\* next_path_separator.
Scan ==
  /\ Resolving
  /\ cursor # Nowhere
  /\ ~AtEnd /\ ~AtSeparator
  /\ cursor' = [cursor EXCEPT !.end = @ + 1]
  /\ UNCHANGED <<vars, call, route, place>>

\* Mutant of NextPiece: the separator is not skipped a second time.
NextPieceAtTwo ==
  IF AtEnd \/ cursor.end + 1 = Len(SearchPath(call)) + 1
    THEN place' = Missing /\ cursor' = Nowhere
    ELSE cursor' = [begin |-> cursor.end + 2, end |-> cursor.end + 2]
         /\ UNCHANGED place

\* Splitter::next: a separator that ends the search path begins no piece.
NextPiece ==
  IF AtEnd \/ cursor.end + 1 = Len(SearchPath(call)) + 1
    THEN place' = Missing /\ cursor' = Nowhere
    ELSE cursor' = [begin |-> cursor.end + 1, end |-> cursor.end + 1]
         /\ UNCHANGED place

\* The body of from_search_path's loop.
Try ==
  /\ Resolving
  /\ cursor # Nowhere
  /\ AtEnd \/ AtSeparator
  /\ IF LeadsTo(call, cursor.begin, cursor.end)
       THEN place' = At(Candidate(call, cursor.begin, cursor.end))
            /\ UNCHANGED cursor
       ELSE NextPiece
  /\ UNCHANGED <<vars, call, route>>

-----------------------------------------------------------------------------
LibInit ==
  /\ call \in Calls
  /\ given \in GivenFor(call)
  /\ Init
  /\ route = "called"
  /\ cursor = Nowhere
  /\ place = Unknown

LibNext ==
  \/ Bypassed \/ Hooked
  \/ ExecutorStep
  \/ LookUp \/ BeginSearch \/ Scan \/ Try

LibSpec == LibInit /\ [][LibNext]_allVars

-----------------------------------------------------------------------------
(* Properties.                                                             *)

\* The Resolver's answer is the one it owes: the file itself where it is not
\* searched for, else the program that the first piece of the search path
\* leads to.  The splitter loses no piece and no character of one, empty
\* pieces and a separator at the end included (paths.h:51-61), and a path too
\* long to be put together hides no later one.
FindsTheFirst == place # Unknown => place \in Answers(call)

\* How far the search has come: the iterator is at a piece, has passed no
\* separator in it, and no piece before it led anywhere.
NotPassed ==
  cursor # Nowhere =>
    LET s == SearchPath(call) IN
      /\ IsSearched(call) /\ s # None
      /\ cursor.begin \in 1..Len(s)
      /\ cursor.end \in cursor.begin..(Len(s) + 1)
      /\ cursor.begin = 1 \/ s[cursor.begin - 1] = Separator
      /\ \A k \in cursor.begin..(cursor.end - 1) : s[k] # Separator
      /\ \A from, upto \in 1..(Len(s) + 1) :
           IsPiece(s, from, upto) /\ LeadsTo(call, from, upto) =>
             from >= cursor.begin
=============================================================================
