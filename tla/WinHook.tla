------------------------------ MODULE WinHook ------------------------------
(***************************************************************************)
(* The Windows hook (src/catter-hook/win): a command whose CreateProcess   *)
(* is detoured (payload/main.cc) starts the proxy in place of the program, *)
(* and the proxy's hook::run (impl.cc) starts the program with the same    *)
(* library in it, so that what the program starts is caught in turn.  The  *)
(* model follows one chain of such commands, the outer ones waiting.       *)
(*                                                                         *)
(* On Windows a command line is one string; a program's runtime splits it. *)
(* Strings are sequences of characters here: what the proxy quotes must be *)
(* split as it was.  An environment is a sequence of entries [key, value]; *)
(* the values are ids, and those of other keys are not looked at.          *)
(***************************************************************************)
EXTENDS Naturals, Sequences, FiniteSets, SequencesExt

CONSTANTS
  Chars,                    \* characters
  Blank, Quote, Backslash,  \* those that splitting and quoting look at
  Program,  \* a program's name, without these characters
  IdKey,    \* CATTER_RPC_ID
  Lines,    \* Lines[n] is what may follow the program's name in the n-th call
  Blocks,   \* environments a caller may pass
  None,     \* a null pointer
  MaxId     \* bound on the ids the server gives

ASSUME CharsAssumption ==
  /\ {Blank, Quote, Backslash} \subseteq Chars
  /\ Blank # Quote /\ Blank # Backslash /\ Quote # Backslash
ASSUME ProgramAssumption ==
  /\ Program \in Seq(Chars \ {Blank, Quote, Backslash}) /\ Program # <<>>
  /\ Program # None
ASSUME LinesAssumption == \A n \in 1..MaxId : Lines[n] \subseteq Seq(Chars)
ASSUME MaxIdAssumption == MaxId \in Nat \ {0} /\ None \notin 0..MaxId

\* An environment has a variable once.
ASSUME BlocksAssumption ==
  /\ None \notin Blocks
  /\ \A b \in Blocks :
       /\ b \in Seq([key : {b[i].key : i \in 1..Len(b)}, value : 0..MaxId \cup {None}])
       /\ \A i, j \in 1..Len(b) : b[i].key = IdKey /\ b[j].key = IdKey => i = j

VARIABLES
  stage,    \* whose turn it is
  command,  \* the innermost command: its id, arguments and environment
  asked,    \* the call that is under way
  proxy,    \* what the proxy was started with
  lastId

vars == <<stage, command, asked, proxy, lastId>>

-----------------------------------------------------------------------------
(* Splitting a command line: the C runtime's rules.                        *)

Slashes(n) == [i \in 1..n |-> Backslash]

\* The arguments before, what has been read of the next one, whether it has
\* begun and how, and the backslashes not yet decided about.
Reading(args, word, mode, slashes) ==
  [args |-> args, word |-> word, mode |-> mode, slashes |-> slashes]
Between(args) == Reading(args, <<>>, "out", 0)
Within(mode) == IF mode = "quoted" THEN "quoted" ELSE "bare"

\* A quote after an odd number of backslashes is a character, and one right
\* after a quote that closed is, too; half of the backslashes before a quote
\* stay, and all of those before another character.
OnQuote(st) ==
  LET word == st.word \o Slashes(st.slashes \div 2) IN
    CASE st.slashes % 2 = 1 -> Reading(st.args, Append(word, Quote), Within(st.mode), 0)
      [] st.slashes % 2 = 0 /\ st.mode = "quoted" -> Reading(st.args, word, "closed", 0)
      [] st.slashes = 0 /\ st.mode = "closed" ->
           Reading(st.args, Append(word, Quote), "quoted", 0)
      [] OTHER -> Reading(st.args, word, "quoted", 0)

Ended(st) ==
  IF st.mode = "out" THEN st.args ELSE Append(st.args, st.word \o Slashes(st.slashes))

OnOther(st, c) ==
  IF c = Blank /\ st.mode # "quoted"
    THEN Between(Ended(st))
    ELSE Reading(st.args, Append(st.word \o Slashes(st.slashes), c), Within(st.mode), 0)

After(st, c) ==
  CASE c = Backslash -> Reading(st.args, st.word, Within(st.mode), st.slashes + 1)
    [] c = Quote -> OnQuote(st)
    [] OTHER -> OnOther(st, c)

Split(line) ==
  LET at[i \in 0..Len(line)] ==
        IF i = 0 THEN Between(<<>>) ELSE After(at[i - 1], line[i])
  IN Ended(at[Len(line)])

-----------------------------------------------------------------------------
(* Building one: quote_win32_arg and cmdline_of.                           *)

Before(arg, i) ==
  Cardinality({j \in 1..(i - 1) : \A k \in j..(i - 1) : arg[k] = Backslash})

Escaped(arg, i) ==
  CASE arg[i] = Backslash -> <<>>
    [] arg[i] = Quote -> Slashes(2 * Before(arg, i) + 1) \o <<Quote>>
    [] OTHER -> Slashes(Before(arg, i)) \o <<arg[i]>>

NeedsQuotes(arg) == \E i \in 1..Len(arg) : arg[i] \in {Blank, Quote}

\* Mutant of Quoted: the backslashes before the closing quote stay single.
QuotedOpen(arg) ==
  IF ~NeedsQuotes(arg) THEN arg
  ELSE <<Quote>> \o FlattenSeq([i \in 1..Len(arg) |-> Escaped(arg, i)])
         \o Slashes(Before(arg, Len(arg) + 1)) \o <<Quote>>

\* quote_win32_arg: an empty argument is not quoted either.
Quoted(arg) ==
  IF ~NeedsQuotes(arg) THEN arg
  ELSE <<Quote>> \o FlattenSeq([i \in 1..Len(arg) |-> Escaped(arg, i)])
         \o Slashes(2 * Before(arg, Len(arg) + 1)) \o <<Quote>>

\* Mutant of CmdlineOf: the program is left out.
CmdlineOfArguments(args) ==
  FlattenSeq([i \in 1..(Len(args) - 1) |-> <<Blank>> \o Quoted(args[i + 1])])

CmdlineOf(args) ==
  Quoted(Head(args))
    \o FlattenSeq([i \in 1..(Len(args) - 1) |-> <<Blank>> \o Quoted(args[i + 1])])

-----------------------------------------------------------------------------
(* Environments.                                                           *)

Entry(key, value) == [key |-> key, value |-> value]
Has(env, key) == \E i \in 1..Len(env) : env[i].key = key
Get(env, key) == env[CHOOSE i \in 1..Len(env) : env[i].key = key].value

\* SetEnvironmentVariable.
Set(env, key, value) ==
  IF Has(env, key)
    THEN [i \in 1..Len(env) |->
            IF env[i].key = key THEN Entry(key, value) ELSE env[i]]
    ELSE Append(env, Entry(key, value))

Without(env, key) ==
  FlattenSeq([i \in 1..Len(env) |-> IF env[i].key = key THEN <<>> ELSE <<env[i]>>])

\* get_rpc_id: without the variable the buffer it returns is not written, and
\* reads as some id or as none.
Ids(env) == IF Has(env, IdKey) THEN {Get(env, IdKey)} ELSE 0..MaxId \cup {None}

\* fix_env_block: the process's own environment if there is none, else the
\* caller's with an id in it.
Fixed(block, id) ==
  CASE block = None -> command.env
    [] block # None /\ Has(block, IdKey) -> block
    [] OTHER -> Append(block, Entry(IdKey, id))

\* concat_cmdline.
Concat(application, line) ==
  IF application = None THEN line
  ELSE <<Quote>> \o application \o <<Quote, Blank>> \o line

-----------------------------------------------------------------------------
(* The command's side.                                                     *)

\* CreateProcessA and CreateProcessW start the proxy, with `-p id --' and the
\* command line behind it.  The proxy's own path, which is not quoted, is
\* taken to have no blank.
Detour(application, line, block) ==
  /\ stage = "command"
  /\ lastId < MaxId
  /\ \E id, other \in Ids(command.env) :
       proxy' = [parent |-> id,
                 args |-> Split(Concat(application, line)),
                 env |-> Fixed(block, other)]
  /\ asked' = [application |-> application, line |-> line, block |-> block]
  /\ stage' = "proxy"
  /\ UNCHANGED <<command, lastId>>

\* CreateProcessAsUserA and CreateProcessAsUserW pass the call on: what they
\* start is not caught.
DetourAsUser ==
  /\ stage = "command"
  /\ stage' = "free"
  /\ UNCHANGED <<command, asked, proxy, lastId>>

\* A command takes the variable out of its own environment.
Clears ==
  /\ stage = "command"
  /\ Has(command.env, IdKey)
  /\ command' = [command EXCEPT !.env = Without(@, IdKey)]
  /\ UNCHANGED <<stage, asked, proxy, lastId>>

-----------------------------------------------------------------------------
(* The proxy's side.                                                       *)

\* The proxy's main cannot read an id (stoi throws), and reports an error.
Unnamed ==
  /\ stage = "proxy"
  /\ proxy.parent = None
  /\ stage' = "failed"
  /\ UNCHANGED <<command, asked, proxy, lastId>>

\* The proxy's main has asked the server, which gives it an id.
Created ==
  /\ stage = "proxy"
  /\ proxy.parent # None
  /\ lastId' = lastId + 1
  /\ stage' = "run"
  /\ UNCHANGED <<command, asked, proxy>>

\* Mutant of Block: the environment is copied before the id is set.
BlockBefore(env, id) == env

\* The environment run hands to the program.
Block(env, id) == Set(env, IdKey, id)

\* hook::run, with the library in the program it starts.
Run ==
  /\ stage = "run"
  /\ command' = [id |-> lastId, args |-> Split(CmdlineOf(proxy.args)),
                 env |-> Block(proxy.env, lastId)]
  /\ stage' = "command"
  /\ UNCHANGED <<asked, proxy, lastId>>

\* The program cannot be started, or its exit code not be had: run throws.
RunFails ==
  /\ stage = "run"
  /\ stage' = "failed"
  /\ UNCHANGED <<command, asked, proxy, lastId>>

-----------------------------------------------------------------------------
NoCall == [application |-> None, line |-> Program, block |-> None]

\* The command that catter was called with has the first id.
Init ==
  /\ stage = "command"
  /\ command = [id |-> 1, args |-> <<Program>>, env |-> <<Entry(IdKey, 1)>>]
  /\ asked = NoCall
  /\ proxy = [parent |-> 0, args |-> <<Program>>, env |-> <<>>]
  /\ lastId = 1

Next ==
  \/ \E application \in {None, Program}, rest \in Lines[lastId], block \in Blocks \cup {None} :
       Detour(application, Program \o <<Blank>> \o rest, block)
  \/ DetourAsUser
  \/ Clears
  \/ Unnamed \/ Created \/ Run \/ RunFails

Spec == Init /\ [][Next]_vars

-----------------------------------------------------------------------------
(* Properties.                                                             *)

Entries == [key : {IdKey} \cup UNION {{b[i].key : i \in 1..Len(b)} : b \in Blocks},
            value : 0..MaxId \cup {None}]

\* Every variable holds a value of its kind, and a proxy is always told of a
\* program to run.
TypeOK ==
  /\ stage \in {"command", "proxy", "run", "free", "failed"}
  /\ lastId \in 1..MaxId
  /\ command.id \in 1..MaxId
  /\ command.args # <<>> /\ proxy.args # <<>>
  /\ command.env \in Seq(Entries) /\ proxy.env \in Seq(Entries)
  /\ proxy.parent \in 0..MaxId \cup {None}

\* The arguments that are not empty.
Kept(args) ==
  FlattenSeq([i \in 1..Len(args) |-> IF args[i] = <<>> THEN <<>> ELSE <<args[i]>>])
Intended == Split(asked.line)

\* A command caught on its way arrives with the arguments it was given, split
\* from one command line, quoted into another (impl.cc:22-64) and split again:
\* no argument is cut, joined with the next or changed.  Only empty ones are
\* lost, and a caller that names the application apart finds its name twice.
ArgumentsArrive ==
  stage = "command" /\ command.id > 1 =>
    command.args =
      (IF asked.application = None THEN <<>> ELSE <<asked.application>>)
        \o Kept(Intended)

\* The server is told of the command that made the call, and of no ancestor of
\* it, whatever environment the call passed on: a command's environment says
\* its own id, unless it took the variable out itself.
CallerIsNamed ==
  /\ stage \in {"proxy", "run"} /\ Has(command.env, IdKey) =>
       proxy.parent = command.id
  /\ Has(command.env, IdKey) =>
       Get(command.env, IdKey) = command.id
       /\ Cardinality({i \in 1..Len(command.env) : command.env[i].key = IdKey}) = 1
=============================================================================
