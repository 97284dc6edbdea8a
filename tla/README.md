# catter in TLA+

This directory holds TLA+ models of catter, the TLC configurations that check
them on small instances and proofs about them for TLAPS.  Paths below are
relative to the repository root (`src/catter/main.cc`, ...); `PROJECT.json`
names the lines behind every definition.

## 1. The system

catter runs a build and intercepts every process it creates.

| part | state it keeps | operations |
|---|---|---|
| server (`src/catter/main.cc`) | the id generator, one `accept` coroutine per connection, the vector of coroutines, what it printed | `loop`: bind, listen, spawn the root proxy, wait, destroy the coroutines; `accept`: CREATE, MAKE_DECISION, FINISH, REPORT_ERROR, end of file |
| proxy (`src/catter-proxy`) | its pipe, `parent_id`, `id`, the environment it was given | connect, create, locate, make_decision, run, finish, report_error, close |
| hook runner (`src/catter-hook/linux-mac/impl.cc`) | none | locate the executable, extend the environment, spawn, wait |
| hook library (`src/catter-hook/linux-mac/payload`) | the session read from the environment at load time; per exec call a resolver result and a command builder (character area, argument vector) | the exec and posix_spawn hooks, resolve, build a proxy or an error command |
| uv awaiters, coroutines (`src/common/uv/uv.h`, `src/common/util/lazy.h`) | coroutine frames, handles to close, continuations | read, write, connect, spawn, close, cleaner, wait |
| serialisation (`src/common/util/serde.h`, `src/common/uv/rpc_data.h`) | none | serialize, deserialize from a reader |
| option parser (`src/common/option`) | position in the argument vector and in a group of short options | match, parse one, parse all |
| JavaScript runtime and API (`src/catter/core`, `api/src`) | a global promise state, a table of open files, stream objects | run a script, file and stream calls |
| Windows hook (`src/catter-hook/win`) | the process's environment | detour CreateProcess to the proxy, quote and join arguments, set the id, inject |

How they interact: the server spawns the root proxy; a proxy talks to the
server over one pipe, request after request, and spawns its command with the
hook library preloaded; the hook replaces each program the command executes by a
further proxy, and hands it the command id it found in its environment as the
parent id.  The server is one thread with a libuv loop; proxies and commands are
processes and run concurrently.

Hard behaviour: connections accepted, served and closed in any order; processes
killed between any two steps; answers written to a proxy that is gone; the server
ending, or dying, while proxies still wait; background processes that outlive the
root command; coroutines destroyed while libuv still closes their pipes;
environments that carry ids of several ancestors; strings of length zero on the
wire; argument vectors that do not fit.

What makes each part correct:

* server and proxies: ids are never mixed up, the recorded tree is a tree, no
  command runs before its decision, one verdict per command and a true one, exit
  codes are passed through, the reports of foreground commands are in before the
  server returns, and nobody waits for ever;
* event loop: a handle is closed once, a coroutine is destroyed only when its
  handles are closed, what a proxy sent before it exited is read to its end before
  `loop` goes on, and `loop` returns;
* command builder: a complete vector or an error message, never a truncated
  command, never a write outside the areas;
* resolver, serialisation, option parser, quoting: agree with a reference
  definition on every input;
* JavaScript runtime and files: a script sees its own outcome, a stream does what
  its documentation says after it met its end or was closed.

## 2. Modules

* **CommandLifecycle**: the abstract promise.  A command is registered under a
  fresh number with a registered parent, decided, run, over, reported, each at
  most once and in this order.
* **CatterRpc**: server, proxies, pipes and commands.  `srv`, `idGen`, `acc`,
  `accId` are the server's state, the coroutine of each connection and its `id`;
  `ledger` is the set of lines it prints about commands; `conn`, `c2s`, `s2c` are
  a pipe and the messages on their way; `pc` is the position in the proxy's
  `main`, `id`, `parentId`, `env`, `ret` its locals; `cmd`, `code` the command it
  runs.  One action per request a proxy sends or answer it reads, per message
  the coroutine handles, per way to fail.  The environment's failures are
  selected by the constant `Faults`.  A write on a pipe whose other end is closed
  either fails (the code's error path) or kills the writer, since nothing handles
  SIGPIPE: `WriteFails`/`BrokenPipe`, `Answer`/`ServerBrokenPipe`.
  `Teardown` is what `loop` leaves behind when it destroys the coroutines, which
  closes none of their pipes.  All done: the server ends.  One not done and
  assertions on (`Builds`): `~Lazy` aborts the process, and the kernel closes the
  pipes.  One not done and assertions off: frame and `uv_pipe_t` are freed, the
  descriptor stays open and the handle active, so that `uv_run` does not return
  (`srv` is `freed`) and a proxy that waits for an answer is `Abandoned`; a callback
  for the freed pipe may still end the process (`FreedCrashes`, which nothing forces).
  The ledger is what the server handed to `println`: an abort or a crash may lose what
  is still in stdout's buffer.
  It implements CommandLifecycle under the mapping at its end (`KeepsLifecycle`):
  the phase of a command is read off the ledger and the command's state.
* **ServerLoop**: the same server seen from below, one libuv iteration at a
  time: write callbacks, poll, callbacks, close callbacks; the coroutines `accept`,
  `spawn` and `loop` with the cleaner that closes their handles.  A request is so many
  reads (`CreateReads`, `DecisionReads`, `ReportReads`: one per number, two per string),
  of which one poll does `PerPoll` (32 in libuv); `unread` is what the last request
  still takes, `asks` whether it is to be answered.  The answer is an awaited write
  (`writing`, `OnWritten`), which may take until the proxy has read the one before or,
  for a proxy that was killed, fail.  A killed proxy (`Abrupt`) leaves a request that is cut
  anywhere.  CatterRpc takes from this module that the connections that were accepted,
  and whose proxy *exited* before the root, are read to their end before `loop` resumes
  (`ServedAreRead` here, the variable `settled` there): such a proxy has had its
  answers, so that its report is all that is left, five reads and the end of file.
  Of killed proxies neither module says this, and it is not so.
* **HookExec**: one call of an exec hook: `Executor` with its `CmdBuilder` and
  `Buffer`.  `mem` and `argv` are the builder's two areas, `argc`, `base`, `top`
  its positions in them, `todo` the strings the function in progress still has to
  store (`store_arg`) or push (`error_str`), `saved` the position `proxy_str` goes
  back to, `why` the reason of the last `error_str`, `final` the executor's
  `final_cmd_or_error`.  One action per string stored or pushed, and per decision
  of the executor.  The five functions of Executor differ in the resolver's entry
  and in the linker's, so one call stands for all.
* **HookLibrary**: HookExec inside the process that loaded the library.  `call` is
  the hook that was called, with its arguments, the environment that is passed on,
  the process's own and the one the session was read from at load time; `route` is
  whose code the call runs (the proxy's own calls go past the hooks); `cursor` and
  `place` are the splitter's iterator and what the Resolver has come to, one
  action per step of the iterator and per directory tried.  HookExec takes the
  Resolver's answer as a given; here it is the one the Resolver owes (`Answers`,
  the program of the first piece of the search path that leads to one), and the
  executor waits at that point until the search has come to it.  `FindsTheFirst`
  says that the search comes to what is owed.
* **OptParser**: `OptTable::parse_args` over one argument vector.  `argv` and `index`
  are the arguments, a group of short options cut in place, and the position;
  `start` and `fallback` the state of the search through the table, which is one
  action per option that is looked at (`accept` and its classes are operators); `out`
  the results handed to the callback; `Rendered` the stream that `to_arg_str` writes for
  one, which no program of the repository calls yet; `stop` where `--` ended the options; `pc` ends
  in one of the ways out (`done`, `missing`, `threw`).
* **FileStreams**: FileStream and TextFileStream on the table `open_files`: an entry
  is a position and whether the stream has failed, the two things a `std::fstream`
  keeps; a Uint8Array is a view of a buffer (`Given` is what it shows, `Passed` what
  `write` makes of it); `streams` are the script's objects, `frames` the calls of `with` under way,
  `task` the line-reading call in progress (a loop over chunks, one action per
  chunk), `outcome` what the last call returned.
* **JsRuntime**: `run_js_file` with its callbacks, the one `promise_state` and
  `error_strace`, and the job queue (external): scripts run, await, settle what others
  await, end or throw.
* **ScriptHost**: JsRuntime and FileStreams together: what runs makes the stream
  calls, and a stream stays open across awaits and scripts.
* **WinHook**: the Windows hook on a chain of commands: `asked` is the call of
  CreateProcess that was caught, `proxy` what the proxy was started with (the id it
  was told, the arguments its runtime split, its environment), `command` the
  innermost command.  Quoting is translated from `quote_win32_arg` and
  `concat_cmdline`; how a program's runtime splits its command line and
  `SetEnvironmentVariable` are external.
* **CatterRpcProofs**, **LedgerProofs**: the theorems about CatterRpc, the second on
  top of the first: ids and the tree; the verdicts and the refinement.
  **ServerLoopProofs**, **HookProofs**, **OptParserProofs**, **ScriptHostProofs**,
  **WinHookProofs**: those about ServerLoop; HookExec and HookLibrary; OptParser;
  FileStreams, JsRuntime and ScriptHost; WinHook.  **SequenceLemmas**: what several
  of them need, induction over numbers and the concatenation of sequences.
* **MCCatterRpc**, **MCServerLoop**, **MCHookExec**, **MCHookLibrary**, **MCOptParser**,
  **MCScriptHost**, **MCWinHook**: instances for TLC.

Definitions whose comment begins with "Mutant" are variants of the definition that
follows them; substituted for it they make a property fail.  They are not part of
the specification.

## 3. Runs

| run | instance | shows |
|---|---|---|
| order | 3 proxies, two exit codes, failing accepts, server dies anywhere, no background, both builds | every readable command runs and its finish is recorded before the server returns, but for a failed accept or the server's death; ids, decisions and the recorded tree are consistent in every order of accepts and messages; refinement of CommandLifecycle |
| faults | 2 proxies, background processes, every fault, both builds | what is recorded is true and said once; exit codes pass through; proxies and server end, but for what a release build frees without closing it |
| parent | 3 proxies, no fault | violation, see 6 |
| signal | 2 proxies, commands die of signals | violation, see 6 |
| loop | 3 connections, one in the background, the root's may be killed; 2 reads per poll, commands of 3 reads | handles close once; what was sent by a proxy that exited is read; `loop` returns, or breaks at a coroutine that is not done, and returns when all are |
| teardown | 1 connection, nothing killed | violation, see 6 |
| exec | area of 16 characters, 8 pointers, up to 3 arguments of 0, 1 or 3 characters, 11 hooks, every session, search paths of up to 5 characters, paths of up to 3, a static buffer of 4 | what the proxy is started with is the whole command or one message; nothing is written out of bounds; no command that fits is given up; the program is the one the search path leads to |
| lost | area and pointers as above, any answer of the resolver | violation, see 6 |
| parser | vectors of up to 3 arguments (2 for groups); the tables of both programs, and tables with every class, groups, aliases, hidden options, with and without the binary search and upper case | the results account for the whole command line and point at it; unknown and missing are said only when true; what is written for a result parses to it again; parsing ends |
| missing | vectors for the programs' own tables | violation, see 6 |
| scripts | chunks of 2; data that is a whole buffer or the end of one; one script on every text of up to 3 characters and a file that grows by one, streams opened twice; two scripts with one await each | what is read is what the file holds; appended text arrives; a closed stream reaches no other file; `with` leaves nothing open; a script gets its own verdict; reading ends |
| win | chains of 3 commands, the first called with every command line of up to 4 characters (letter, blank, quote, backslash), environments with and without an id | the arguments arrive; the server is told of the caller |

Bounds.  A proxy process is used once, so the number of proxies bounds a
behaviour; every other variable is bounded by the protocol (at most one message is
under way per direction).  Two proxies give every race between a parent and its
child, three give siblings and three levels of the tree.  The proxies other than
the root are symmetric; symmetry is not used where liveness is checked.  For HookExec the area and
the vector are chosen so that either can run out, at each string of a command, and
so that a message can fill the area exactly.  Exit
codes matter only as equal or different, so one or two of them are enough.

Five characters of a search path hold two separators with a piece between and
around them, empty pieces at each end, and pieces one character too long for
`PathMax`.  The static buffer of 4 holds path and id, one of them or none.  For
OptParser an argument is at most a prefix, a name and a value, or a group of three
letters, and three arguments are an option, its values and one that follows them.
One of the tables has render flags, which no table of the repository sets, and values with
a blank and empty ones are among the arguments.
Two reads per poll and requests of one and three reads make a command take two polls and
a report end before the last read of one, as with 32 and real commands; one proxy that can
be killed and one in the background meet every state of the root's connection.
A chunk of 2 (32 in the code) and texts of 3 put a newline before, at and after the
end of a chunk and the end of the file at both; the properties do not depend on
the size of a chunk otherwise.  Two scripts are enough for one to speak for the other.
Command lines of 4 characters have backslashes, singly and doubled, before a quote, at
the end of an argument and elsewhere; the third command of a chain shows that nothing
gets worse by being quoted again.

## 4. Fairness

`CatterRpc!Fairness`: weak fairness of what the operating system schedules
(a proxy with a step to take takes one), of what libuv does with a ready pipe
(each connection's steps), of `loop` (start, and end after the root proxy's exit
is reported) and of the commands (a build's commands end).  No fault, no kill, no
crash and no launch is ever forced; nor is a callback for a pipe that was freed, which
would be an outcome of undefined behaviour.  The steps of one proxy, or of one
coroutine, are sequential code, so weak fairness of their disjunction is enough.

`ServerLoop!FairSpec`: weak fairness of the event loop's steps (`UvStep`) and of nothing
else: the server process runs, and `uv_run` goes on while it has something to do.  In
each phase of an iteration the callbacks are finite.  Nothing is asked of the
proxies, which may stop anywhere.

`OptParser!FairSpec` and `ScriptHost!FairSpec`: weak fairness of the parser's steps and
of the line-reading loop's (`Reads`).  Both are loops of sequential code on the
only thread that could do anything else; scripts themselves are never forced to
run, await or end.

## 5. What is proved

`CatterRpcProofs.tla` proves, for every set of proxies, codes and faults:

* `TypeCorrect`: `Spec => []TypeOK`;
* `Agreement`: `Spec => []IInv`, the inductive invariant;
* `OwnIds`, `DecidedFirst`, `RecordedTree`: `IdsAreOwn`, `RunsOnlyDecided` and
  `ParentIsOlder` are invariants.

None of the three is inductive: that an id is its connection's needs to know that
the one message on a pipe is the answer to its proxy's own request (`TalkOK`) and
that ids are taken once per connection (`AcceptOK`); that a command was decided
needs the answer on the pipe to be backed by the ledger (`TalkOK`, `ProgressOK`);
that the tree is a tree needs every id in an environment to have been recorded
before the connection of the child was accepted (`TreeOK`), and every entry to
be about its own connection (`EntryOK`).  `IInv` is the conjunction of these five.
The argument: a step of one proxy does not disturb what is said of another
(`Undisturbed`, `EntriesKept`, `OwnStep`); what remains per action is the part of
the proxy that moves, for which one lemma per group of actions suffices
(`ProxyTalks`, `ReportKeeps`, `ProxyGoes`, `TakesId`, `ServerTalks`, ...).

On the same invariant rests

* `OnlyTheRefusedAreNotRun`: `Orderly` implies `Spec => []CommandsRun`.

`Orderly` says that there are no background processes and no faults but `boot`,
`accept`, `wait`, `crash` and `misuse`.  The others keep a command from running without a
failed accept or a crash of the server: a proxy is killed, cannot connect, locate or
spawn, or its command dies of a signal.  A background process outlives the
root command, and the server may end before its proxy was served.  `RunInv` says of each proxy that it
gets as far as its command unless it is excused (`ThroughOK`), that it has its pipe
unless it is excused (`PipeOK`), and that the command that launched it still runs and was
accepted earlier (`LaunchOK`).  The step that matters is the server's end: it comes after
the root proxy has gone, and then nobody is left (`NobodyLeft`), since whoever is was
launched by a command with a smaller id that is still there, and ids do not descend for ever.

`LedgerProofs.tla` proves, on top of it:

* `VerdictsAgree`: `Spec => []VInv`;
* `TrueFinishes`, `SaidOnce`, `CodesPassed`, `NothingLost`: `FinishIsTrue`, `OneVerdict`,
  `ExitCodeTransparent` and `LedgerComplete` are invariants.

`VInv` follows a result on its way: `ret` is the command's result from the wait on
(`ResultOK`), a finish on the pipe carries it and an error its own id (`MessageOK`), and
what a proxy that left in good order had to say is in the ledger or still on a pipe
that a coroutine reads (`SaidOK`).  A verdict in the ledger was the last message of its
proxy (`VerdictOK`), which is why there is no second one.  `LedgerComplete` then needs that
`loop` ends after the root's exit only (`EndOK`) and that no coroutine of a settled
proxy is still reading then.  A step leaves the verdicts alone as long as
nothing they say is taken back (`Stays`, `VerdictsStay`).

It also proves `Implements`: `Spec => KeepsLifecycle`.  Every step maps
to one step of CommandLifecycle or to none (`StepImplements`): only the start and the end
of a command and the three messages that are recorded move a phase.  That they find
their command in the phase before is `LInv`: a request on a pipe is never for a phase
the ledger already has (`AsksForTheNext`), and every entry is about one connection
(`EntryIsId`), so that what is recorded of one command moves no other.

`ServerLoopProofs.tla` proves, for any number of connections:

* `TypeCorrect`, and `LoopAgrees`: `Spec => []LoopInv`;
* `ClosedOnce` and `NoneForgotten`: `HandlesCloseOnce` and `ServedAreRead` are invariants.

`CloseOK` is the first in a form that a step keeps: the handles that wait for their
callback, in this iteration or the next, are those whose cleaner waits for them, and the
list has no doubles; `PushFront` and `DropHead` say what `uv_close` and a close callback
do to such a list, `OccursOnce` counts.  The second needs what a proxy that exited has
left (`PeerOK`: all its requests are answered, and its report is shorter than a
poll's reads) and the order of one poll: the signal is polled with every pipe of such a
proxy that is not yet read to its end (`ReadOK`), is called back after them, and `loop` waits for
spawn.  Nothing of the kind holds for a killed proxy, whose command may take more
polls.  That the acceptors are also *done* by then is false, which is the finding
`teardown`.  The hypothesis on the constants, `ReadsAssumption`, is that a report takes fewer
reads than one poll does: 5 and 32.

`HookProofs.tla` proves of HookExec, for any size of the area and of the vector and any
strings that meet `RoomAssumption` (the leading part and a message about a path
fit, which is what the constructor's comment claims of BUF_SIZE):

* `TypeCorrect`, `Bounded` (`Spec => []Bounds`) and `StoredIsKept` (`Spec => []IInv`);
* `NoOverrun`, `RunsAsGiven`, `ProxiedWhole`, `FittingIsBuilt`: `StaysInBounds`,
  `ArgumentsKept`, `VectorIsWhole` and `GivesUpOnlyWhenFull` are invariants.

The bounds are not inductive by themselves.  `Bounds` adds how much the constructor
has taken after each of its strings (`LaidOut`), that outside `proxy_str` at most
three pointers are in use, so that an error message always finds its two
(`Restored`), that after an overflow prefix and path are pushed from `base` on
and fit (`MessageFits`), and which fallbacks `final` can hold (`Original`).

That the vector is whole says something of every character behind every pointer, so
`IInv` adds what a string needs to survive the strings behind it: `Layout`, that the
strings stored so far lie in the area one behind the other, each pointer at its own,
that those of the constructor end at or before `base`, and that what is still `todo` is
the rest of the command; `Unspoiled`, that no command is being built once there is a
message to be returned in its place; `Built`, that a command, once built, stays
as it has to be until it is run.  A store writes from `top` on, a message from `base`
on, and both are behind every pointer that is kept: a message goes over a command that
was given up, whose pointers `Overflow` takes back.

That a command which fits is built needs a sum instead (`Tally`): what is stored and
what is still `todo` take together the room of the whole command, while the constructor
runs the room of its leading part.  So a string that does not fit any more shows that the
whole does not (`RoomFirst`, `StepTally`).

It proves of HookLibrary, for every call, search path and set of programs:

* `CallsAreGiven`: what HookLibrary gives the executor meets HookExec's assumption on
  its callers (`SearchPathType`, `CandidateLength`, `AnswersFit`);
* `ExecutorImplemented`: `LibSpec` implies HookExec's `Spec`, so that every invariant
  of HookExec holds here: `LibraryNoOverrun`, `LibraryProxiedWhole` and
  `LibraryFittingIsBuilt` are three of them;
* `FindsFirst`: `LibSpec => []FindsTheFirst`.

`FindsTheFirst` needs to know how far the search has come (`NotPassed`): the iterator
stands at the beginning of a piece and has passed no separator in it, and no
earlier piece leads to a program.  `SearchInv` is the two together;
`BehindTheIterator` is the one step of the argument that is about the splitter, that
between a piece that led nowhere and the next one nothing was skipped.  The search
path is a sequence of any length, and the proof needs no induction over it because
the loop is a sequence of steps of the specification.

`ScriptHostProofs.tla` proves of the streams, for any files, contents, scripts and chunk sizes:

* `StreamsCorrect`: the inductive invariant;
* `StreamsHaveTheirOwnFile`, `AppendsArrive`, `ReadsReturnTheFile`: `OwnFile`,
  `AppendArrives` and `ReadsAreRight` are invariants.

`StreamsInv` is `FilesOK` (contents are texts), `TableOK` (every id in `open_files` is
older than `file_id_cnt`, every position is one of its file), `StreamsOK` (an object that
is not closed has an id, and no two objects have the same: this is what `OwnFile` needs, a
closed id is never given again), `FramesOK` (the frames of `with`) and `TaskOn`.
`AppendArrives` follows from the order in `append`: the seek comes before the write and
clears the fail bit.  It speaks of a Uint8Array that begins where its buffer does
(`WholeView`); of any other `write` takes other bytes, see 6.  `ReadsAreRight` is about a loop, and needs to know what it has done so
far (`Underway`): the text read is the part of the file between the last line
and the position and has no newline in it, and the lines are those between the first
position and the last line.  `FirstLine` and `NextLine` say what one chunk does to
that.  Its hypothesis `SmallFiles`, that no file reaches 2^31 characters, is the bound
below which the 32 bits of a script's integer make no difference; beyond it
the property is false.

It proves of the runtime, for any number of scripts:

* `RuntimeCorrect`: the inductive invariant of JsRuntime;
* `VerdictIsTheScriptsOwn`, `NothingIsLeftOpen`, `TypeCorrect`: `VerdictIsOwn`,
  `WithHoldsNothing` and ScriptHost's `TypeOK` are invariants.

`RuntimeInv` is `RuntimeTypes`, `PhaseOK` (what has been called and queued in each phase
of `run_js_file`), `JobOK` (a job is queued at most once, for a promise that is settled or a
script that awaits) and `OwnOK` (as long as nothing was left pending or failed, every
callback in the queue is the current script's, or a script's that nobody asks about).
`NothingIsLeftOpen` needs that a script is on the stack whenever a frame is (`NothingRuns`).

`WinHookProofs.tla` proves, for chains, command lines and environments of any length:

* `HookCorrect`: `Spec => []IInv`, the inductive invariant;
* `TypeCorrect`, `EveryArgumentArrives`, `TheCallerIsNamed`: `TypeOK`, `ArgumentsArrive`
  and `CallerIsNamed` are invariants.

The invariant is short; what it rests on is `RoundTrip`: for every list of arguments,
`Split(CmdlineOf(args)) = Kept(args)`.  `Feeds(st, s, end)` says that reading the line `s`
takes the splitting from `st` to `end`; readings can be put one behind the other
(`FeedsBoth`) and are the only ones (`StepsOnce`).  Behind an opening quote what
`quote_win32_arg` has written for the first `i` characters has been read as these `i`
but for the backslashes before the next, which `num_backslashes` still counts
(`EscapedReads`): the closing quote comes behind an even number of them and ends the
argument, an inner one behind an odd number and is a character.  `SplitBehind` says
that a line is split behind other arguments as it is alone, which gives `concat_cmdline`.

`OptParserProofs.tla` proves, for any tables and argument vectors:

* `WellTyped`, `OnlyTheMissingAreReported`, `ResultsPointBack`, `TheUnknownAreUnknown`,
  `RenderedMeansTheSame`, `NothingIsLost`: `TypeOK`, `MissingIsTrue`, `Located`,
  `UnknownIsTrue`, `RenderKeepsMeaning` and `Accounted` are invariants.

What each needs beyond the types:

* `SearchOK`: what the search stands at is an option for an argument that is no input, the
  flag it remembers is the first letter of a group, and `missing` is said of an option
  that matched and was refused;
* `ArgsOK`: the argument looked at has lost one letter for each result about it, and those
  behind it none, so that what a result was read from (`ReadFrom`) can be told afterwards
  from the arguments given;
* `UntakenOK`: no option the search has passed takes the argument.  Options are passed one
  by one, but for those the binary search skips.  They come before the trimmed argument in
  the order of names (a name that is not, splits the table: `BeforeSplits`), and an option that
  comes before it does not match it, because the prefix that matched is what was
  trimmed (`SkippedNotMatched`);
* `RenderKeepsMeaning` follows from what `accept` did when the result was made
  (`AcceptHolds` and the lemmas before it, a case per class).  What is written is one stream:
  cutting it at the blanks gives back the words, the spelling and the values
  (`WordsFor`), and cutting a comma-joined word at the commas its values, because cutting at a
  separator and joining with it are inverse on parts that are not empty and do not hold
  it (`PartsAgain`, `PartsFound`).  `Writable` is the part of this that the code does not
  ensure: nothing is quoted, so a value with a blank, or an empty one between two, is lost;
* `Balanced`: the sum of what the results say and what is left to read is what was
  given.  Each kind of step moves something from the one side to the other (`WholeStep`,
  `PlainStep`, `AcceptStep`, `LetterStep`, `EmptyStep`, `EndStep`).

The proofs corrected the model and two properties.  `Resume` chose between two cases that overlap
for an option with its value joined to it; `Located` and
`UnknownIsTrue` compared with the argument given where the code had already cut letters,
which is wrong for a group like `-xab` or `-x-x`.  `Accounted` now holds at every way out.

The assumptions on the tables are what the code asserts or its tables are generated for:
`TablesAssumption` (one input and one unknown option, before those that are searched, whose
classes `accept` knows; an alias is an option of the table), `SortedAssumption` (a
table for binary search is sorted, and no name begins with a character of a prefix, which
`ltrim_all_of` would cut off; that a comma-joined option has a name, likewise, is
what keeps a prefix apart from its values) and `InputsAssumption` (the order of characters is one).

Where a proof is about every position of a sequence, it needs an induction that the
library's theorems cannot give (they take an operator): `Induct` in `SequenceLemmas.tla`
is stated for a set of numbers, and each use defines its own.  Its lemmas on
`FlattenSeq` are proved from it.

The assumptions are the named ones on the constants.  `NamesAssumption` of ServerLoop
says that no connection is called like one of the other handles; `CharsAssumption` and
`ProgramAssumption` of WinHook that a program's name has no blank, quote or backslash in
it and is not empty; `BlocksAssumption` that a caller's environment has a variable once.

Every safety property of a passing run is stated by a theorem, two of them under a
hypothesis: `CommandsRun` under `Orderly`, `ReadsAreRight` under `SmallFiles`.  Only
model-checked is liveness (`ProxiesEnd`, `ServerStops`, `LoopReturns`, `Terminates`,
`ReadingEnds`): the prover has no rules for ENABLED, which fairness is defined by.

## 6. Findings

* `parent`: below the root's own command every recorded parent is the root.
  `hook::run` appends `__key_catter_command_id_v1=<id>` to an environment that
  already holds the ancestors' entries; `get_env_value` takes the first.
* `signal`: `run_command` returns 0 for a command that a signal ended, so proxy
  and ledger say success.
* `teardown`: libuv runs close callbacks last in, first out.  When the end of
  file of the root's pipe and the root's SIGCHLD are reported by one poll, the
  process handle is closed after the pipe and called back before it; `loop`
  resumes, prints "acceptor coroutine not done yet" and destroys a coroutine whose
  pipe is still closing; the assertion in `~Lazy` fails.
* `lost`: `error_str` puts a message in place of the command when the session was
  lost, but its path is the proxy's, which is null when that is what was lost; the
  executor then builds a proxy command, with the same null path, and `execve`
  refuses it.
* `missing`: an option with a separate value returns, for a value that is present but
  empty, the refusal that means "the command line has ended"; the assertion in
  `internal_parse_args` fails, or, without assertions, the rest of the command line is
  dropped.

Seen while modelling, with no run of their own (the properties state what does hold): a write on a stream that met its end is lost
without an error, and of a Uint8Array that begins behind the start of its buffer `write` takes as many bytes
from the buffer's start (`api/src/io.ts:281` passes `data.buffer` and drops the offset), though its
comment says that all bytes are written (`api/src/io.ts:268`); `append` is safe from the first, since it seeks, but not
from the second; `to_arg_str`, which "has the same meaning according to the table"
(`parsed_arg.h:97-99`), quotes nothing, so that an empty value or one with a blank does not; after FINISH or
REPORT_ERROR the next read starts inside `read_cb`, where libuv reports EAGAIN as `nread` 0, which
`uv.h:189-193` takes for a read that is done: a request is made of an unset byte; a script left
pending, or whose job failed, can settle the state of the next one, where `js.h`
speaks of a new runtime per file; `resolver.h` promises absolute paths, but a relative
path that is given, or that a relative piece of the search path makes, is returned
as it is; on Windows empty arguments are dropped, a name given twice arrives
twice, and a size of 2^31 or more turns negative on its way to a script.

## 7. Not modelled, and the plan

What the modules leave out:

* CatterRpc: the decisions DROP and WRAP, which the server never sends; unknown
  requests, which no proxy sends; the text of errors; the wrong usage of `catter`
  itself; the 128 characters `locate_exe` reads; the layout of messages in bytes
  (a message is a record, and only the string of length zero, which cannot be read,
  is told apart).
* In CatterRpc a request arrives, and an answer is taken, in one piece: pieces, and a write
  that waits for room in the socket, are ServerLoop's.  SIGPIPE is CatterRpc's and not
  ServerLoop's.
* ServerLoop: errors of libuv calls other than a write to a killed proxy, TCP, and the
  coroutine type beyond what the server uses of it.
* In both: the phantom request after FINISH and REPORT_ERROR (see 6).  Its payload is
  read from whatever comes next on the pipe, which is the end of file, since these
  are a proxy's last requests; so the coroutine ends as without it.
* HookExec: the linker's look at `argv[1][1]` (`linker.cc:34`, 58), a string
  that a vector of one argument does not have.
* HookLibrary: a variable argument list that begins with a null pointer;
  ENOENT and EACCES are one answer; the entries of an environment that nobody
  looks up; `dlsym` itself.
* OptParser: help texts and printing.  `RenderKeepsMeaning` leaves out the classes that
  `to_arg_str` writes without their values (input, with what `--` packs, and unknown) or
  without the second of them (joined-and-separate), options whose flags ask for another
  style than their class has, and values that a stream without quotes does not keep.
* FileStreams: `fs.ts` and `os.ts`, which forward to the operating system and keep no
  state; encodings (there is one, and every character of the runs is in it); the same file
  opened twice at a time, where what one stream has buffered would count; an
  exception from within a stream call's arguments; contents too long for
  `String.fromCharCode(...raw)` (`io.ts:486`), which throws.
* JsRuntime: reference counts and ownership in `qjs.h`, a second `init_qjs`, modules that
  import others.  `VerdictIsOwn` excepts what follows a script left pending.
* WinHook: attaching the detours, the width of exit codes, handles that are not
  closed; the proxy's path, which is put in the command line unquoted, is taken to
  have no blank; a null command line beside an application's name, which CreateProcess
  allows and `concat_cmdline` (`win/payload/main.cc:48-59`) does not.
* Not modelled at all: logging, output, the platform helpers and the constant
  tables, which format and look up and keep no state that can get out of order.

What would come next: a wire module (the bytes of serialised requests, with the
zero-length read), and the ownership of values in `qjs.h`.
