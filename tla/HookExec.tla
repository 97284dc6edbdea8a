------------------------------ MODULE HookExec ------------------------------
(***************************************************************************)
(* One call of an exec hook: Executor::execve and its siblings             *)
(* (src/catter-hook/linux-mac/payload/executor.cc) with the CmdBuilder and *)
(* the Buffer it builds the proxy's argument vector in (command.cc,        *)
(* buffer.cc, array.h).                                                    *)
(*                                                                         *)
(* The builder has an area of BufSize characters and a vector of MaxArgc   *)
(* pointers and no other memory.  Its constructor lays out `proxy -p id';  *)
(* proxy_str appends `-- executable arg1 ...', and when that does not fit  *)
(* rolls back and has error_str append a message in its place.             *)
(*                                                                         *)
(* Of a string only its length and whose it is are kept; `mem' says of     *)
(* every character of the area which string was last written there.  The   *)
(* builder belongs to one call: the hooks construct an Executor each.  A   *)
(* caller's vector begins with the name of the program, which the proxy    *)
(* does not get; what follows are its arguments.                           *)
(***************************************************************************)
EXTENDS Naturals, SequencesExt

CONSTANTS
  BufSize,    \* BUF_SIZE
  MaxArgc,    \* MAX_ARGC
  ProxyLen,   \* length of the proxy's path
  IdLen,      \* length of the command id
  PrefixLen,  \* length of the longest message and what is written around it
  PathMax,    \* longest path the resolver returns
  Lengths,    \* lengths of the strings a caller passes
  MaxArgs     \* bound on the number of arguments of a caller

\* "at least we provide a space enough for proxy_path, -p, self_id, "", and
\* null", and for an error message about a path.
ASSUME RoomAssumption ==
  /\ {BufSize, MaxArgc, ProxyLen, IdLen, PrefixLen, PathMax, MaxArgs} \subseteq Nat
  /\ MaxArgc >= 5
  /\ (ProxyLen + 1) + 3 + (IdLen + 1) + PrefixLen + PathMax + 1 <= BufSize
ASSUME LengthsAssumption == Lengths \subseteq Nat

VARIABLES
  given,   \* the call's arguments, the session, and what the resolver finds
  pc,
  why,     \* what error_str was last called for
  mem,     \* cmd_buf_area
  argv,    \* argv of the builder
  argc,    \* append_argv_ptr - argv
  base,    \* append_ptr - cmd_buf_area
  top,     \* top_ of the Buffer in use
  todo,    \* the strings still to be stored or pushed
  saved,   \* argv_backup
  final,   \* final_cmd_or_error
  result   \* what the call comes to

vars == <<given, pc, why, mem, argv, argc, base, top, todo, saved, final, result>>

-----------------------------------------------------------------------------
(* Strings, and the vectors made of them.                                  *)

Str(of, nr, len) == [of |-> of, nr |-> nr, len |-> len]
Null == Str("null", 0, 0)
Message == Str("message", 0, 0)
MessageEnd == Str("message end", 0, 0)
Slot(str, at) == [str |-> str, at |-> at]
NullSlot == Slot(Null, 0)

ProxyPath == Str("proxy", 0, ProxyLen)
DashP == Str("-p", 0, 2)
SelfId == Str("id", 0, IdLen)
DashDash == Str("--", 0, 2)
Prefix == Str("prefix", 0, PrefixLen)
Blank == Str("blank", 0, 1)

Raw == Str("path", 0, given.path)
Exe == Str("exe", 0, given.exe)
Args == [i \in 1..Len(given.args) |-> Str("arg", i, given.args[i])]

\* A null member of the session is not stored.
HasProxy == given.session \in {"valid", "no_id"}
HasId == given.session \in {"valid", "no_proxy"}
Leading ==
  (IF HasProxy THEN <<ProxyPath>> ELSE <<>>) \o <<DashP>>
    \o (IF HasId THEN <<SelfId>> ELSE <<>>)

\* The resolver finds no path it cannot copy whole.
Given ==
  {g \in [session : {"valid", "no_proxy", "no_id", "lost"},
          file : {"null", "found", "missing"},
          path : Lengths, exe : Lengths,
          args : UNION {[1..n -> Lengths] : n \in 0..MaxArgs}] :
     /\ g.exe \in 1..PathMax
     /\ g.file = "found" => g.path \in 1..PathMax}

-----------------------------------------------------------------------------
(* Buffer and store_arg.                                                   *)

\* array::copy: the n characters that start at top_ are now s's.
Written(s, n) ==
  [k \in 0..(BufSize - 1) |-> IF k \in top..(top + n - 1) THEN s ELSE mem[k]]

\* array::copy meets the end of the area: it has written up to there, and
\* top_ stays.
WrittenToEnd(s) == Written(s, BufSize - top)

\* Mutants of SlotFree: no slot kept for the null; one too many kept.
SlotForNullTaken == argc < MaxArgc
SlotsWasted == argc < MaxArgc - 2
SlotFree == argc < MaxArgc - 1
StoreFits(s) == SlotFree /\ top + s.len + 1 <= BufSize
PushFits(s) == top + s.len <= BufSize

\* store_arg succeeds, in the constructor or in proxy_str.
StoreNext ==
  /\ pc \in {"construct", "proxy"}
  /\ todo # <<>>
  /\ StoreFits(Head(todo))
  /\ mem' = Written(Head(todo), Head(todo).len + 1)
  /\ argv' = [argv EXCEPT ![argc] = Slot(Head(todo), top)]
  /\ argc' = argc + 1
  /\ top' = top + Head(todo).len + 1
  /\ todo' = Tail(todo)
  /\ UNCHANGED <<given, pc, why, base, saved, final, result>>

\* The constructor ends with an empty string that marks where to append; the
\* result of no store is looked at, and under RoomAssumption all succeed.
Constructed ==
  /\ pc = "construct"
  /\ todo = <<>>
  /\ mem' = Written(Message, 1)
  /\ base' = top
  /\ pc' = "check"
  /\ UNCHANGED <<given, why, argv, argc, top, todo, saved, final, result>>

-----------------------------------------------------------------------------
(* error_str.                                                              *)

\* Mutant of BeginError: the message goes behind what proxy_str has stored.
BeginErrorBehind(reason, path, args) ==
  /\ pc' = "error"
  /\ why' = reason
  /\ top' = top
  /\ todo' = <<Prefix, path>>
       \o [i \in 1..(2 * Len(args)) |->
             IF i % 2 = 1 THEN Blank ELSE args[i \div 2]]

\* It pushes its prefix and message, the path, and the arguments it is given.
BeginError(reason, path, args) ==
  /\ pc' = "error"
  /\ why' = reason
  /\ top' = base
  /\ todo' = <<Prefix, path>>
       \o [i \in 1..(2 * Len(args)) |->
             IF i % 2 = 1 THEN Blank ELSE args[i \div 2]]

\* A push that does not fit is left out.
PushNext ==
  /\ pc = "error"
  /\ todo # <<>>
  /\ IF PushFits(Head(todo))
       THEN mem' = Written(Message, Head(todo).len) /\ top' = top + Head(todo).len
       ELSE mem' = WrittenToEnd(Message) /\ top' = top
  /\ todo' = Tail(todo)
  /\ UNCHANGED <<given, pc, why, argv, argc, base, saved, final, result>>

\* Where a message was wanted, and what the executor does after it.
Return ==
  /\ pc' = CASE why = "session" -> "resolve"
             [] why = "missing" -> "done"
             [] OTHER -> "exec"
  /\ result' = IF why = "missing" THEN "errno" ELSE result

\* Mutant of ErrorBuilt: two pointers are taken back that were not added.
ErrorBuiltStepsBack ==
  /\ pc = "error"
  /\ todo = <<>>
  /\ top + 1 <= BufSize
  /\ mem' = Written(MessageEnd, 1)
  /\ argv' = [argv EXCEPT ![argc] = Slot(Message, base), ![argc + 1] = NullSlot]
  /\ argc' = argc - 2
  /\ final' = [path |-> IF HasProxy THEN "proxy" ELSE "null", argv |-> "built"]
  /\ Return
  /\ UNCHANGED <<given, why, base, top, todo, saved>>

\* The message takes the place of what followed the id.
ErrorBuilt ==
  /\ pc = "error"
  /\ todo = <<>>
  /\ top + 1 <= BufSize
  /\ mem' = Written(MessageEnd, 1)
  /\ argv' = [argv EXCEPT ![argc] = Slot(Message, base), ![argc + 1] = NullSlot]
  /\ final' = [path |-> IF HasProxy THEN "proxy" ELSE "null", argv |-> "built"]
  /\ Return
  /\ UNCHANGED <<given, why, argc, base, top, todo, saved>>

\* No room for its end: the path and the vector error_str was called with.
ErrorOverflows ==
  /\ pc = "error"
  /\ todo = <<>>
  /\ top + 1 > BufSize
  /\ final' = [path |-> "original",
               argv |-> IF why = "overflow" THEN "null" ELSE "original"]
  /\ Return
  /\ UNCHANGED <<given, why, mem, argv, argc, base, top, todo, saved>>

-----------------------------------------------------------------------------
(* proxy_str.                                                              *)

BeginProxy ==
  /\ pc' = "proxy"
  /\ saved' = argc
  /\ top' = base
  /\ todo' = <<DashDash, Exe>> \o Args

\* Mutant of Overflow: the pointers that were added stay.
OverflowKeepsPointers ==
  /\ pc = "proxy"
  /\ todo # <<>>
  /\ ~StoreFits(Head(todo))
  /\ mem' = IF SlotFree THEN WrittenToEnd(Head(todo)) ELSE mem
  /\ BeginError("overflow", Exe, <<>>)
  /\ UNCHANGED <<given, argv, argc, base, saved, final, result>>

\* The next string has no slot or no room: back to `proxy -p id', and a
\* message without the arguments.
Overflow ==
  /\ pc = "proxy"
  /\ todo # <<>>
  /\ ~StoreFits(Head(todo))
  /\ mem' = IF SlotFree THEN WrittenToEnd(Head(todo)) ELSE mem
  /\ argc' = saved
  /\ BeginError("overflow", Exe, <<>>)
  /\ UNCHANGED <<given, argv, base, saved, final, result>>

ProxyBuilt ==
  /\ pc = "proxy"
  /\ todo = <<>>
  /\ argv' = [argv EXCEPT ![argc] = NullSlot]
  /\ argc' = saved
  /\ final' = [path |-> IF HasProxy THEN "proxy" ELSE "null", argv |-> "built"]
  /\ pc' = "exec"
  /\ UNCHANGED <<given, why, mem, base, top, todo, saved, result>>

-----------------------------------------------------------------------------
(* Executor.                                                               *)

\* CHECK_POINTER.
NoPath ==
  /\ pc = "check"
  /\ given.file = "null"
  /\ pc' = "done"
  /\ result' = "efault"
  /\ UNCHANGED <<given, why, mem, argv, argc, base, top, todo, saved, final>>

\* CHECK_SESSION: without a session there is a message, and the call goes on.
SessionChecked ==
  /\ pc = "check"
  /\ given.file # "null"
  /\ IF HasProxy /\ HasId
       THEN pc' = "resolve" /\ UNCHANGED <<why, top, todo>>
       ELSE BeginError("session", Raw, Args)
  /\ UNCHANGED <<given, mem, argv, argc, base, saved, final, result>>

\* CHECK_EXEC_RESULT: a message is built, and the resolver's error returned.
NotFound ==
  /\ pc = "resolve"
  /\ given.file = "missing"
  /\ BeginError("missing", Raw, Args)
  /\ UNCHANGED <<given, mem, argv, argc, base, saved, final, result>>

\* Without a command yet (none, or one with a null path) it builds one.
Found ==
  /\ pc = "resolve"
  /\ given.file = "found"
  /\ IF final.path = "null"
       THEN BeginProxy
       ELSE pc' = "exec" /\ UNCHANGED <<saved, top, todo>>
  /\ UNCHANGED <<given, why, mem, argv, argc, base, final, result>>

\* The linker runs what was built, or does not find the system's function.
Exec ==
  /\ pc = "exec"
  /\ pc' = "done"
  /\ \/ result' = CASE final.path = "null" -> "refused"
                    [] final.path = "proxy" -> "proxied"
                    [] final.path = "original" -> "direct"
     \/ result' = "enosys"
  /\ UNCHANGED <<given, why, mem, argv, argc, base, top, todo, saved, final>>

-----------------------------------------------------------------------------
Init ==
  /\ given \in Given
  /\ pc = "construct"
  /\ why = "none"
  /\ mem = [k \in 0..(BufSize - 1) |-> Null]
  /\ argv = [k \in 0..(MaxArgc - 1) |-> NullSlot]
  /\ argc = 0
  /\ base = 0
  /\ top = 0
  /\ todo = Leading
  /\ saved = 0
  /\ final = [path |-> "null", argv |-> "null"]
  /\ result = "none"

Next ==
  \/ StoreNext \/ Constructed
  \/ PushNext \/ ErrorBuilt \/ ErrorOverflows
  \/ Overflow \/ ProxyBuilt
  \/ NoPath \/ SessionChecked \/ NotFound \/ Found \/ Exec

Spec == Init /\ [][Next]_vars

-----------------------------------------------------------------------------
(* Properties.                                                             *)

Strings ==
  [of : {"null", "message", "message end", "proxy", "-p", "id", "--", "prefix",
         "blank", "path", "exe", "arg"},
   nr : Nat, len : Nat]
Slots == [str : Strings, at : Nat]

\* Every variable holds a value of its kind.
TypeOK ==
  /\ given \in Given
  /\ pc \in {"construct", "check", "error", "resolve", "proxy", "exec", "done"}
  /\ why \in {"none", "session", "missing", "overflow"}
  /\ mem \in [0..(BufSize - 1) -> Strings]
  /\ argv \in [0..(MaxArgc - 1) -> Slots]
  /\ {argc, base, top, saved} \subseteq Nat
  /\ todo \in Seq(Strings)
  /\ final \in [path : {"null", "proxy", "original"},
                argv : {"null", "built", "original"}]
  /\ result \in {"none", "efault", "errno", "enosys", "refused", "proxied", "direct"}

\* No character is put beyond the area and no pointer beyond the vector:
\* Buffer's top_ stays inside, proxy_str has a slot for the null that ends
\* its vector, and error_str has one for its message and one for the null.
StaysInBounds ==
  /\ top <= BufSize
  /\ argc <= MaxArgc - 1
  /\ pc = "error" => argc + 1 <= MaxArgc - 1

ReadsWhole(slot) ==
  /\ slot.at + slot.str.len < BufSize
  /\ \A k \in slot.at..(slot.at + slot.str.len) : mem[k] = slot.str

ReadsMessage(at) ==
  \E e \in at..(BufSize - 1) :
    mem[e] = MessageEnd /\ \A k \in at..(e - 1) : mem[k] = Message

\* The vector as the kernel reads it: up to the first null.
VectorIs(strings) ==
  /\ Len(strings) < MaxArgc
  /\ argv[Len(strings)] = NullSlot
  /\ \A i \in 1..Len(strings) :
       /\ argv[i - 1].str = strings[i]
       /\ IF strings[i] = Message THEN ReadsMessage(argv[i - 1].at)
                                  ELSE ReadsWhole(argv[i - 1])

\* `proxy -p id -- exe arg1 ...'.
Whole == Leading \o <<DashDash, Exe>> \o Args

\* What the proxy is to be started with.
Wanted == IF why = "none" THEN Whole ELSE Leading \o <<Message>>

\* What the proxy is started with is the caller's command whole (`proxy -p id
\* -- exe arg1 ...', no string cut, lost or overwritten), or one message in
\* its place (`proxy -p id message'): never a part of the command, however
\* often the builder wrote over the same memory before.
VectorIsWhole ==
  result = "proxied" => VectorIs(Wanted)

\* If the command is run without the proxy after all, it is run with the
\* caller's arguments: error_str is not left without room for its message by
\* the overflow of proxy_str, whose vector it no longer knows.
ArgumentsKept ==
  result = "direct" => final.argv = "original" /\ why = "session"

\* "even if the logging fails, the execution can still proceed"
\* (executor.cc:54-55): a program that was found is run, with the proxy or
\* without, unless the system's own function is missing.
ExecutionProceeds ==
  pc = "done" /\ given.file = "found" => result \in {"proxied", "direct", "enosys"}

\* The room strings take when each is stored with its end.
Room(strings) ==
  Len(FlattenSeq([i \in DOMAIN strings |-> [k \in 1..(strings[i].len + 1) |-> strings[i]]]))

\* proxy_str gives up only on a command that needs more characters or more
\* pointers than the builder has (command.cc:43-54): a caller whose command
\* fits is never turned into a message, whatever was built and rolled back
\* before in the same call.
GivesUpOnlyWhenFull ==
  why = "overflow" => Len(Whole) + 1 > MaxArgc \/ Room(Whole) > BufSize

-----------------------------------------------------------------------------
(* The inductive invariant: why the bounds hold, whatever their values.    *)

IdPart == IF HasId THEN <<SelfId>> ELSE <<>>

\* How far the constructor has come, and what room it has taken.
LaidOut ==
  pc = "construct" =>
    \/ todo = Leading /\ top = 0 /\ argc = 0
    \/ todo = <<DashP>> \o IdPart /\ top <= ProxyLen + 1 /\ argc <= 1
    \/ todo = IdPart /\ top <= ProxyLen + 4 /\ argc <= 2
    \/ todo = <<>> /\ top <= ProxyLen + IdLen + 5 /\ argc <= 3

\* Outside proxy_str the vector ends with the id, where proxy_str went back
\* to if it was called.
Restored ==
  /\ base <= ProxyLen + IdLen + 5
  /\ saved <= 3
  /\ argc <= IF pc = "proxy" THEN MaxArgc - 1 ELSE 3
  /\ top <= BufSize

\* The message proxy_str has error_str build after an overflow fits.
MessageFits ==
  /\ pc = "error" => why # "none"
  /\ pc = "error" /\ why = "overflow" =>
       \/ todo = <<Prefix, Exe>> /\ top = base
       \/ todo = <<Exe>> /\ top <= base + PrefixLen
       \/ todo = <<>> /\ top <= base + PrefixLen + PathMax

\* What the call without the proxy is left with.
Original ==
  /\ pc \in {"resolve", "exec"} /\ final.path = "original" =>
       final.argv = "original" /\ why = "session"
  /\ pc \in {"construct", "check", "proxy"} => final.path = "null"
  /\ result = "direct" =>
       pc = "done" /\ final.argv = "original" /\ why = "session"

\* What a call has taken of the builder's memory at each stage, and what it
\* still can fall back on.
Bounds == TypeOK /\ LaidOut /\ Restored /\ MessageFits /\ Original

-----------------------------------------------------------------------------
(* And why what was stored is still whole when it is run.                  *)

\* The first n pointers are to the first n strings, each whole and before end.
Stored(strings, n, end) ==
  \A i \in 1..n :
    /\ argv[i - 1].str = strings[i]
    /\ argv[i - 1].at + strings[i].len < end
    /\ \A k \in argv[i - 1].at..(argv[i - 1].at + strings[i].len) : mem[k] = strings[i]

\* What is still to be stored is the rest of them.
Remaining(strings) ==
  /\ Len(todo) + argc = Len(strings)
  /\ \A i \in 1..Len(todo) : todo[i] = strings[argc + i]

\* The constructor and proxy_str store one string behind the other; the rest
\* of a call leaves what stands before base alone, and takes back the pointers
\* behind it.
Layout ==
  /\ pc = "construct" => Stored(Leading, argc, top) /\ Remaining(Leading)
  /\ pc # "construct" => Stored(Leading, Len(Leading), base) /\ base <= top
  /\ pc = "proxy" =>
       /\ Stored(Whole, argc, top)
       /\ Remaining(Whole)
       /\ saved = Len(Leading) /\ saved <= argc
  /\ pc \notin {"construct", "proxy"} => argc = Len(Leading)
  /\ pc = "error" => \A k \in base..(top - 1) : mem[k] = Message

\* With a proxy, the vector of the command is built only if no message was.
Unspoiled ==
  /\ pc \in {"construct", "check"} => why = "none"
  /\ HasProxy /\ (pc = "proxy" \/ (pc = "resolve" /\ final.path = "null")) =>
       why = "none"

\* The command, once it is built, stays as it has to be when it is run.
Built ==
  /\ final.path = "proxy" /\ (pc \in {"resolve", "exec"} \/ result = "proxied") =>
       VectorIs(Wanted)
  /\ result = "proxied" => pc = "done" /\ final.path = "proxy"

\* What was stored and what is still to be stored take the room of the whole,
\* and no more than the leading part is taken when proxy_str begins.
Tally ==
  /\ pc = "construct" => top + Room(todo) = Room(Leading)
  /\ pc # "construct" => base = Room(Leading)
  /\ pc = "proxy" => top + Room(todo) = Room(Whole)
  /\ GivesUpOnlyWhenFull

\* All of it, which every step of a call keeps.
IInv == Bounds /\ Layout /\ Unspoiled /\ Built /\ Tally
=============================================================================
