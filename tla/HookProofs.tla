---------------------------- MODULE HookProofs ----------------------------
(***************************************************************************)
(* Proofs about HookExec and HookLibrary.  For an area, a vector and       *)
(* strings of any length: the builder of an exec hook stays in its area    *)
(* and in its vector, a command that runs without the proxy runs with its  *)
(* own arguments, and what the proxy is started with is the whole command  *)
(* or one message.  For every call: the composition of the Resolver and    *)
(* the executor is an execution of HookExec, so that all this holds of the *)
(* library, and the search finds what it owes.                             *)
(***************************************************************************)
EXTENDS HookLibrary, SequenceLemmas

\* The kind of a string is one of Strings.
LEMMA StrType ==
  ASSUME NEW of, NEW nr \in Nat, NEW len \in Nat,
         of \in {"null", "message", "message end", "proxy", "-p", "id", "--",
                 "prefix", "blank", "path", "exe", "arg"}
  PROVE  /\ Str(of, nr, len) \in Strings
         /\ Str(of, nr, len).len = len
BY DEF Str, Strings

\* What the constants and a call contribute are strings with known lengths.
LEMMA StringTypes ==
  ASSUME given \in Given
  PROVE  /\ ProxyPath \in Strings /\ ProxyPath.len = ProxyLen
         /\ DashP \in Strings /\ DashP.len = 2
         /\ SelfId \in Strings /\ SelfId.len = IdLen
         /\ DashDash \in Strings
         /\ Prefix \in Strings /\ Prefix.len = PrefixLen
         /\ Blank \in Strings
         /\ Raw \in Strings
         /\ Exe \in Strings /\ Exe.len \in 1..PathMax
         /\ Null \in Strings /\ Message \in Strings /\ MessageEnd \in Strings
         /\ Args \in Seq(Strings)
<1>1. /\ given.path \in Lengths
      /\ given.exe \in 1..PathMax
      /\ given.args \in UNION {[1..n -> Lengths] : n \in 0..MaxArgs}
  BY Zenon DEF Given
<1>2. given.path \in Nat /\ PathMax \in Nat /\ MaxArgs \in Nat
  BY <1>1, LengthsAssumption, RoomAssumption
<1>3. PICK n \in 0..MaxArgs : given.args \in [1..n -> Lengths]
  BY <1>1, Zenon
<1>4. /\ n \in Nat
      /\ Len(given.args) = n
      /\ \A i \in 1..n : given.args[i] \in Nat
  <2>1. n \in Nat
    BY <1>2, <1>3
  <2>2. given.args \in [1..n -> Nat]
    BY <1>3, LengthsAssumption
  <2>3. QED
    BY <2>1, <2>2
<1>5. \A i \in 1..n : Str("arg", i, given.args[i]) \in Strings
  BY <1>4 DEF Str, Strings
<1>6. Args \in [1..n -> Strings]
  <2>1. Args = [i \in 1..n |-> Str("arg", i, given.args[i])]
    BY <1>4, Zenon DEF Args
  <2>2. QED
    BY <1>5, <2>1, Zenon
<1>7. Args \in Seq(Strings)
  BY <1>4, <1>6, Zenon, SeqDef
<1>8. /\ ProxyLen \in Nat /\ IdLen \in Nat /\ PrefixLen \in Nat
      /\ given.path \in Nat /\ given.exe \in Nat
  BY <1>1, <1>2, RoomAssumption, SMTT(30)
<1>9. /\ ProxyPath \in Strings /\ ProxyPath.len = ProxyLen
      /\ DashP \in Strings /\ DashP.len = 2
      /\ SelfId \in Strings /\ SelfId.len = IdLen
      /\ DashDash \in Strings
      /\ Prefix \in Strings /\ Prefix.len = PrefixLen
      /\ Blank \in Strings
  BY <1>8 DEF Str, Strings, ProxyPath, DashP, SelfId, DashDash, Prefix, Blank
<1>10. /\ Raw \in Strings
       /\ Exe \in Strings /\ Exe.len = given.exe
       /\ Null \in Strings /\ Message \in Strings /\ MessageEnd \in Strings
  BY <1>8 DEF Str, Strings, Raw, Exe, Null, Message, MessageEnd
<1>11. QED
  BY <1>1, <1>7, <1>9, <1>10
-----------------------------------------------------------------------------
(* Type correctness.                                                       *)

\* What proxy_str has to store is a sequence of strings.
LEMMA ProxyTodo ==
  ASSUME DashDash \in Strings, Exe \in Strings, Args \in Seq(Strings)
  PROVE  <<DashDash, Exe>> \o Args \in Seq(Strings)
<1>1. <<DashDash, Exe>> \in Seq(Strings)
  OBVIOUS
<1>2. QED
  BY <1>1, ConcatProperties

LEMMA WrittenType ==
  ASSUME mem \in [0..(BufSize - 1) -> Strings], NEW s \in Strings, NEW n
  PROVE  Written(s, n) \in [0..(BufSize - 1) -> Strings]
BY DEF Written

\* What error_str has to push is a sequence of strings.
LEMMA ErrorTodo ==
  ASSUME NEW path \in Strings, NEW args \in Seq(Strings),
         Prefix \in Strings, Blank \in Strings
  PROVE  <<Prefix, path>>
           \o [i \in 1..(2 * Len(args)) |->
                 IF i % 2 = 1 THEN Blank ELSE args[i \div 2]] \in Seq(Strings)
<1> DEFINE rest == [i \in 1..(2 * Len(args)) |->
                      IF i % 2 = 1 THEN Blank ELSE args[i \div 2]]
<1>1. Len(args) \in Nat /\ 2 * Len(args) \in Nat
  OBVIOUS
<1>2. ASSUME NEW i \in 1..(2 * Len(args)), i % 2 # 1
      PROVE  i \div 2 \in 1..Len(args)
  BY <1>1, <1>2
<1>3. \A i \in 1..(2 * Len(args)) :
        (IF i % 2 = 1 THEN Blank ELSE args[i \div 2]) \in Strings
  BY <1>2
<1>4. rest \in [1..(2 * Len(args)) -> Strings]
  BY <1>3
<1> HIDE DEF rest
<1>5. rest \in Seq(Strings)
  <2>1. PICK m \in Nat : rest \in [1..m -> Strings]
    BY <1>1, <1>4
  <2>2. QED
    BY <2>1, SeqDef
<1>6. <<Prefix, path>> \in Seq(Strings)
  OBVIOUS
<1>7. <<Prefix, path>> \o rest \in Seq(Strings)
  BY <1>5, <1>6
<1>8. QED
  BY <1>7 DEF rest

LEMMA InitType == Init => TypeOK
<1> SUFFICES ASSUME Init PROVE TypeOK
  OBVIOUS
<1> USE DEF Init
<1>1. given \in Given
  OBVIOUS
<1>2. Null \in Strings /\ ProxyPath \in Strings /\ DashP \in Strings /\ SelfId \in Strings
  BY <1>1, StringTypes
<1>3. mem \in [0..(BufSize - 1) -> Strings]
  BY <1>2
<1>4. NullSlot \in Slots
  BY <1>2 DEF NullSlot, Slot, Slots
<1>5. argv \in [0..(MaxArgc - 1) -> Slots]
  BY <1>4
<1>6. /\ (IF HasProxy THEN <<ProxyPath>> ELSE <<>>) \in Seq(Strings)
      /\ <<DashP>> \in Seq(Strings)
      /\ (IF HasId THEN <<SelfId>> ELSE <<>>) \in Seq(Strings)
  BY <1>2
<1>7. todo \in Seq(Strings)
  BY <1>6 DEF Leading
<1>8. QED
  BY <1>1, <1>3, <1>5, <1>7 DEF TypeOK

LEMMA StepType == TypeOK /\ [Next]_vars => TypeOK'
<1> SUFFICES ASSUME TypeOK, [Next]_vars PROVE TypeOK'
  OBVIOUS
<1>0. /\ given \in Given
      /\ pc \in {"construct", "check", "error", "resolve", "proxy", "exec", "done"}
      /\ why \in {"none", "session", "missing", "overflow"}
      /\ mem \in [0..(BufSize - 1) -> Strings]
      /\ argv \in [0..(MaxArgc - 1) -> Slots]
      /\ argc \in Nat /\ base \in Nat /\ top \in Nat /\ saved \in Nat
      /\ todo \in Seq(Strings)
      /\ final \in [path : {"null", "proxy", "original"},
                    argv : {"null", "built", "original"}]
      /\ result \in {"none", "efault", "errno", "enosys", "refused", "proxied", "direct"}
  BY DEF TypeOK
<1>S. /\ DashDash \in Strings /\ Prefix \in Strings /\ Blank \in Strings
      /\ Raw \in Strings /\ Exe \in Strings /\ Args \in Seq(Strings)
      /\ Null \in Strings /\ Message \in Strings /\ MessageEnd \in Strings
  BY <1>0, StringTypes
<1>N. /\ NullSlot \in Slots
      /\ \A s \in Strings, n \in Nat : Slot(s, n) \in Slots
  BY <1>S DEF NullSlot, Slot, Slots
<1>W. \A s \in Strings : \A n : Written(s, n) \in [0..(BufSize - 1) -> Strings]
  BY <1>0, WrittenType
<1>T. ASSUME todo # <<>>
      PROVE  /\ Head(todo) \in Strings /\ Tail(todo) \in Seq(Strings)
             /\ Head(todo).len \in Nat
  <2>1. Head(todo) \in Strings /\ Tail(todo) \in Seq(Strings)
    BY <1>0, <1>T
  <2>2. QED
    BY <2>1 DEF Strings
<1>E. \A path \in Strings : \A args \in Seq(Strings) :
        <<Prefix, path>>
          \o [i \in 1..(2 * Len(args)) |->
                IF i % 2 = 1 THEN Blank ELSE args[i \div 2]] \in Seq(Strings)
  BY <1>S, ErrorTodo
<1>1. CASE StoreNext
  <2>1. /\ mem' \in [0..(BufSize - 1) -> Strings]
        /\ argv' \in [0..(MaxArgc - 1) -> Slots]
        /\ argc' \in Nat /\ top' \in Nat
        /\ todo' \in Seq(Strings)
    <3>1. /\ Head(todo) \in Strings /\ Head(todo).len \in Nat
          /\ Tail(todo) \in Seq(Strings)
      BY <1>1, <1>T DEF StoreNext
    <3>2. mem' \in [0..(BufSize - 1) -> Strings] /\ todo' \in Seq(Strings)
      BY <1>1, <1>W, <3>1 DEF StoreNext
    <3>3. argc' \in Nat /\ top' \in Nat
      BY <1>0, <1>1, <3>1 DEF StoreNext
    <3>4. Slot(Head(todo), top) \in Slots
      BY <1>0, <1>N, <3>1
    <3>5. argv' \in [0..(MaxArgc - 1) -> Slots]
      BY <1>0, <1>1, <3>4 DEF StoreNext
    <3>6. QED
      BY <3>2, <3>3, <3>5
  <2>2. UNCHANGED <<given, pc, why, base, saved, final, result>>
    BY <1>1 DEF StoreNext
  <2>3. QED
    BY <1>0, <2>1, <2>2 DEF TypeOK
<1>2. CASE Constructed
  <2>1. mem' \in [0..(BufSize - 1) -> Strings] /\ base' \in Nat /\ pc' = "check"
    BY <1>0, <1>2, <1>S, <1>W DEF Constructed
  <2>2. UNCHANGED <<given, why, argv, argc, top, todo, saved, final, result>>
    BY <1>2 DEF Constructed
  <2>3. QED
    BY <1>0, <2>1, <2>2 DEF TypeOK
<1>3. CASE PushNext
  <2>1. todo' \in Seq(Strings)
    BY <1>3, <1>T DEF PushNext
  <2>2. mem' \in [0..(BufSize - 1) -> Strings] /\ top' \in Nat
    BY <1>0, <1>3, <1>S, <1>W, <1>T DEF PushNext, WrittenToEnd
  <2>3. UNCHANGED <<given, pc, why, argv, argc, base, saved, final, result>>
    BY <1>3 DEF PushNext
  <2>4. QED
    BY <1>0, <2>1, <2>2, <2>3 DEF TypeOK
<1>4. CASE ErrorBuilt
  <2>1. mem' \in [0..(BufSize - 1) -> Strings]
    BY <1>4, <1>S, <1>W DEF ErrorBuilt
  <2>2. argv' \in [0..(MaxArgc - 1) -> Slots]
    BY <1>0, <1>4, <1>S, <1>N DEF ErrorBuilt
  <2>3. /\ pc' \in {"construct", "check", "error", "resolve", "proxy", "exec", "done"}
        /\ result' \in {"none", "efault", "errno", "enosys", "refused", "proxied", "direct"}
        /\ final' \in [path : {"null", "proxy", "original"},
                       argv : {"null", "built", "original"}]
    BY <1>0, <1>4 DEF ErrorBuilt, Return
  <2>4. UNCHANGED <<given, why, argc, base, top, todo, saved>>
    BY <1>4 DEF ErrorBuilt
  <2>5. QED
    BY <1>0, <2>1, <2>2, <2>3, <2>4 DEF TypeOK
<1>5. CASE ErrorOverflows
  <2>1. /\ pc' \in {"construct", "check", "error", "resolve", "proxy", "exec", "done"}
        /\ result' \in {"none", "efault", "errno", "enosys", "refused", "proxied", "direct"}
        /\ final' \in [path : {"null", "proxy", "original"},
                       argv : {"null", "built", "original"}]
    BY <1>0, <1>5 DEF ErrorOverflows, Return
  <2>2. UNCHANGED <<given, why, mem, argv, argc, base, top, todo, saved>>
    BY <1>5 DEF ErrorOverflows
  <2>3. QED
    BY <1>0, <2>1, <2>2 DEF TypeOK
<1>6. CASE Overflow
  <2>1. mem' \in [0..(BufSize - 1) -> Strings]
    BY <1>0, <1>6, <1>W, <1>T DEF Overflow, WrittenToEnd
  <2>2. todo' \in Seq(Strings)
    <3>1. Exe \in Strings /\ <<>> \in Seq(Strings)
      BY <1>S
    <3>2. QED
      BY <1>6, <1>E, <3>1 DEF Overflow, BeginError
  <2>3. pc' = "error" /\ why' = "overflow" /\ top' = base /\ argc' = saved
    BY <1>6 DEF Overflow, BeginError
  <2>4. UNCHANGED <<given, argv, base, saved, final, result>>
    BY <1>6 DEF Overflow
  <2>5. QED
    BY <1>0, <2>1, <2>2, <2>3, <2>4 DEF TypeOK
<1>7. CASE ProxyBuilt
  <2>1. /\ argv' \in [0..(MaxArgc - 1) -> Slots]
        /\ argc' = saved /\ pc' = "exec"
        /\ final' \in [path : {"null", "proxy", "original"},
                       argv : {"null", "built", "original"}]
    BY <1>0, <1>7, <1>N DEF ProxyBuilt
  <2>2. UNCHANGED <<given, why, mem, base, top, todo, saved, result>>
    BY <1>7 DEF ProxyBuilt
  <2>3. QED
    BY <1>0, <2>1, <2>2 DEF TypeOK
<1>8. CASE NoPath
  BY <1>0, <1>8 DEF NoPath, TypeOK
<1>9. CASE SessionChecked
  <2>1. UNCHANGED <<given, mem, argv, argc, base, saved, final, result>>
    BY <1>9 DEF SessionChecked
  <2>2. /\ pc' \in {"resolve", "error"} /\ why' \in {why, "session"}
        /\ top' \in {top, base}
    BY <1>9 DEF SessionChecked, BeginError
  <2>3. todo' \in Seq(Strings)
    <3>1. CASE HasProxy /\ HasId
      BY <1>0, <1>9, <3>1 DEF SessionChecked
    <3>2. CASE ~(HasProxy /\ HasId)
      BY <1>9, <1>S, <1>E, <3>2 DEF SessionChecked, BeginError
    <3>3. QED
      BY <3>1, <3>2
  <2>4. QED
    BY <1>0, <2>1, <2>2, <2>3 DEF TypeOK
<1>10. CASE NotFound
  <2>1. UNCHANGED <<given, mem, argv, argc, base, saved, final, result>>
    BY <1>10 DEF NotFound
  <2>2. pc' = "error" /\ why' = "missing" /\ top' = base
    BY <1>10 DEF NotFound, BeginError
  <2>3. todo' \in Seq(Strings)
    BY <1>10, <1>S, <1>E DEF NotFound, BeginError
  <2>4. QED
    BY <1>0, <2>1, <2>2, <2>3 DEF TypeOK
<1>11. CASE Found
  <2>1. UNCHANGED <<given, why, mem, argv, argc, base, final, result>>
    BY <1>11 DEF Found
  <2>2. /\ pc' \in {"proxy", "exec"} /\ saved' \in {saved, argc}
        /\ top' \in {top, base}
        /\ todo' = todo \/ todo' = <<DashDash, Exe>> \o Args
    BY <1>11 DEF Found, BeginProxy
  <2>3. <<DashDash, Exe>> \o Args \in Seq(Strings)
    BY <1>S, ProxyTodo
  <2>4. todo' \in Seq(Strings)
    BY <1>0, <2>2, <2>3
  <2>5. QED
    BY <1>0, <2>1, <2>2, <2>4 DEF TypeOK
<1>12. CASE Exec
  <2>1. /\ pc' = "done"
        /\ result' \in {"refused", "proxied", "direct", "enosys"}
    BY <1>0, <1>12 DEF Exec
  <2>2. UNCHANGED <<given, why, mem, argv, argc, base, top, todo, saved, final>>
    BY <1>12 DEF Exec
  <2>3. QED
    BY <1>0, <2>1, <2>2 DEF TypeOK
<1>13. CASE UNCHANGED vars
  BY <1>0, <1>13 DEF vars, TypeOK
<1>14. QED
  BY <1>1, <1>2, <1>3, <1>4, <1>5, <1>6, <1>7, <1>8, <1>9, <1>10, <1>11, <1>12,
     <1>13 DEF Next

\* Every reachable state is well typed.
THEOREM TypeCorrect == Spec => []TypeOK
<1>1. QED
  BY InitType, StepType, PTL DEF Spec
-----------------------------------------------------------------------------
(* The bounds.                                                             *)

\* A sequence that begins with a given element.
LEMMA Consed ==
  ASSUME NEW S, NEW e \in S, NEW s \in Seq(S)
  PROVE  <<e>> \o s # <<>> /\ Head(<<e>> \o s) = e /\ Tail(<<e>> \o s) = s
OBVIOUS

\* Leading, string by string.
LEMMA LeadingParts ==
  ASSUME given \in Given
  PROVE  /\ Leading # <<>>
         /\ HasProxy => Head(Leading) = ProxyPath /\ Tail(Leading) = <<DashP>> \o IdPart
         /\ ~HasProxy => Leading = <<DashP>> \o IdPart
         /\ <<DashP>> \o IdPart # <<>>
         /\ Head(<<DashP>> \o IdPart) = DashP
         /\ Tail(<<DashP>> \o IdPart) = IdPart
         /\ IdPart # <<>> => Head(IdPart) = SelfId /\ Tail(IdPart) = <<>>
<1>1. ProxyPath \in Strings /\ DashP \in Strings /\ SelfId \in Strings
  BY StringTypes
<1>2. /\ IdPart \in Seq(Strings)
      /\ IdPart # <<>> => Head(IdPart) = SelfId /\ Tail(IdPart) = <<>>
  BY <1>1 DEF IdPart
<1>3. /\ <<DashP>> \o IdPart # <<>>
      /\ Head(<<DashP>> \o IdPart) = DashP
      /\ Tail(<<DashP>> \o IdPart) = IdPart
  BY <1>1, <1>2, Consed
<1>4. <<DashP>> \in Seq(Strings) /\ <<ProxyPath>> \in Seq(Strings)
  BY <1>1
<1>5. <<DashP>> \o IdPart \in Seq(Strings)
  BY <1>2, <1>4, ConcatProperties
<1>6. CASE HasProxy
  <2>1. Leading = (<<ProxyPath>> \o <<DashP>>) \o IdPart
    BY <1>6, Zenon DEF Leading, IdPart
  <2>2. Leading = <<ProxyPath>> \o (<<DashP>> \o IdPart)
    BY <1>2, <1>4, <2>1, ConcatAssociative
  <2>3. /\ Leading # <<>> /\ Head(Leading) = ProxyPath
        /\ Tail(Leading) = <<DashP>> \o IdPart
    BY <1>1, <1>5, <2>2, Consed
  <2>4. QED
    BY <1>2, <1>3, <1>6, <2>3
<1>7. CASE ~HasProxy
  <2>1. Leading = (<<>> \o <<DashP>>) \o IdPart
    BY <1>7, Zenon DEF Leading, IdPart
  <2>2. <<>> \o <<DashP>> = <<DashP>>
    BY <1>4, ConcatEmptySeq
  <2>3. QED
    BY <1>2, <1>3, <1>7, <2>1, <2>2
<1>8. QED
  BY <1>6, <1>7

\* RoomAssumption, number by number.
LEMMA RoomNumbers ==
  /\ {BufSize, MaxArgc, ProxyLen, IdLen, PrefixLen, PathMax} \subseteq Nat
  /\ MaxArgc >= 5
  /\ ProxyLen + IdLen + 5 + PrefixLen + PathMax + 1 <= BufSize
BY RoomAssumption

LEMMA InitBounds == Init => Bounds
<1> SUFFICES ASSUME Init PROVE Bounds
  OBVIOUS
<1>1. TypeOK
  BY InitType
<1>2. LaidOut /\ Restored /\ MessageFits /\ Original
  BY RoomNumbers DEF Init, LaidOut, Restored, MessageFits, Original
<1>3. QED
  BY <1>1, <1>2 DEF Bounds

\* What BeginError leaves to be pushed when there are no arguments.
LEMMA ShortMessage ==
  <<Prefix, Exe>>
    \o [i \in 1..(2 * Len(<<>>)) |-> IF i % 2 = 1 THEN Blank ELSE <<>>[i \div 2]]
    = <<Prefix, Exe>>
<1>1. 1..(2 * Len(<<>>)) = {}
  OBVIOUS
<1>2. [i \in 1..(2 * Len(<<>>)) |-> IF i % 2 = 1 THEN Blank ELSE <<>>[i \div 2]] = <<>>
  BY <1>1
<1>3. QED
  BY <1>2

LEMMA StepBounds == Bounds /\ [Next]_vars => Bounds'
<1> SUFFICES ASSUME Bounds, [Next]_vars PROVE Bounds'
  OBVIOUS
<1>0. TypeOK /\ LaidOut /\ Restored /\ MessageFits /\ Original
  BY DEF Bounds
<1>T. TypeOK'
  BY <1>0, StepType
<1>K. /\ argc \in Nat /\ base \in Nat /\ top \in Nat /\ saved \in Nat
      /\ given \in Given
      /\ todo \in Seq(Strings)
  BY <1>0 DEF TypeOK
<1>R. /\ base <= ProxyLen + IdLen + 5
      /\ saved <= 3
      /\ argc <= IF pc = "proxy" THEN MaxArgc - 1 ELSE 3
      /\ top <= BufSize
  BY <1>0 DEF Restored
<1>C. /\ BufSize \in Nat /\ MaxArgc \in Nat /\ ProxyLen \in Nat
      /\ IdLen \in Nat /\ PrefixLen \in Nat /\ PathMax \in Nat
      /\ MaxArgc >= 5
      /\ ProxyLen + IdLen + 5 + PrefixLen + PathMax + 1 <= BufSize
  BY RoomNumbers
<1>L. todo # <<>> => Head(todo).len \in Nat
  <2>1. todo # <<>> => Head(todo) \in Strings
    BY <1>K
  <2>2. QED
    BY <2>1 DEF Strings
<1>S. /\ ProxyPath.len = ProxyLen /\ DashP.len = 2 /\ SelfId.len = IdLen
      /\ Prefix.len = PrefixLen /\ Exe.len \in 1..PathMax
  BY <1>K, StringTypes
<1> HIDE DEF TypeOK, HasProxy, HasId, Prefix, Exe, Raw, Args, DashP, SelfId, ProxyPath
<1>1. CASE StoreNext
  <2>1. /\ todo # <<>> /\ pc \in {"construct", "proxy"}
        /\ argc < MaxArgc - 1 /\ top + Head(todo).len + 1 <= BufSize
        /\ argc' = argc + 1 /\ top' = top + Head(todo).len + 1
        /\ todo' = Tail(todo)
        /\ UNCHANGED <<given, pc, why, base, saved, final, result>>
    BY <1>1 DEF StoreNext, StoreFits, SlotFree
  <2>2. UNCHANGED <<Leading, IdPart, ProxyPath, DashP, SelfId>>
    BY <2>1 DEF Leading, IdPart, HasProxy, HasId, ProxyPath, DashP, SelfId
  <2>3. CASE pc = "proxy"
    <3>1. Restored'
      BY <1>C, <1>K, <1>L, <1>R, <2>1, <2>3 DEF Restored
    <3>2. LaidOut' /\ MessageFits' /\ Original'
      BY <1>0, <2>1, <2>3 DEF LaidOut, MessageFits, Original
    <3>3. QED
      BY <1>T, <3>1, <3>2 DEF Bounds
  <2>4. CASE pc = "construct"
    <3>1. /\ LaidOut' /\ argc' <= 3
      <4>1. CASE todo = Leading /\ top = 0 /\ argc = 0 /\ HasProxy
        <5>1. Head(todo).len = ProxyLen /\ todo' = <<DashP>> \o IdPart
          BY <1>S, <2>1, <4>1, <1>K, LeadingParts
        <5>2. argc' = 1 /\ top' = ProxyLen + 1
          BY <1>C, <2>1, <4>1, <5>1
        <5>3. todo' = (<<DashP>> \o IdPart)'
          BY <2>2, <5>1
        <5>4. QED
          BY <1>C, <5>2, <5>3 DEF LaidOut
      <4>2. CASE todo = <<DashP>> \o IdPart /\ top <= ProxyLen + 1 /\ argc <= 1
        <5>1. Head(todo).len = 2 /\ todo' = IdPart
          BY <1>S, <2>1, <4>2, <1>K, LeadingParts
        <5>2. argc' <= 2 /\ top' <= ProxyLen + 4
          BY <1>C, <1>K, <2>1, <4>2, <5>1
        <5>3. todo' = IdPart'
          BY <2>2, <5>1
        <5>4. QED
          BY <1>C, <1>K, <2>1, <5>2, <5>3 DEF LaidOut
      <4>3. CASE todo = IdPart /\ top <= ProxyLen + 4 /\ argc <= 2
        <5>1. Head(todo).len = IdLen /\ todo' = <<>>
          BY <1>S, <2>1, <4>3, <1>K, LeadingParts
        <5>2. argc' <= 3 /\ top' <= ProxyLen + IdLen + 5
          BY <1>C, <1>K, <2>1, <4>3, <5>1
        <5>3. QED
          BY <5>1, <5>2 DEF LaidOut
      <4>4. QED
        <5>1. CASE todo = Leading /\ top = 0 /\ argc = 0 /\ ~HasProxy
          <6>1. todo = <<DashP>> \o IdPart /\ top <= ProxyLen + 1 /\ argc <= 1
            BY <1>C, <5>1, <1>K, LeadingParts
          <6>2. QED
            BY <4>2, <6>1
        <5>2. QED
          BY <1>0, <2>1, <2>4, <4>1, <4>2, <4>3, <5>1 DEF LaidOut
    <3>2. Restored'
      BY <1>C, <1>K, <1>L, <1>R, <2>1, <2>4, <3>1 DEF Restored
    <3>3. MessageFits' /\ Original'
      BY <1>0, <2>1, <2>4 DEF MessageFits, Original
    <3>4. QED
      BY <1>T, <3>1, <3>2, <3>3 DEF Bounds
  <2>5. QED
    BY <2>1, <2>3, <2>4
<1>2. CASE Constructed
  <2>1. /\ pc = "construct" /\ todo = <<>> /\ pc' = "check" /\ base' = top
        /\ UNCHANGED <<given, why, argv, argc, top, todo, saved, final, result>>
    BY <1>2 DEF Constructed
  <2>2. top <= ProxyLen + IdLen + 5
    <3>1. Leading # <<>> /\ <<DashP>> \o IdPart # <<>>
      BY <1>K, LeadingParts
    <3>2. \/ top <= ProxyLen + 4
          \/ top <= ProxyLen + IdLen + 5
      BY <1>0, <2>1, <3>1 DEF LaidOut
    <3>3. QED
      BY <1>C, <1>K, <3>2
  <2>3. Restored'
    BY <1>C, <1>K, <1>R, <2>1, <2>2 DEF Restored
  <2>4. LaidOut' /\ MessageFits' /\ Original'
    BY <1>0, <2>1 DEF LaidOut, MessageFits, Original
  <2>5. QED
    BY <1>T, <2>3, <2>4 DEF Bounds
<1>3. CASE PushNext
  <2>1. /\ pc = "error" /\ todo # <<>> /\ todo' = Tail(todo)
        /\ UNCHANGED <<given, pc, why, argv, argc, base, saved, final, result>>
    BY <1>3 DEF PushNext
  <2>2. \/ top' = top + Head(todo).len /\ top' <= BufSize
        \/ top' = top
    BY <1>3 DEF PushNext, PushFits
  <2>3. Restored'
    BY <1>C, <1>K, <1>L, <1>R, <2>1, <2>2 DEF Restored
  <2>4. MessageFits'
    <3>1. UNCHANGED <<Exe, Prefix>> /\ why' # "none"
      BY <1>0, <2>1 DEF Exe, Prefix, MessageFits
    <3>2. CASE why = "overflow"
      <4>1. CASE todo = <<Prefix, Exe>> /\ top = base
        <5>1. Head(todo).len = PrefixLen /\ todo' = <<Exe>>
          BY <1>S, <2>1, <4>1
        <5>2. top' <= base + PrefixLen
          BY <1>C, <1>K, <2>2, <4>1, <5>1
        <5>3. QED
          BY <2>1, <3>1, <5>1, <5>2 DEF MessageFits
      <4>2. CASE todo = <<Exe>> /\ top <= base + PrefixLen
        <5>1. Head(todo).len \in 1..PathMax /\ todo' = <<>>
          BY <1>S, <2>1, <4>2
        <5>2. top' <= base + PrefixLen + PathMax
          BY <1>C, <1>K, <2>2, <4>2, <5>1
        <5>3. QED
          BY <2>1, <3>1, <5>1, <5>2 DEF MessageFits
      <4>3. QED
        BY <1>0, <2>1, <3>2, <4>1, <4>2 DEF MessageFits
    <3>3. QED
      BY <2>1, <3>1, <3>2 DEF MessageFits
  <2>5. LaidOut' /\ Original'
    BY <1>0, <2>1 DEF LaidOut, Original
  <2>6. QED
    BY <1>T, <2>3, <2>4, <2>5 DEF Bounds
<1>4. CASE ErrorBuilt
  <2>1. /\ pc = "error" /\ Return
        /\ final'.path \in {"proxy", "null"}
        /\ UNCHANGED <<given, why, argc, base, top, todo, saved>>
    BY <1>4 DEF ErrorBuilt
  <2>2. pc' \in {"resolve", "done", "exec"} /\ result' \in {result, "errno"}
    BY <2>1 DEF Return
  <2>3. result' # "direct"
    BY <1>0, <2>1, <2>2 DEF Original
  <2>4. Restored'
    BY <1>R, <2>1, <2>2 DEF Restored
  <2>5. LaidOut' /\ MessageFits' /\ Original'
    BY <2>1, <2>2, <2>3 DEF LaidOut, MessageFits, Original
  <2>6. QED
    BY <1>T, <2>4, <2>5 DEF Bounds
<1>5. CASE ErrorOverflows
  <2>1. /\ pc = "error" /\ Return /\ todo = <<>> /\ top + 1 > BufSize
        /\ final' = [path |-> "original",
                     argv |-> IF why = "overflow" THEN "null" ELSE "original"]
        /\ UNCHANGED <<given, why, argc, base, top, todo, saved>>
    BY <1>5 DEF ErrorOverflows
  <2>2. pc' \in {"resolve", "done", "exec"} /\ result' \in {result, "errno"}
    BY <2>1 DEF Return
  <2>3. result' # "direct"
    BY <1>0, <2>1, <2>2 DEF Original
  <2>4. why # "overflow"
    BY <1>0, <1>C, <1>K, <1>R, <2>1 DEF MessageFits
  <2>5. why \in {"none", "session", "missing"}
    BY <1>0, <2>4 DEF TypeOK
  <2>6. why = "session" \/ pc' = "done"
    BY <1>0, <2>1, <2>5 DEF Return, MessageFits
  <2>7. Restored'
    BY <1>R, <2>1, <2>2 DEF Restored
  <2>8. Original'
    BY <2>1, <2>2, <2>3, <2>4, <2>6 DEF Original
  <2>9. LaidOut' /\ MessageFits'
    BY <2>2 DEF LaidOut, MessageFits
  <2>10. QED
    BY <1>T, <2>7, <2>8, <2>9 DEF Bounds
<1>6. CASE Overflow
  <2>1. /\ pc = "proxy" /\ pc' = "error" /\ why' = "overflow"
        /\ argc' = saved /\ top' = base
        /\ UNCHANGED <<given, argv, base, saved, final, result>>
    BY <1>6 DEF Overflow, BeginError
  <2>2. todo' = <<Prefix, Exe>>
    BY <1>6, ShortMessage DEF Overflow, BeginError
  <2>3. UNCHANGED <<Prefix, Exe>>
    BY <2>1 DEF Prefix, Exe
  <2>4. Restored'
    BY <1>C, <1>K, <1>R, <2>1 DEF Restored
  <2>5. MessageFits'
    BY <2>1, <2>2, <2>3 DEF MessageFits
  <2>6. LaidOut' /\ Original'
    BY <1>0, <2>1 DEF LaidOut, Original
  <2>7. QED
    BY <1>T, <2>4, <2>5, <2>6 DEF Bounds
<1>7. CASE ProxyBuilt
  <2>1. /\ pc = "proxy" /\ pc' = "exec" /\ argc' = saved
        /\ final'.path \in {"proxy", "null"}
        /\ UNCHANGED <<given, why, base, top, todo, saved, result>>
    BY <1>7 DEF ProxyBuilt
  <2>2. Restored'
    BY <1>C, <1>K, <1>R, <2>1 DEF Restored
  <2>3. LaidOut' /\ MessageFits' /\ Original'
    BY <1>0, <2>1 DEF LaidOut, MessageFits, Original
  <2>4. QED
    BY <1>T, <2>2, <2>3 DEF Bounds
<1>8. CASE NoPath
  <2>1. /\ pc = "check" /\ pc' = "done" /\ result' = "efault"
        /\ UNCHANGED <<given, why, argc, base, top, todo, saved, final>>
    BY <1>8 DEF NoPath
  <2>2. Restored'
    BY <1>R, <2>1 DEF Restored
  <2>3. LaidOut' /\ MessageFits' /\ Original'
    BY <1>0, <2>1 DEF LaidOut, MessageFits, Original
  <2>4. QED
    BY <1>T, <2>2, <2>3 DEF Bounds
<1>9. CASE SessionChecked
  <2>1. /\ pc = "check"
        /\ \/ pc' = "resolve" /\ UNCHANGED <<why, top, todo>>
           \/ pc' = "error" /\ why' = "session" /\ top' = base
        /\ UNCHANGED <<given, mem, argv, argc, base, saved, final, result>>
    BY <1>9 DEF SessionChecked, BeginError
  <2>2. Restored'
    BY <1>C, <1>K, <1>R, <2>1 DEF Restored
  <2>3. LaidOut' /\ MessageFits' /\ Original'
    BY <1>0, <2>1 DEF LaidOut, MessageFits, Original
  <2>4. QED
    BY <1>T, <2>2, <2>3 DEF Bounds
<1>10. CASE NotFound
  <2>1. /\ pc = "resolve" /\ pc' = "error" /\ why' = "missing" /\ top' = base
        /\ UNCHANGED <<given, mem, argv, argc, base, saved, final, result>>
    BY <1>10 DEF NotFound, BeginError
  <2>2. Restored'
    BY <1>C, <1>K, <1>R, <2>1 DEF Restored
  <2>3. LaidOut' /\ MessageFits' /\ Original'
    BY <1>0, <2>1 DEF LaidOut, MessageFits, Original
  <2>4. QED
    BY <1>T, <2>2, <2>3 DEF Bounds
<1>11. CASE Found
  <2>1. /\ pc = "resolve"
        /\ \/ /\ final.path = "null" /\ pc' = "proxy"
              /\ saved' = argc /\ top' = base
           \/ pc' = "exec" /\ UNCHANGED <<saved, top>>
        /\ UNCHANGED <<given, why, argc, base, final, result>>
    BY <1>11 DEF Found, BeginProxy
  <2>2. Restored'
    BY <1>C, <1>K, <1>R, <2>1 DEF Restored
  <2>3. LaidOut' /\ MessageFits' /\ Original'
    BY <1>0, <2>1 DEF LaidOut, MessageFits, Original
  <2>4. QED
    BY <1>T, <2>2, <2>3 DEF Bounds
<1>12. CASE Exec
  <2>1. /\ pc = "exec" /\ pc' = "done"
        /\ UNCHANGED <<given, why, argc, base, top, todo, saved, final>>
    BY <1>12 DEF Exec
  <2>2. result' = "direct" => final.path = "original"
    <3>1. final.path \in {"null", "proxy", "original"}
      BY <1>0 DEF TypeOK
    <3>2. QED
      BY <1>12, <3>1 DEF Exec
  <2>3. Restored'
    BY <1>R, <2>1 DEF Restored
  <2>4. LaidOut' /\ MessageFits' /\ Original'
    BY <1>0, <2>1, <2>2 DEF LaidOut, MessageFits, Original
  <2>5. QED
    BY <1>T, <2>3, <2>4 DEF Bounds
<1>13. CASE UNCHANGED vars
  <2>1. UNCHANGED <<given, pc, why, argc, base, top, todo, saved, final, result>>
    BY <1>13 DEF vars
  <2>2. UNCHANGED <<Leading, IdPart, DashP, Prefix, Exe>>
    BY <2>1 DEF Leading, IdPart, HasProxy, HasId, ProxyPath, DashP, SelfId, Prefix, Exe
  <2>3. QED
    BY <1>0, <1>T, <2>1, <2>2 DEF Bounds, LaidOut, Restored, MessageFits, Original
<1>14. QED
  BY <1>1, <1>2, <1>3, <1>4, <1>5, <1>6, <1>7, <1>8, <1>9, <1>10, <1>11, <1>12,
     <1>13 DEF Next

\* In every reachable state the room taken is the room there is.
THEOREM Bounded == Spec => []Bounds
<1>1. QED
  BY InitBounds, StepBounds, PTL DEF Spec

\* The builder never writes beyond its area or its vector, whatever the
\* lengths and the number of the arguments.
THEOREM NoOverrun == Spec => []StaysInBounds
<1>1. ASSUME Bounds PROVE StaysInBounds
  <2>1. /\ argc \in Nat /\ top <= BufSize
        /\ argc <= IF pc = "proxy" THEN MaxArgc - 1 ELSE 3
    BY <1>1 DEF Bounds, TypeOK, Restored
  <2>2. MaxArgc \in Nat /\ MaxArgc >= 5
    BY RoomNumbers
  <2>3. QED
    BY <2>1, <2>2 DEF StaysInBounds
<1>2. QED
  BY <1>1, Bounded, PTL

\* A command that runs without the proxy runs with its own arguments.
THEOREM RunsAsGiven == Spec => []ArgumentsKept
<1>1. Bounds => ArgumentsKept
  BY DEF Bounds, Original, ArgumentsKept
<1>2. QED
  BY <1>1, Bounded, PTL
-----------------------------------------------------------------------------
(* What the vector holds.  The strings lie one behind the other, so what   *)
(* is written at top_ leaves the earlier ones whole.                       *)

\* Stored, of an area m and a vector v.
InPlace(m, v, strings, n, end) ==
  \A i \in 1..n :
    /\ v[i - 1].str = strings[i]
    /\ v[i - 1].at + strings[i].len < end
    /\ \A k \in v[i - 1].at..(v[i - 1].at + strings[i].len) : m[k] = strings[i]

\* VectorIs, of an area m and a vector v.
Reads(m, v, strings) ==
  /\ Len(strings) < MaxArgc
  /\ v[Len(strings)] = NullSlot
  /\ \A i \in 1..Len(strings) :
       /\ v[i - 1].str = strings[i]
       /\ IF strings[i] = Message
            THEN \E e \in v[i - 1].at..(BufSize - 1) :
                   m[e] = MessageEnd /\ \A k \in v[i - 1].at..(e - 1) : m[k] = Message
            ELSE /\ v[i - 1].at + v[i - 1].str.len < BufSize
                 /\ \A k \in v[i - 1].at..(v[i - 1].at + v[i - 1].str.len) :
                      m[k] = v[i - 1].str

\* Strings a caller or the library passes, in contrast to a message.
Plain == {s \in Strings : s.of # "message"}

\* The sizes of the builder's area and of its vector.
LEMMA Sizes == BufSize \in Nat /\ MaxArgc \in Nat /\ MaxArgc >= 5
BY RoomNumbers

\* v is a vector of the builder.
Vectors == [0..(MaxArgc - 1) -> Slots]

\* Strings in place stay so in an area that is the same before end.
LEMMA InPlaceKept ==
  ASSUME NEW m, NEW m2, NEW v \in Vectors, NEW v2, NEW S,
         NEW n \in Nat, n <= MaxArgc, NEW e \in Nat, NEW f \in Nat, e <= f,
         \A i \in 1..n : S[i] \in Strings,
         \A i \in 1..n : v2[i - 1] = v[i - 1],
         \A k \in 0..(e - 1) : m2[k] = m[k],
         InPlace(m, v, S, n, e)
  PROVE  InPlace(m2, v2, S, n, f)
<1> SUFFICES ASSUME NEW i \in 1..n
             PROVE  /\ v2[i - 1].str = S[i]
                    /\ v2[i - 1].at + S[i].len < f
                    /\ \A k \in v2[i - 1].at..(v2[i - 1].at + S[i].len) : m2[k] = S[i]
  BY DEF InPlace
<1>1. /\ v[i - 1].str = S[i]
      /\ v[i - 1].at + S[i].len < e
      /\ \A k \in v[i - 1].at..(v[i - 1].at + S[i].len) : m[k] = S[i]
  BY DEF InPlace
<1>2. v[i - 1].at \in Nat /\ S[i].len \in Nat
  <2>1. i - 1 \in 0..(MaxArgc - 1)
    BY Sizes
  <2>2. v[i - 1] \in Slots /\ S[i] \in Strings
    BY <2>1 DEF Vectors
  <2>3. QED
    BY <2>2 DEF Slots, Strings
<1>3. v2[i - 1] = v[i - 1]
  OBVIOUS
<1>4. ASSUME NEW k \in v[i - 1].at..(v[i - 1].at + S[i].len)
      PROVE  m2[k] = S[i]
  <2>1. k \in 0..(e - 1)
    BY <1>1, <1>2
  <2>2. QED
    BY <1>1, <2>1
<1>5. v[i - 1].at + S[i].len < f
  BY <1>1, <1>2
<1>6. QED
  BY <1>1, <1>3, <1>4, <1>5

\* Whether strings are in place depends on those strings only.
LEMMA InPlaceAlike ==
  ASSUME NEW m, NEW v, NEW S, NEW T, NEW n, NEW e,
         \A i \in 1..n : T[i] = S[i],
         InPlace(m, v, S, n, e)
  PROVE  InPlace(m, v, T, n, e)
BY DEF InPlace

\* One more string, stored behind those in place.
LEMMA InPlaceNext ==
  ASSUME NEW m, NEW m2, NEW v \in Vectors, NEW v2, NEW S,
         NEW n \in Nat, n <= MaxArgc, NEW e \in Nat,
         \A i \in 1..(n + 1) : S[i] \in Strings,
         \A i \in 1..n : v2[i - 1] = v[i - 1],
         v2[n] = Slot(S[n + 1], e),
         \A k \in 0..(e - 1) : m2[k] = m[k],
         \A k \in e..(e + S[n + 1].len) : m2[k] = S[n + 1],
         InPlace(m, v, S, n, e)
  PROVE  InPlace(m2, v2, S, n + 1, e + S[n + 1].len + 1)
<1>1. S[n + 1].len \in Nat
  <2>1. S[n + 1] \in Strings
    OBVIOUS
  <2>2. QED
    BY <2>1 DEF Strings
<1>2. \A i \in 1..n : S[i] \in Strings
  OBVIOUS
<1>3. InPlace(m2, v2, S, n, e + S[n + 1].len + 1)
  <2> DEFINE f == e + S[n + 1].len + 1
  <2>1. f \in Nat /\ e <= f
    BY <1>1
  <2> HIDE DEF f
  <2>2. InPlace(m2, v2, S, n, f)
    BY <1>2, <2>1, InPlaceKept, Zenon
  <2>3. QED
    BY <2>2 DEF f
<1>4. v2[n].str = S[n + 1] /\ v2[n].at = e
  BY DEF Slot
<1> SUFFICES ASSUME NEW i \in 1..(n + 1)
             PROVE  /\ v2[i - 1].str = S[i]
                    /\ v2[i - 1].at + S[i].len < e + S[n + 1].len + 1
                    /\ \A k \in v2[i - 1].at..(v2[i - 1].at + S[i].len) : m2[k] = S[i]
  BY DEF InPlace
<1>5. CASE i \in 1..n
  BY <1>3, <1>5 DEF InPlace
<1>6. CASE i = n + 1
  <2>1. i - 1 = n
    BY <1>6
  <2>2. QED
    BY <1>1, <1>4, <1>6, <2>1
<1>7. QED
  BY <1>5, <1>6

\* A vector of strings in place, with a null behind it, is what is read.
LEMMA WholeIsRead ==
  ASSUME NEW m, NEW v \in Vectors, NEW S \in Seq(Plain), NEW e \in Nat,
         e <= BufSize, Len(S) < MaxArgc,
         InPlace(m, v, S, Len(S), e), v[Len(S)] = NullSlot
  PROVE  Reads(m, v, S)
<1> SUFFICES ASSUME NEW i \in 1..Len(S)
             PROVE  /\ v[i - 1].str = S[i]
                    /\ S[i] # Message
                    /\ v[i - 1].at + v[i - 1].str.len < BufSize
                    /\ \A k \in v[i - 1].at..(v[i - 1].at + v[i - 1].str.len) :
                         m[k] = v[i - 1].str
  BY DEF Reads
<1>1. /\ v[i - 1].str = S[i]
      /\ v[i - 1].at + S[i].len < e
      /\ \A k \in v[i - 1].at..(v[i - 1].at + S[i].len) : m[k] = S[i]
  BY DEF InPlace
<1>2. S[i] \in Plain
  OBVIOUS
<1>3. S[i] # Message
  BY <1>2 DEF Plain, Message, Str
<1>4. v[i - 1].at \in Nat /\ S[i].len \in Nat /\ BufSize \in Nat
  <2>1. i - 1 \in 0..(MaxArgc - 1)
    BY Sizes
  <2>2. v[i - 1] \in Slots
    BY <2>1 DEF Vectors
  <2>3. QED
    BY <1>2, <2>2, Sizes DEF Slots, Strings, Plain
<1>5. QED
  BY <1>1, <1>3, <1>4

\* Strings in place with a message behind them, from b to its end at t.
LEMMA MessageIsRead ==
  ASSUME NEW m, NEW v \in Vectors, NEW S \in Seq(Plain), NEW b \in Nat, NEW t \in Nat,
         b <= t, t < BufSize, Len(S) + 1 < MaxArgc,
         InPlace(m, v, S, Len(S), b),
         v[Len(S)] = Slot(Message, b), v[Len(S) + 1] = NullSlot,
         \A k \in b..(t - 1) : m[k] = Message,
         m[t] = MessageEnd
  PROVE  Reads(m, v, S \o <<Message>>)
<1> DEFINE M == S \o <<Message>>
<1>1. /\ Len(M) = Len(S) + 1
      /\ M[Len(S) + 1] = Message
      /\ \A i \in 1..Len(S) : M[i] = S[i]
  OBVIOUS
<1> HIDE DEF M
<1>2. BufSize \in Nat /\ MaxArgc \in Nat
  BY Sizes
<1>3. ASSUME NEW i \in 1..Len(S)
      PROVE  /\ v[i - 1].str = M[i]
             /\ M[i] # Message
             /\ v[i - 1].at + v[i - 1].str.len < BufSize
             /\ \A k \in v[i - 1].at..(v[i - 1].at + v[i - 1].str.len) :
                  m[k] = v[i - 1].str
  <2>1. /\ v[i - 1].str = S[i]
        /\ v[i - 1].at + S[i].len < b
        /\ \A k \in v[i - 1].at..(v[i - 1].at + S[i].len) : m[k] = S[i]
    BY DEF InPlace
  <2>2. S[i] \in Plain
    OBVIOUS
  <2>3. S[i] # Message
    BY <2>2 DEF Plain, Message, Str
  <2>4. v[i - 1].at \in Nat /\ S[i].len \in Nat
    <3>1. i - 1 \in 0..(MaxArgc - 1)
      BY <1>2
    <3>2. v[i - 1] \in Slots
      BY <3>1 DEF Vectors
    <3>3. QED
      BY <2>2, <3>2 DEF Slots, Strings, Plain
  <2>5. v[i - 1].at + S[i].len < BufSize
    BY <1>2, <2>1, <2>4, SMTT(30)
  <2>6. QED
    BY <1>1, <2>1, <2>3, <2>5
<1>4. /\ v[Len(S)].str = Message /\ v[Len(S)].at = b
      /\ t \in b..(BufSize - 1)
  BY <1>2 DEF Slot
<1>5. \E e \in v[Len(S)].at..(BufSize - 1) :
        m[e] = MessageEnd /\ \A k \in v[Len(S)].at..(e - 1) : m[k] = Message
  BY <1>4
<1>6. Len(M) < MaxArgc /\ v[Len(M)] = NullSlot
  BY <1>1
<1>7. ASSUME NEW i \in 1..Len(M)
      PROVE  /\ v[i - 1].str = M[i]
             /\ IF M[i] = Message
                  THEN \E e \in v[i - 1].at..(BufSize - 1) :
                         m[e] = MessageEnd /\ \A k \in v[i - 1].at..(e - 1) : m[k] = Message
                  ELSE /\ v[i - 1].at + v[i - 1].str.len < BufSize
                       /\ \A k \in v[i - 1].at..(v[i - 1].at + v[i - 1].str.len) :
                            m[k] = v[i - 1].str
  <2>1. CASE i \in 1..Len(S)
    BY <1>3, <2>1
  <2>2. CASE i = Len(S) + 1
    <3>1. i - 1 = Len(S) /\ M[i] = Message
      BY <1>1, <2>2
    <3>2. QED
      BY <1>4, <1>5, <3>1
  <2>3. QED
    BY <1>1, <2>1, <2>2
<1>8. QED
  BY <1>6, <1>7 DEF Reads, M
-----------------------------------------------------------------------------
(* The strings of a call.                                                  *)

\* What proxy_str adds to the leading part.
Command == <<DashDash, Exe>> \o Args

\* Every string of a call is in Plain, and there are at most three before the
\* command.
LEMMA PlainParts ==
  ASSUME given \in Given
  PROVE  /\ Leading \in Seq(Plain) /\ Len(Leading) \in 1..3
         /\ Command \in Seq(Plain)
         /\ Whole \in Seq(Plain) /\ Whole = Leading \o Command
<1>1. /\ ProxyPath \in Strings /\ DashP \in Strings /\ SelfId \in Strings
      /\ DashDash \in Strings /\ Exe \in Strings /\ Args \in Seq(Strings)
  BY StringTypes
<1>2. /\ ProxyPath \in Plain /\ DashP \in Plain /\ SelfId \in Plain
      /\ DashDash \in Plain /\ Exe \in Plain
  BY <1>1 DEF Plain, ProxyPath, DashP, SelfId, DashDash, Exe, Str
<1>3. Args \in Seq(Plain)
  <2>1. Len(Args) \in Nat /\ Args \in [1..Len(Args) -> Strings]
    BY <1>1
  <2>2. Args = [i \in 1..Len(given.args) |-> Str("arg", i, given.args[i])]
    BY Zenon DEF Args
  <2>3. \A i \in 1..Len(Args) : Args[i].of = "arg"
    <3>1. DOMAIN Args = 1..Len(Args) /\ DOMAIN Args = 1..Len(given.args)
      BY <2>1, <2>2
    <3>2. QED
      BY <2>2, <3>1 DEF Str
  <2>4. \A i \in 1..Len(Args) : Args[i] \in Plain
    BY <2>1, <2>3 DEF Plain
  <2>5. Args \in [1..Len(Args) -> Plain]
    BY <2>1, <2>4, Zenon
  <2>6. QED
    BY <2>1, <2>5, SeqDef, Zenon
<1>4. Command \in Seq(Plain)
  <2>1. <<DashDash, Exe>> \in Seq(Plain)
    BY <1>2
  <2>2. QED
    BY <1>3, <2>1, ConcatProperties, Zenon DEF Command
<1> DEFINE P == IF HasProxy THEN <<ProxyPath>> ELSE <<>>
<1> DEFINE I == IF HasId THEN <<SelfId>> ELSE <<>>
<1>5. /\ P \in Seq(Plain) /\ Len(P) \in 0..1
      /\ I \in Seq(Plain) /\ Len(I) \in 0..1
      /\ <<DashP>> \in Seq(Plain) /\ Len(<<DashP>>) = 1
  BY <1>2
<1>6. Leading = (P \o <<DashP>>) \o I
  BY Zenon DEF Leading
<1> HIDE DEF P, I
<1>7. Leading \in Seq(Plain) /\ Len(Leading) \in 1..3
  BY <1>5, <1>6
<1>8. Whole = Leading \o Command
  <2>1. <<DashDash, Exe>> \in Seq(Plain)
    BY <1>2
  <2>2. Whole = (Leading \o <<DashDash, Exe>>) \o Args
    BY Zenon DEF Whole
  <2>3. (Leading \o <<DashDash, Exe>>) \o Args = Leading \o (<<DashDash, Exe>> \o Args)
    BY <1>3, <1>7, <2>1, ConcatAssociative
  <2>4. QED
    BY <2>2, <2>3, Zenon DEF Command
<1>9. Whole \in Seq(Plain)
  BY <1>4, <1>7, <1>8, ConcatProperties, Zenon
<1>10. QED
  BY <1>4, <1>7, <1>8, <1>9, Zenon

\* Whole, string by string.
LEMMA WholeParts ==
  ASSUME given \in Given
  PROVE  /\ Len(Whole) = Len(Leading) + Len(Command)
         /\ \A i \in 1..Len(Leading) : Whole[i] = Leading[i]
         /\ \A i \in 1..Len(Command) : Whole[Len(Leading) + i] = Command[i]
<1>1. Leading \in Seq(Plain) /\ Command \in Seq(Plain) /\ Whole = Leading \o Command
  BY PlainParts
<1> HIDE DEF Leading, Command, Whole
<1>2. QED
  BY <1>1

\* Once the leading part is in place, a step that writes behind it only and
\* that takes back the pointers behind it keeps the layout.
LEMMA LayoutKept ==
  ASSUME TypeOK, Layout, given' = given, base' = base,
         pc # "construct", pc' \notin {"construct", "proxy"},
         argc' = Len(Leading), top' \in Nat, base <= top',
         \A i \in 1..Len(Leading) : argv'[i - 1] = argv[i - 1],
         \A k \in 0..(base - 1) : mem'[k] = mem[k],
         pc' = "error" => \A k \in base..(top' - 1) : mem'[k] = Message
  PROVE  Layout'
<1>1. /\ given \in Given /\ base \in Nat
      /\ argv \in Vectors
  BY DEF TypeOK, Vectors
<1>2. Leading \in Seq(Plain) /\ Len(Leading) \in 1..3
  BY <1>1, PlainParts
<1>3. \A i \in 1..Len(Leading) : Leading[i] \in Strings
  <2> HIDE DEF Leading
  <2>1. QED
    BY <1>2 DEF Plain
<1>4. InPlace(mem, argv, Leading, Len(Leading), base)
  BY DEF Layout, Stored, InPlace
<1>5. InPlace(mem', argv', Leading, Len(Leading), base)
  <2> DEFINE n == Len(Leading)
  <2>1. n \in 1..3 /\ MaxArgc \in Nat /\ MaxArgc >= 5
    BY <1>2, Sizes
  <2>2. /\ \A i \in 1..n : argv'[i - 1] = argv[i - 1]
        /\ \A i \in 1..n : Leading[i] \in Strings
        /\ InPlace(mem, argv, Leading, n, base)
    BY <1>3, <1>4, Zenon
  <2> HIDE DEF n
  <2>3. n \in Nat /\ n <= MaxArgc
    BY <2>1
  <2>4. base <= base
    BY <1>1
  <2>5. InPlace(mem', argv', Leading, n, base)
    BY <1>1, <2>2, <2>3, <2>4, InPlaceKept, Zenon
  <2>6. QED
    BY <2>5 DEF n
<1>6. Leading' = Leading
  BY DEF Leading, HasProxy, HasId, ProxyPath, DashP, SelfId
<1>7. Stored(Leading, Len(Leading), base)'
  BY <1>5, <1>6 DEF Stored, InPlace
<1>8. QED
  BY <1>6, <1>7 DEF Layout, Message, Str
\* What was written is read back up to where the area ends, and nothing before
\* top_ has changed.
LEMMA WrittenRead ==
  ASSUME NEW s, NEW n \in Nat, top \in Nat, top + n <= BufSize
  PROVE  /\ \A k \in 0..(top - 1) : Written(s, n)[k] = mem[k]
         /\ \A k \in top..(top + n - 1) : Written(s, n)[k] = s
<1>1. BufSize \in Nat
  BY Sizes
<1>2. ASSUME NEW k \in 0..(top - 1)
      PROVE  k \in 0..(BufSize - 1) /\ k \notin top..(top + n - 1)
  BY <1>1
<1>3. ASSUME NEW k \in top..(top + n - 1)
      PROVE  k \in 0..(BufSize - 1)
  BY <1>1
<1>4. \A k \in 0..(BufSize - 1) :
        Written(s, n)[k] = IF k \in top..(top + n - 1) THEN s ELSE mem[k]
  BY Zenon DEF Written
<1>5. QED
  BY <1>2, <1>3, <1>4, Zenon

\* The string to be stored next is stored behind those in place.
LEMMA StoredNext ==
  ASSUME TypeOK, StoreNext, NEW S \in Seq(Plain), NEW n \in Nat, n = argc,
         InPlace(mem, argv, S, n, top),
         Len(todo) + n = Len(S),
         \A i \in 1..Len(todo) : todo[i] = S[n + i]
  PROVE  /\ InPlace(mem', argv', S, n + 1, top')
         /\ Len(todo') + n + 1 = Len(S)
         /\ \A i \in 1..Len(todo') : todo'[i] = S[n + 1 + i]
<1>1. /\ todo # <<>> /\ n < MaxArgc - 1 /\ top + Head(todo).len + 1 <= BufSize
      /\ mem' = Written(Head(todo), Head(todo).len + 1)
      /\ argv' = [argv EXCEPT ![n] = Slot(Head(todo), top)]
      /\ top' = top + Head(todo).len + 1
      /\ todo' = Tail(todo)
  BY DEF StoreNext, StoreFits, SlotFree
<1>2. top \in Nat /\ todo \in Seq(Strings) /\ argv \in Vectors
  BY DEF TypeOK, Vectors
<1>3. Len(todo) \in Nat /\ Len(todo) >= 1 /\ Head(todo) = todo[1]
  BY <1>1, <1>2
<1>4. /\ Head(todo) = S[n + 1]
      /\ n + 1 \in 1..Len(S)
  BY <1>3
<1>5. S[n + 1] \in Strings /\ S[n + 1].len \in Nat
  <2>1. S[n + 1] \in Plain
    BY <1>4
  <2>2. QED
    BY <2>1 DEF Plain, Strings
<1>6. \A i \in 1..(n + 1) : S[i] \in Strings
  <2>1. \A i \in 1..Len(S) : S[i] \in Plain
    OBVIOUS
  <2>2. QED
    BY <1>4, <2>1 DEF Plain
<1>7. /\ \A i \in 1..n : argv'[i - 1] = argv[i - 1]
      /\ argv'[n] = Slot(S[n + 1], top)
  BY <1>1, <1>2, <1>4, Sizes DEF Vectors
<1>8. /\ \A k \in 0..(top - 1) : mem'[k] = mem[k]
      /\ \A k \in top..(top + S[n + 1].len) : mem'[k] = S[n + 1]
  <2> DEFINE len == S[n + 1].len
  <2>1. /\ S[n + 1].len + 1 \in Nat /\ top + (S[n + 1].len + 1) <= BufSize
        /\ top + (S[n + 1].len + 1) - 1 = top + S[n + 1].len
    <3>1. len \in Nat /\ top \in Nat /\ BufSize \in Nat
      BY <1>2, <1>5, Sizes, Zenon
    <3>2. top + len + 1 <= BufSize
      BY <1>1, <1>4, Zenon
    <3> HIDE DEF len
    <3>3. len + 1 \in Nat /\ top + (len + 1) <= BufSize /\ top + (len + 1) - 1 = top + len
      BY <3>1, <3>2
    <3>4. QED
      BY <3>3, Zenon DEF len
  <2>2. mem' = Written(S[n + 1], S[n + 1].len + 1)
    BY <1>1, <1>4
  <2>3. QED
    BY <1>2, <2>1, <2>2, WrittenRead, SMTT(30)
<1>9. n <= MaxArgc
  BY <1>1, Sizes
<1>10. InPlace(mem', argv', S, n + 1, top + S[n + 1].len + 1)
  BY <1>2, <1>6, <1>7, <1>8, <1>9, InPlaceNext
<1>11. /\ Len(todo') = Len(todo) - 1
       /\ \A i \in 1..Len(todo') : todo'[i] = todo[i + 1]
  BY <1>1, <1>2, HeadTailProperties
<1>12. \A i \in 1..Len(todo') : todo'[i] = S[n + 1 + i]
  BY <1>3, <1>11
<1>13. QED
  BY <1>1, <1>3, <1>4, <1>10, <1>11, <1>12

\* store_arg keeps the layout.
LEMMA StoreLayout ==
  ASSUME TypeOK, Layout, StoreNext
  PROVE  Layout'
<1>1. /\ pc \in {"construct", "proxy"}
      /\ mem' = Written(Head(todo), Head(todo).len + 1)
      /\ argv' = [argv EXCEPT ![argc] = Slot(Head(todo), top)]
      /\ argc' = argc + 1
      /\ top' = top + Head(todo).len + 1
      /\ UNCHANGED <<given, pc, why, base, saved, final, result>>
      /\ todo # <<>> /\ top + Head(todo).len + 1 <= BufSize
  BY DEF StoreNext, StoreFits
<1>2. /\ given \in Given /\ argc \in Nat /\ base \in Nat /\ top \in Nat
      /\ todo \in Seq(Strings) /\ argv \in Vectors
  BY DEF TypeOK, Vectors
<1>3. Head(todo).len \in Nat
  <2>1. Head(todo) \in Strings
    BY <1>1, <1>2
  <2>2. QED
    BY <2>1 DEF Strings
<1>4. /\ Leading \in Seq(Plain) /\ Len(Leading) \in 1..3 /\ Whole \in Seq(Plain)
  BY <1>2, PlainParts
<1>5. Leading' = Leading /\ Whole' = Whole
  BY <1>1 DEF Leading, Whole, HasProxy, HasId, ProxyPath, DashP, SelfId, DashDash,
     Exe, Args
<1>6. CASE pc = "construct"
  <2>1. /\ InPlace(mem, argv, Leading, argc, top)
        /\ Len(todo) + argc = Len(Leading)
        /\ \A i \in 1..Len(todo) : todo[i] = Leading[argc + i]
    BY <1>6 DEF Layout, Stored, InPlace, Remaining
  <2>2. /\ InPlace(mem', argv', Leading, argc + 1, top')
        /\ Len(todo') + argc + 1 = Len(Leading)
        /\ \A i \in 1..Len(todo') : todo'[i] = Leading[argc + 1 + i]
    BY <1>2, <1>4, <2>1, StoredNext
  <2>3. Stored(Leading, argc, top)'
    BY <1>1, <1>5, <2>2 DEF Stored, InPlace
  <2>4. Len(todo') + argc' = Len(Leading)
    <3>1. Len(todo') \in Nat
      <4>1. todo' = Tail(todo)
        BY DEF StoreNext
      <4>2. QED
        BY <1>1, <1>2, <4>1
    <3>2. QED
      BY <1>1, <1>2, <2>2, <3>1
  <2>5. Remaining(Leading)'
    BY <1>1, <1>5, <2>2, <2>4 DEF Remaining
  <2>6. QED
    BY <1>1, <1>6, <2>3, <2>5 DEF Layout
<1>7. CASE pc = "proxy"
  <2>1. /\ InPlace(mem, argv, Whole, argc, top)
        /\ Len(todo) + argc = Len(Whole)
        /\ \A i \in 1..Len(todo) : todo[i] = Whole[argc + i]
        /\ InPlace(mem, argv, Leading, Len(Leading), base)
        /\ base <= top /\ saved = Len(Leading) /\ saved <= argc
    BY <1>7 DEF Layout, Stored, InPlace, Remaining
  <2>2. /\ InPlace(mem', argv', Whole, argc + 1, top')
        /\ Len(todo') + argc + 1 = Len(Whole)
        /\ \A i \in 1..Len(todo') : todo'[i] = Whole[argc + 1 + i]
    BY <1>2, <1>4, <2>1, StoredNext
  <2>3. Stored(Whole, argc, top)'
    BY <1>1, <1>5, <2>2 DEF Stored, InPlace
  <2>4. Len(todo') + argc' = Len(Whole)
    <3>1. Len(todo') \in Nat
      <4>1. todo' = Tail(todo)
        BY DEF StoreNext
      <4>2. QED
        BY <1>1, <1>2, <4>1
    <3>2. QED
      BY <1>1, <1>2, <2>2, <3>1
  <2>5. Remaining(Whole)'
    BY <1>1, <1>5, <2>2, <2>4 DEF Remaining
  <2>6. InPlace(mem', argv', Leading, Len(Leading), base)
    <3> DEFINE n == Len(Leading)
    <3>1. n \in 1..3 /\ MaxArgc \in Nat /\ MaxArgc >= 5 /\ n <= argc
      BY <1>4, <2>1, Sizes
    <3>2. \A i \in 1..n : Leading[i] \in Strings
      BY <1>4 DEF Plain
    <3>3. InPlace(mem, argv, Leading, n, base)
      BY <2>1
    <3> HIDE DEF n
    <3>4. \A i \in 1..n : argv'[i - 1] = argv[i - 1]
      BY <1>1, <1>2, <3>1 DEF Vectors
    <3>5. \A k \in 0..(base - 1) : mem'[k] = mem[k]
      <4>1. \A k \in 0..(top - 1) : mem'[k] = mem[k]
        <5> DEFINE l == Head(todo).len + 1
        <5>1. l \in Nat /\ top + l <= BufSize
          BY <1>1, <1>2, <1>3, Sizes
        <5>2. mem' = Written(Head(todo), l)
          BY <1>1
        <5> HIDE DEF l
        <5>3. QED
          BY <1>2, <5>1, <5>2, WrittenRead
      <4>2. QED
        BY <1>2, <2>1, <4>1
    <3>6. n \in Nat /\ n <= MaxArgc /\ base <= base
      BY <1>2, <3>1
    <3>7. InPlace(mem', argv', Leading, n, base)
      BY <1>2, <3>2, <3>3, <3>4, <3>5, <3>6, InPlaceKept, Zenon
    <3>8. QED
      BY <3>7 DEF n
  <2>7. Stored(Leading, Len(Leading), base)'
    BY <1>1, <1>5, <2>6 DEF Stored, InPlace
  <2>8. base' <= top' /\ saved' = Len(Leading') /\ saved' <= argc'
    BY <1>1, <1>2, <1>3, <1>4, <1>5, <2>1, SMTT(30)
  <2>9. QED
    BY <1>1, <1>7, <2>3, <2>5, <2>7, <2>8 DEF Layout
<1>8. QED
  BY <1>1, <1>6, <1>7
-----------------------------------------------------------------------------
(* Every step of a call.                                                   *)

\* What a step that leaves the call and the vector alone leaves to be read.
LEMMA SameRead ==
  ASSUME UNCHANGED <<given, mem, argv>>, NEW S
  PROVE  Reads(mem', argv', S) <=> Reads(mem, argv, S)
OBVIOUS

\* The strings are the call's, which no step changes.
LEMMA SameStrings ==
  ASSUME given' = given
  PROVE  /\ Leading' = Leading /\ Whole' = Whole /\ Command' = Command
         /\ HasProxy' = HasProxy /\ HasId' = HasId
         /\ why' = why => Wanted' = Wanted
BY DEF Wanted, Leading, Whole, Command, HasProxy, HasId, ProxyPath, DashP, SelfId,
   DashDash, Exe, Args

\* What is stored in front of base is not touched.
LEMMA BelowBase ==
  ASSUME TypeOK, NEW s, NEW n \in Nat, base <= top, top + n <= BufSize
  PROVE  \A k \in 0..(base - 1) : Written(s, n)[k] = mem[k]
<1>1. base \in Nat /\ top \in Nat
  BY DEF TypeOK
<1>2. \A k \in 0..(top - 1) : Written(s, n)[k] = mem[k]
  BY <1>1, WrittenRead
<1>3. QED
  BY <1>1, <1>2

\* What is between b and u is before t or in the n characters from t on.
LEMMA Between ==
  ASSUME NEW b \in Nat, NEW t \in Nat, NEW n \in Nat, NEW u \in Nat, u <= t + n,
         NEW k \in b..(u - 1)
  PROVE  \/ k \in b..(t - 1) /\ k \in 0..(t - 1)
         \/ k \in t..(t + n - 1)
OBVIOUS

\* The layout after each step but store_arg's.
LEMMA StepLayout ==
  ASSUME Bounds, Layout, [Next]_vars, ~StoreNext
  PROVE  Layout'
<1>0. TypeOK /\ Restored /\ MessageFits
  BY DEF Bounds
<1>1. /\ given \in Given /\ argc \in Nat /\ base \in Nat /\ top \in Nat
      /\ todo \in Seq(Strings) /\ argv \in Vectors
      /\ BufSize \in Nat /\ MaxArgc \in Nat /\ MaxArgc >= 5
  BY <1>0, Sizes DEF TypeOK, Vectors
<1>N. Len(Leading) \in 1..3
  BY <1>1, PlainParts
<1>M. argc \in Nat /\ MaxArgc \in Nat /\ MaxArgc >= 5
  BY <1>1
<1>2. /\ Leading \in Seq(Plain) /\ Whole \in Seq(Plain)
      /\ Command \in Seq(Plain)
      /\ Len(Whole) = Len(Leading) + Len(Command)
      /\ \A i \in 1..Len(Leading) : Whole[i] = Leading[i]
      /\ \A i \in 1..Len(Command) : Whole[Len(Leading) + i] = Command[i]
  BY <1>1, PlainParts, WholeParts
<1>3. /\ pc # "construct" => base <= top
      /\ pc \notin {"construct", "proxy"} => argc = Len(Leading)
      /\ top <= BufSize
  BY <1>0 DEF Layout, Restored
<1>4. \A k \in base..(base - 1) : mem'[k] = Message
  BY <1>1
<1>5. CASE Constructed
  <2>1. /\ pc = "construct" /\ todo = <<>> /\ pc' = "check" /\ base' = top
        /\ mem' = Written(Message, 1)
        /\ UNCHANGED <<given, argv, argc, top>>
    BY <1>5 DEF Constructed
  <2>2. argc = Len(Leading) /\ InPlace(mem, argv, Leading, argc, top)
    BY <1>1, <1>2, <2>1 DEF Layout, Stored, InPlace, Remaining
  <2>3. top + 1 <= BufSize
    <3>1. top <= ProxyLen + IdLen + 5
      <4>1. todo = <<>>
        BY <2>1
      <4>2. Leading # <<>> /\ <<DashP>> \o IdPart # <<>>
        BY <1>1, LeadingParts
      <4>3. top <= ProxyLen + 4 \/ top <= ProxyLen + IdLen + 5
        BY <2>1, <4>1, <4>2 DEF Bounds, LaidOut
      <4>4. QED
        BY <1>1, <4>3, RoomNumbers
    <3>2. QED
      BY <1>1, <3>1, RoomNumbers
  <2>4. \A k \in 0..(top - 1) : mem'[k] = mem[k]
    BY <1>1, <2>1, <2>3, WrittenRead
  <2>5. InPlace(mem', argv', Leading, argc, top)
    <3>1. \A i \in 1..argc : Leading[i] \in Strings
      BY <1>2, <2>2 DEF Plain
    <3>2. \A i \in 1..argc : argv'[i - 1] = argv[i - 1]
      BY <2>1
    <3>3. argc <= MaxArgc
      <4>1. argc = Len(Leading)
        BY <2>2
      <4>2. QED
        BY <1>M, <1>N, <4>1
    <3>4. top <= top
      BY <1>1
    <3>5. QED
      BY <1>1, <2>2, <2>4, <3>1, <3>2, <3>3, <3>4, InPlaceKept, Zenon
  <2>6. Leading' = Leading
    BY <2>1, SameStrings
  <2>7. Stored(Leading, Len(Leading), base)'
    BY <2>1, <2>2, <2>5, <2>6 DEF Stored, InPlace
  <2>8. base' <= top'
    BY <1>1, <2>1
  <2>9. QED
    BY <2>1, <2>2, <2>6, <2>7, <2>8 DEF Layout
<1>6. CASE PushNext
  <2>1. /\ pc = "error" /\ pc' = "error" /\ todo # <<>>
        /\ UNCHANGED <<given, argv, argc, base>>
    BY <1>6 DEF PushNext
  <2>2. Head(todo).len \in Nat
    <3>1. Head(todo) \in Strings
      BY <1>1, <2>1
    <3>2. QED
      BY <3>1 DEF Strings
  <2>3. PICK n \in Nat : /\ top + n <= BufSize /\ mem' = Written(Message, n)
                         /\ top' = top \/ top' = top + n
    <3>1. CASE PushFits(Head(todo))
      <4>1. /\ mem' = Written(Message, Head(todo).len)
            /\ top' = top + Head(todo).len
        BY <1>6, <3>1 DEF PushNext
      <4>2. top + Head(todo).len <= BufSize
        BY <3>1 DEF PushFits
      <4>3. QED
        BY <2>2, <4>1, <4>2
    <3>2. CASE ~PushFits(Head(todo))
      <4>1. mem' = Written(Message, BufSize - top) /\ top' = top
        BY <1>6, <3>2 DEF PushNext, WrittenToEnd
      <4>2. BufSize - top \in Nat /\ top + (BufSize - top) <= BufSize
        BY <1>1, <1>3
      <4>3. QED
        BY <4>1, <4>2
    <3>3. QED
      BY <3>1, <3>2
  <2>4. /\ \A k \in 0..(top - 1) : mem'[k] = mem[k]
        /\ \A k \in top..(top + n - 1) : mem'[k] = Message
    BY <1>1, <2>3, WrittenRead
  <2>5. \A k \in base..(top - 1) : mem[k] = Message
    BY <2>1 DEF Layout
  <2>6. top' \in Nat /\ base <= top' /\ top' <= top + n
    BY <1>1, <1>3, <2>1, <2>3
  <2>7. \A k \in base..(top' - 1) : mem'[k] = Message
    <3> DEFINE u == top'
    <3>1. base \in Nat /\ top \in Nat /\ n \in Nat /\ u \in Nat /\ u <= top + n
      BY <1>1, <2>6
    <3> HIDE DEF u
    <3>2. \A k \in base..(u - 1) : mem'[k] = Message
      <4>1. \A k \in base..(u - 1) :
              \/ k \in base..(top - 1) /\ k \in 0..(top - 1)
              \/ k \in top..(top + n - 1)
        BY <3>1, Between, Zenon
      <4>2. QED
        BY <2>4, <2>5, <4>1, Zenon
    <3>3. QED
      BY <3>2 DEF u
  <2>8. \A k \in 0..(base - 1) : mem'[k] = mem[k]
    BY <1>1, <1>3, <2>1, <2>4
  <2>9. /\ \A i \in 1..Len(Leading) : argv'[i - 1] = argv[i - 1]
        /\ argc' = Len(Leading)
    BY <1>3, <2>1
  <2>10. QED
    BY <1>0, <2>1, <2>6, <2>7, <2>8, <2>9, LayoutKept
<1>7. CASE ErrorBuilt
  <2>1. /\ pc = "error" /\ Return /\ top + 1 <= BufSize
        /\ mem' = Written(MessageEnd, 1)
        /\ argv' = [argv EXCEPT ![argc] = Slot(Message, base), ![argc + 1] = NullSlot]
        /\ UNCHANGED <<given, argc, base, top>>
    BY <1>7 DEF ErrorBuilt
  <2>2. pc' \in {"resolve", "done", "exec"}
    BY <2>1 DEF Return
  <2>3. argc = Len(Leading) /\ base <= top
    BY <1>3, <2>1
  <2>4. \A k \in 0..(base - 1) : mem'[k] = mem[k]
    BY <1>0, <2>1, <2>3, BelowBase
  <2>5. \A i \in 1..Len(Leading) : argv'[i - 1] = argv[i - 1]
    <3>1. ASSUME NEW i \in 1..Len(Leading)
          PROVE  i - 1 \in 0..(MaxArgc - 1) /\ i - 1 < argc
      BY <1>M, <1>N, <2>3
    <3>2. QED
      BY <1>1, <2>1, <3>1 DEF Vectors
  <2>6. QED
    BY <1>0, <1>1, <2>1, <2>2, <2>3, <2>4, <2>5, LayoutKept
<1>8. CASE ErrorOverflows
  <2>1. /\ pc = "error" /\ Return
        /\ UNCHANGED <<given, mem, argv, argc, base, top>>
    BY <1>8 DEF ErrorOverflows
  <2>2. pc' \in {"resolve", "done", "exec"}
    BY <2>1 DEF Return
  <2>3. QED
    BY <1>0, <1>1, <1>3, <2>1, <2>2, LayoutKept
<1>9. CASE Overflow
  <2>1. /\ pc = "proxy" /\ pc' = "error" /\ todo # <<>>
        /\ mem' = IF SlotFree THEN WrittenToEnd(Head(todo)) ELSE mem
        /\ argc' = saved /\ top' = base
        /\ UNCHANGED <<given, argv, base>>
    BY <1>9 DEF Overflow, BeginError
  <2>2. saved = Len(Leading) /\ base <= top
    BY <2>1 DEF Layout
  <2>3. BufSize - top \in Nat /\ top + (BufSize - top) <= BufSize
    BY <1>1, <1>3
  <2>4. \A k \in 0..(base - 1) : WrittenToEnd(Head(todo))[k] = mem[k]
    BY <1>0, <2>2, <2>3, BelowBase DEF WrittenToEnd
  <2>5. \A k \in 0..(base - 1) : mem'[k] = mem[k]
    BY <2>1, <2>4
  <2>6. top' \in Nat /\ base <= top'
    BY <1>1, <2>1
  <2>7. \A k \in base..(top' - 1) : mem'[k] = Message
    BY <1>4, <2>1
  <2>8. QED
    BY <1>0, <2>1, <2>2, <2>5, <2>6, <2>7, LayoutKept
<1>10. CASE ProxyBuilt
  <2>1. /\ pc = "proxy" /\ pc' = "exec" /\ argc' = saved
        /\ argv' = [argv EXCEPT ![argc] = NullSlot]
        /\ UNCHANGED <<given, mem, base, top>>
    BY <1>10 DEF ProxyBuilt
  <2>2. saved = Len(Leading) /\ saved <= argc /\ base <= top
    BY <2>1 DEF Layout
  <2>3. \A i \in 1..Len(Leading) : argv'[i - 1] = argv[i - 1]
    <3>1. ASSUME NEW i \in 1..Len(Leading)
          PROVE  i - 1 \in 0..(MaxArgc - 1) /\ i - 1 < argc
      BY <1>M, <1>N, <2>2
    <3>2. QED
      BY <1>1, <2>1, <3>1 DEF Vectors
  <2>4. QED
    BY <1>0, <1>1, <2>1, <2>2, <2>3, LayoutKept
<1>11. CASE NoPath \/ Exec
  <2>1. /\ pc \in {"check", "exec"} /\ pc' = "done"
        /\ UNCHANGED <<given, mem, argv, argc, base, top>>
    BY <1>11 DEF NoPath, Exec
  <2>2. QED
    BY <1>0, <1>1, <1>3, <2>1, LayoutKept
<1>12. CASE SessionChecked \/ NotFound
  <2>1. /\ pc \in {"check", "resolve"}
        /\ \/ pc' = "resolve" /\ UNCHANGED top
           \/ pc' = "error" /\ top' = base
        /\ UNCHANGED <<given, mem, argv, argc, base>>
    BY <1>12 DEF SessionChecked, NotFound, BeginError
  <2>2. top' \in Nat /\ base <= top'
    BY <1>1, <1>3, <2>1
  <2>3. pc' = "error" => \A k \in base..(top' - 1) : mem'[k] = Message
    BY <1>4, <2>1
  <2>4. QED
    BY <1>0, <1>1, <1>3, <2>1, <2>2, <2>3, LayoutKept
<1>13. CASE Found
  <2>1. /\ pc = "resolve" /\ UNCHANGED <<given, mem, argv, argc, base>>
    BY <1>13 DEF Found
  <2>2. CASE pc' = "exec" /\ UNCHANGED top
    BY <1>0, <1>1, <1>3, <2>1, <2>2, LayoutKept
  <2>3. CASE BeginProxy
    <3>1. pc' = "proxy" /\ saved' = argc /\ top' = base /\ todo' = Command
      BY <2>3 DEF BeginProxy, Command
    <3>2. /\ argc = Len(Leading)
          /\ InPlace(mem, argv, Leading, Len(Leading), base)
      BY <1>3, <2>1 DEF Layout, Stored, InPlace
    <3>3. InPlace(mem, argv, Whole, Len(Leading), base)
      BY <1>2, <3>2, InPlaceAlike, Zenon
    <3>4. Leading' = Leading /\ Whole' = Whole
      BY <2>1, SameStrings
    <3>5. Stored(Leading, Len(Leading), base)' /\ Stored(Whole, argc, top)'
      BY <2>1, <3>1, <3>2, <3>3, <3>4 DEF Stored, InPlace
    <3>6. Remaining(Whole)'
      <4>1. Len(todo') + argc' = Len(Whole)
        BY <1>2, <2>1, <3>1, <3>2
      <4>2. \A i \in 1..Len(todo') : todo'[i] = Whole[argc' + i]
        BY <1>2, <2>1, <3>1, <3>2
      <4>3. QED
        BY <3>4, <4>1, <4>2 DEF Remaining
    <3>7. base' <= top' /\ saved' = Len(Leading') /\ saved' <= argc'
      BY <1>1, <2>1, <3>1, <3>2, <3>4
    <3>8. QED
      BY <3>1, <3>5, <3>6, <3>7 DEF Layout
  <2>4. QED
    BY <1>13, <2>2, <2>3 DEF Found
<1>14. CASE UNCHANGED vars
  <2>1. UNCHANGED <<given, pc, mem, argv, argc, base, top, todo, saved>>
    BY <1>14 DEF vars
  <2>2. Leading' = Leading /\ Whole' = Whole
    BY <2>1, SameStrings
  <2>3. QED
    BY <2>1, <2>2 DEF Layout, Stored, Remaining, Message, Str
<1>15. QED
  BY <1>5, <1>6, <1>7, <1>8, <1>9, <1>10, <1>11, <1>12, <1>13, <1>14 DEF Next

\* Where the message begins whose end is at top_, in a vector that ends with it.
LEMMA MessageBuilt ==
  ASSUME Bounds, Layout, ErrorBuilt
  PROVE  Reads(mem', argv', Leading \o <<Message>>)
<1>1. /\ given \in Given /\ base \in Nat /\ top \in Nat /\ argc \in Nat
      /\ argv \in Vectors /\ argv' \in Vectors
  <2>1. TypeOK
    BY DEF Bounds
  <2>2. [Next]_vars
    BY DEF Next
  <2>3. TypeOK'
    BY <2>1, <2>2, StepType
  <2>4. QED
    BY <2>1, <2>3 DEF TypeOK, Vectors
<1>2. /\ pc = "error" /\ top + 1 <= BufSize
      /\ mem' = Written(MessageEnd, 1)
      /\ argv' = [argv EXCEPT ![argc] = Slot(Message, base), ![argc + 1] = NullSlot]
      /\ UNCHANGED <<given, argc, base, top>>
  BY DEF ErrorBuilt
<1> DEFINE n == Len(Leading)
<1>3. Leading \in Seq(Plain) /\ n \in 1..3
  BY <1>1, PlainParts
<1>4. /\ argc = n /\ base <= top
      /\ InPlace(mem, argv, Leading, n, base)
      /\ \A k \in base..(top - 1) : mem[k] = Message
  BY <1>2 DEF Layout, Stored, InPlace
<1>5. /\ \A k \in 0..(top - 1) : mem'[k] = mem[k]
      /\ mem'[top] = MessageEnd
  <2>1. /\ \A k \in 0..(top - 1) : Written(MessageEnd, 1)[k] = mem[k]
        /\ \A k \in top..(top + 1 - 1) : Written(MessageEnd, 1)[k] = MessageEnd
    BY <1>1, <1>2, WrittenRead
  <2>2. top \in top..(top + 1 - 1)
    BY <1>1
  <2>3. QED
    BY <1>2, <2>1, <2>2, Zenon
<1>6. \A i \in 1..n : Leading[i] \in Strings
  BY <1>3 DEF Plain
<1> HIDE DEF n
<1>7. /\ n \in Nat /\ n <= MaxArgc /\ n + 1 < MaxArgc /\ base <= base
      /\ n \in 0..(MaxArgc - 1) /\ n + 1 \in 0..(MaxArgc - 1)
      /\ top < BufSize
  BY <1>1, <1>2, <1>3, Sizes
<1>8. /\ argv'[n] = Slot(Message, base)
      /\ argv'[n + 1] = NullSlot
      /\ \A i \in 1..n : argv'[i - 1] = argv[i - 1]
  <2>1. ASSUME NEW i \in 1..n
        PROVE  i - 1 \in 0..(MaxArgc - 1) /\ i - 1 < n
    BY <1>7, Sizes
  <2>2. DOMAIN argv = 0..(MaxArgc - 1)
    BY <1>1 DEF Vectors
  <2>3. n # n + 1
    BY <1>7
  <2>4. /\ argv'[n] = Slot(Message, base)
        /\ argv'[n + 1] = NullSlot
    BY <1>2, <1>4, <1>7, <2>2, <2>3
  <2>5. QED
    BY <1>2, <1>4, <1>7, <2>1, <2>2, <2>4
<1>9. \A k \in 0..(base - 1) : mem'[k] = mem[k]
  BY <1>1, <1>4, <1>5
<1>10. \A k \in base..(top - 1) : mem'[k] = Message
  BY <1>1, <1>4, <1>5
<1>11. InPlace(mem', argv', Leading, n, base)
  BY <1>1, <1>4, <1>6, <1>7, <1>8, <1>9, InPlaceKept, Zenon
<1>12. QED
  BY <1>1, <1>3, <1>4, <1>5, <1>7, <1>8, <1>10, <1>11, MessageIsRead, Zenon DEF n

\* The vector that proxy_str has ended is the whole command's.
LEMMA CommandBuilt ==
  ASSUME Bounds, Layout, ProxyBuilt
  PROVE  Reads(mem', argv', Whole)
<1>1. /\ given \in Given /\ base \in Nat /\ top \in Nat /\ argc \in Nat
      /\ argv \in Vectors /\ argv' \in Vectors
  <2>1. TypeOK
    BY DEF Bounds
  <2>2. [Next]_vars
    BY DEF Next
  <2>3. TypeOK'
    BY <2>1, <2>2, StepType
  <2>4. QED
    BY <2>1, <2>3 DEF TypeOK, Vectors
<1>2. /\ pc = "proxy" /\ todo = <<>> /\ mem' = mem
      /\ argv' = [argv EXCEPT ![argc] = NullSlot]
  BY DEF ProxyBuilt
<1>3. argc <= MaxArgc - 1 /\ top <= BufSize
  BY <1>2 DEF Bounds, Restored
<1>4. Whole \in Seq(Plain)
  BY <1>1, PlainParts
<1>5. InPlace(mem, argv, Whole, argc, top) /\ Len(todo) + argc = Len(Whole)
  BY <1>2 DEF Layout, Stored, InPlace, Remaining
<1>6. Len(Whole) = argc
  BY <1>1, <1>2, <1>5
<1>7. \A i \in 1..argc : Whole[i] \in Strings
  BY <1>4, <1>6 DEF Plain
<1>8. /\ argc \in 0..(MaxArgc - 1) /\ argc < MaxArgc /\ argc <= MaxArgc /\ top <= top
  BY <1>1, <1>3, Sizes
<1>9. /\ argv'[argc] = NullSlot
      /\ \A i \in 1..argc : argv'[i - 1] = argv[i - 1]
  <2>1. ASSUME NEW i \in 1..argc
        PROVE  i - 1 \in 0..(MaxArgc - 1) /\ i - 1 < argc
    BY <1>1, <1>8, Sizes
  <2>2. DOMAIN argv = 0..(MaxArgc - 1)
    BY <1>1 DEF Vectors
  <2>3. QED
    BY <1>1, <1>2, <1>8, <2>1, <2>2
<1>10. \A k \in 0..(top - 1) : mem'[k] = mem[k]
  BY <1>2
<1>11. InPlace(mem', argv', Whole, argc, top)
  BY <1>1, <1>5, <1>7, <1>8, <1>9, <1>10, InPlaceKept, Zenon
<1> HIDE DEF Whole
<1>12. QED
  BY <1>1, <1>3, <1>4, <1>6, <1>8, <1>9, <1>11, WholeIsRead

\* A message is built for a reason, and the reason is kept.
LEMMA StepUnspoiled ==
  ASSUME Bounds, Unspoiled, [Next]_vars
  PROVE  Unspoiled'
<1>0. given' = given
  BY DEF Next, vars, StoreNext, Constructed, PushNext, ErrorBuilt, ErrorOverflows,
     Overflow, ProxyBuilt, NoPath, SessionChecked, NotFound, Found, Exec
<1>1. HasProxy' = HasProxy /\ HasId' = HasId
  BY <1>0, SameStrings
<1> USE DEF Unspoiled
<1>2. CASE StoreNext \/ Constructed
  BY <1>1, <1>2 DEF StoreNext, Constructed
<1>3. CASE PushNext \/ Overflow \/ ProxyBuilt \/ NoPath \/ NotFound \/ Exec
  BY <1>1, <1>3 DEF PushNext, Overflow, BeginError, ProxyBuilt, NoPath, NotFound, Exec
<1>4. CASE ErrorBuilt
  <2>1. /\ pc' \in {"resolve", "done", "exec"}
        /\ HasProxy => final'.path = "proxy"
    BY <1>4 DEF ErrorBuilt, Return
  <2>2. QED
    BY <1>1, <2>1
<1>5. CASE ErrorOverflows
  <2>1. /\ pc' \in {"resolve", "done", "exec"}
        /\ final'.path = "original"
    BY <1>5 DEF ErrorOverflows, Return
  <2>2. QED
    BY <2>1
<1>6. CASE SessionChecked
  <2>1. \/ pc = "check" /\ pc' = "resolve" /\ UNCHANGED why
        \/ pc' = "error"
    BY <1>6 DEF SessionChecked, BeginError
  <2>2. QED
    BY <2>1
<1>7. CASE Found
  <2>1. /\ pc = "resolve" /\ UNCHANGED <<why, final>>
        /\ \/ final.path = "null" /\ pc' = "proxy"
           \/ pc' = "exec"
    BY <1>7 DEF Found, BeginProxy
  <2>2. QED
    BY <1>1, <2>1
<1>8. CASE UNCHANGED vars
  BY <1>1, <1>8 DEF vars
<1>9. QED
  BY <1>2, <1>3, <1>4, <1>5, <1>6, <1>7, <1>8 DEF Next

\* The vector that is to be run is built by two steps and left alone by the rest.
LEMMA StepBuilt ==
  ASSUME Bounds, Layout, Unspoiled, Built, [Next]_vars
  PROVE  Built'
<1>0. given' = given
  BY DEF Next, vars, StoreNext, Constructed, PushNext, ErrorBuilt, ErrorOverflows,
     Overflow, ProxyBuilt, NoPath, SessionChecked, NotFound, Found, Exec
<1>1. /\ Leading' = Leading /\ Whole' = Whole
      /\ HasProxy' = HasProxy /\ HasId' = HasId
      /\ why' = why => Wanted' = Wanted
  BY <1>0, SameStrings
<1>2. /\ VectorIs(Wanted) <=> Reads(mem, argv, Wanted)
      /\ VectorIs(Wanted)' <=> Reads(mem', argv', Wanted')
  BY DEF VectorIs, ReadsWhole, ReadsMessage, Reads, NullSlot, Slot, Null, Message,
     MessageEnd, Str
<1>3. result = "proxied" => pc = "done"
  BY DEF Built
<1>4. CASE StoreNext \/ Constructed \/ PushNext \/ Overflow \/ NoPath \/ NotFound
  <2>1. /\ pc # "done" /\ pc' \notin {"resolve", "exec"}
        /\ result' \in {result, "efault"}
    BY <1>4 DEF StoreNext, Constructed, PushNext, Overflow, NoPath, NotFound, BeginError
  <2>2. QED
    BY <1>3, <2>1 DEF Built
<1>5. CASE ErrorBuilt
  <2>1. /\ pc = "error" /\ result' \in {result, "errno"} /\ why' = why
    BY <1>5 DEF ErrorBuilt, Return
  <2>2. why # "none"
    BY <2>1 DEF Bounds, MessageFits
  <2>3. Wanted' = Leading \o <<Message>>
    BY <1>1, <2>1, <2>2, Zenon DEF Wanted
  <2>4. Reads(mem', argv', Wanted')
    BY <1>5, <2>3, MessageBuilt, Zenon
  <2>5. QED
    BY <1>2, <1>3, <2>1, <2>4 DEF Built
<1>6. CASE ErrorOverflows
  <2>1. /\ pc = "error" /\ result' \in {result, "errno"} /\ final'.path = "original"
    BY <1>6 DEF ErrorOverflows, Return
  <2>2. QED
    BY <1>3, <2>1 DEF Built
<1>7. CASE ProxyBuilt
  <2>1. /\ pc = "proxy" /\ result' = result /\ why' = why
        /\ final'.path = IF HasProxy THEN "proxy" ELSE "null"
    BY <1>7 DEF ProxyBuilt
  <2>2. CASE HasProxy
    <3>1. why = "none"
      BY <2>1, <2>2 DEF Unspoiled
    <3>2. Wanted' = Whole
      BY <1>1, <2>1, <3>1, Zenon DEF Wanted
    <3>3. Reads(mem', argv', Wanted')
      BY <1>7, <3>2, CommandBuilt, Zenon
    <3>4. QED
      BY <1>2, <1>3, <2>1, <3>3 DEF Built
  <2>3. CASE ~HasProxy
    BY <1>3, <2>1, <2>3 DEF Built
  <2>4. QED
    BY <2>2, <2>3
<1>8. CASE SessionChecked
  <2>1. pc = "check" /\ UNCHANGED <<result, final>>
    BY <1>8 DEF SessionChecked
  <2>2. final.path = "null"
    BY <2>1 DEF Bounds, Original
  <2>3. QED
    BY <1>3, <2>1, <2>2 DEF Built
<1>9. CASE Found
  <2>1. /\ pc = "resolve" /\ pc' \in {"proxy", "exec"}
        /\ UNCHANGED <<given, why, mem, argv, final, result>>
    BY <1>9 DEF Found, BeginProxy
  <2>2. Reads(mem', argv', Wanted) <=> Reads(mem, argv, Wanted)
    BY <2>1, SameRead, Zenon
  <2>3. QED
    BY <1>1, <1>2, <1>3, <2>1, <2>2 DEF Built
<1>10. CASE Exec
  <2>1. /\ pc = "exec" /\ pc' = "done"
        /\ UNCHANGED <<given, why, mem, argv, final>>
    BY <1>10 DEF Exec
  <2>2. result' = "proxied" => final.path = "proxy"
    <3>1. final.path \in {"null", "proxy", "original"}
      BY DEF Bounds, TypeOK
    <3>2. QED
      BY <1>10, <3>1 DEF Exec
  <2>3. Reads(mem', argv', Wanted) <=> Reads(mem, argv, Wanted)
    BY <2>1, SameRead, Zenon
  <2>4. QED
    BY <1>1, <1>2, <2>1, <2>2, <2>3 DEF Built
<1>11. CASE UNCHANGED vars
  <2>1. UNCHANGED <<given, pc, why, mem, argv, final, result>>
    BY <1>11 DEF vars
  <2>2. Reads(mem', argv', Wanted) <=> Reads(mem, argv, Wanted)
    BY <2>1, SameRead, Zenon
  <2>3. QED
    BY <1>1, <1>2, <2>1, <2>2 DEF Built
<1>12. QED
  BY <1>4, <1>5, <1>6, <1>7, <1>8, <1>9, <1>10, <1>11 DEF Next

LEMMA InitLayout == Init => Layout /\ Unspoiled /\ Built
<1> SUFFICES ASSUME Init PROVE Layout /\ Unspoiled /\ Built
  OBVIOUS
<1>1. /\ pc = "construct" /\ argc = 0 /\ todo = Leading /\ why = "none"
      /\ final.path = "null" /\ result = "none" /\ given \in Given
  BY DEF Init
<1>2. Leading \in Seq(Plain)
  BY <1>1, PlainParts
<1>3. Stored(Leading, argc, top)
  BY <1>1 DEF Stored
<1> HIDE DEF Leading
<1>4. Remaining(Leading)
  BY <1>1, <1>2 DEF Remaining
<1>5. Layout
  BY <1>1, <1>3, <1>4 DEF Layout
<1>6. QED
  BY <1>1, <1>5 DEF Unspoiled, Built

\* The characters of strings that are stored with their ends.
Fill(s) == [k \in 1..(s.len + 1) |-> s]
Filled(strings) == [i \in DOMAIN strings |-> Fill(strings[i])]

LEMMA FillIs ==
  ASSUME NEW e \in Strings
  PROVE  e.len \in Nat /\ Fill(e) \in Seq(Strings) /\ Len(Fill(e)) = e.len + 1
<1>1. e.len \in Nat
  BY DEF Strings
<1>2. Fill(e) \in Seq(Strings) /\ Len(Fill(e)) = e.len + 1
  BY <1>1 DEF Fill
<1> QED
  BY <1>1, <1>2

LEMMA FilledIs ==
  ASSUME NEW s \in Seq(Strings)
  PROVE  /\ Filled(s) \in Seq(Seq(Strings)) /\ Len(Filled(s)) = Len(s)
         /\ \A i \in 1..Len(s) : Filled(s)[i] = Fill(s[i])
<1>1. DOMAIN s = 1..Len(s) /\ Len(s) \in Nat
  OBVIOUS
<1>2. ASSUME NEW i \in 1..Len(s) PROVE Fill(s[i]) \in Seq(Strings)
  <2>1. s[i] \in Strings
    OBVIOUS
  <2> QED
    BY <2>1, FillIs
<1>3. Filled(s) = [i \in 1..Len(s) |-> Fill(s[i])]
  BY <1>1 DEF Filled
<1> QED
  BY <1>1, <1>2, <1>3

\* The room of two lists is the room of one behind the other.
LEMMA RoomBoth ==
  ASSUME NEW s \in Seq(Strings), NEW u \in Seq(Strings)
  PROVE  Room(s) \in Nat /\ Room(u) \in Nat /\ Room(s \o u) = Room(s) + Room(u)
<1> DEFINE w == s \o u
           a == Filled(s)
           b == Filled(u)
           c == Filled(w)
           d == a \o b
<1>1. Len(s) \in Nat /\ Len(u) \in Nat
  OBVIOUS
<1>2. w \in Seq(Strings) /\ Len(w) = Len(s) + Len(u)
  OBVIOUS
<1>3. (\A i \in 1..Len(s) : w[i] = s[i]) /\ \A i \in 1..Len(u) : w[Len(s) + i] = u[i]
  OBVIOUS
<1> HIDE DEF w
<1>4. a \in Seq(Seq(Strings)) /\ Len(a) = Len(s) /\ \A i \in 1..Len(s) : a[i] = Fill(s[i])
  BY FilledIs
<1>5. b \in Seq(Seq(Strings)) /\ Len(b) = Len(u) /\ \A i \in 1..Len(u) : b[i] = Fill(u[i])
  BY FilledIs
<1>6. c \in Seq(Seq(Strings)) /\ Len(c) = Len(w) /\ \A i \in 1..Len(w) : c[i] = Fill(w[i])
  BY <1>2, FilledIs
<1> HIDE DEF a, b, c
<1>7. d \in Seq(Seq(Strings)) /\ Len(d) = Len(a) + Len(b)
  BY <1>4, <1>5, ConcatProperties
<1>8. (\A i \in 1..Len(a) : d[i] = a[i]) /\ \A i \in 1..Len(b) : d[Len(a) + i] = b[i]
  <2> DEFINE E == Seq(Strings)
  <2>1. a \in Seq(E) /\ b \in Seq(E)
    BY <1>4, <1>5
  <2> HIDE DEF E
  <2> QED
    BY <2>1
<1> HIDE DEF d
<1>9. ASSUME NEW i \in 1..Len(c) PROVE c[i] = d[i]
  <2>1. CASE i <= Len(s)
    <3>1. i \in 1..Len(s) /\ i \in 1..Len(w) /\ i \in 1..Len(a)
      BY <1>1, <1>2, <1>4, <1>6, <2>1
    <3> QED
      BY <1>3, <1>4, <1>6, <1>8, <3>1
  <2>2. CASE i > Len(s)
    <3> DEFINE h == i - Len(s)
    <3>1. h \in 1..Len(u) /\ h \in 1..Len(b) /\ i \in 1..Len(w) /\ i = Len(s) + h
      BY <1>1, <1>2, <1>5, <1>6, <2>2
    <3> HIDE DEF h
    <3>2. w[i] = u[h] /\ d[i] = b[h]
      BY <1>3, <1>4, <1>8, <3>1
    <3> QED
      BY <1>5, <1>6, <3>1, <3>2
  <2> QED
    BY <1>1, <1>6, <2>1, <2>2
<1>10. c = d
  <2>1. Len(c) = Len(d)
    BY <1>2, <1>4, <1>5, <1>6, <1>7
  <2> QED
    BY <1>6, <1>7, <1>9, <2>1, SeqEqual
<1>11. FlattenSeq(d) = FlattenSeq(a) \o FlattenSeq(b)
  BY <1>4, <1>5, FlattenBoth DEF d
<1>12. FlattenSeq(a) \in Seq(Strings) /\ FlattenSeq(b) \in Seq(Strings)
  <2>1. Len(a) \in Nat /\ Len(b) \in Nat
    BY <1>1, <1>4, <1>5
  <2> QED
    BY <1>4, <1>5, <2>1, FlattenType
<1>13. Room(s) = Len(FlattenSeq(a)) /\ Room(u) = Len(FlattenSeq(b)) /\ Room(w) = Len(FlattenSeq(c))
  BY Zenon DEF Room, a, b, c, Filled, Fill
<1>14. Len(FlattenSeq(a) \o FlattenSeq(b)) = Len(FlattenSeq(a)) + Len(FlattenSeq(b))
  BY <1>12, ConcatProperties
<1>15. Len(FlattenSeq(a)) \in Nat /\ Len(FlattenSeq(b)) \in Nat
  BY <1>12
<1> QED
  BY <1>10, <1>11, <1>13, <1>14, <1>15 DEF w

LEMMA RoomNone == Room(<<>>) = 0
<1>1. [i \in DOMAIN <<>> |-> [k \in 1..(<<>>[i].len + 1) |-> <<>>[i]]] = <<>>
  OBVIOUS
<1> QED
  BY <1>1, FlattenEmpty DEF Room

LEMMA RoomFirst ==
  ASSUME NEW s \in Seq(Strings), s # <<>>
  PROVE  /\ Head(s) \in Strings /\ Head(s).len \in Nat /\ Tail(s) \in Seq(Strings)
         /\ Room(Tail(s)) \in Nat /\ Room(s) = Head(s).len + 1 + Room(Tail(s))
<1>1. Head(s) \in Strings /\ Tail(s) \in Seq(Strings) /\ s = <<Head(s)>> \o Tail(s)
  <2>1. Head(s) \in Strings /\ Tail(s) \in Seq(Strings)
    BY HeadTailProperties
  <2>2. s = <<Head(s)>> \o Tail(s)
    OBVIOUS
  <2> QED
    BY <2>1, <2>2
<1>2. PICK e \in Strings : e = Head(s)
  BY <1>1
<1>3. PICK u \in Seq(Strings) : u = Tail(s)
  BY <1>1
<1>4. s = <<e>> \o u
  BY <1>1, <1>2, <1>3
<1>5. e.len \in Nat /\ Fill(e) \in Seq(Strings) /\ Len(Fill(e)) = e.len + 1
  BY FillIs
<1>6. <<e>> \in Seq(Strings) /\ Len(<<e>>) = 1 /\ <<e>>[1] = e
  OBVIOUS
<1>7. Room(<<e>> \o u) = Room(<<e>>) + Room(u) /\ Room(u) \in Nat
  BY <1>6, RoomBoth
<1>8. Filled(<<e>>) = <<Fill(e)>>
  <2> DEFINE f == Filled(<<e>>)
  <2>1. f \in Seq(Seq(Strings)) /\ Len(f) = 1 /\ f[1] = Fill(e)
    <3>1. PICK o \in Seq(Strings) : o = <<e>> /\ Len(o) = 1 /\ o[1] = e
      BY <1>6
    <3>2. /\ Filled(o) \in Seq(Seq(Strings)) /\ Len(Filled(o)) = Len(o)
          /\ \A i \in 1..Len(o) : Filled(o)[i] = Fill(o[i])
      BY FilledIs
    <3>3. Filled(o) \in Seq(Seq(Strings)) /\ Len(Filled(o)) = 1 /\ Filled(o)[1] = Fill(e)
      BY <3>1, <3>2
    <3> QED
      BY <3>1, <3>3, Zenon
  <2> HIDE DEF f
  <2>2. f = <<Fill(e)>>
    BY <2>1
  <2> QED
    BY <2>2 DEF f
<1>9. FlattenSeq(<<Fill(e)>>) = Fill(e)
  BY <1>5, FlattenOne
<1>10. Room(<<e>>) = e.len + 1
  <2>1. Room(<<e>>) = Len(FlattenSeq(Filled(<<e>>)))
    BY Zenon DEF Room, Filled, Fill
  <2> QED
    BY <1>5, <1>8, <1>9, <2>1
<1> QED
  BY <1>2, <1>3, <1>4, <1>5, <1>7, <1>10

\* A builder that runs out has been given a command that does not fit.
LEMMA StepTally ==
  ASSUME Bounds, Layout, Tally, [Next]_vars
  PROVE  Tally'
<1>0. given' = given
  BY DEF Next, vars, StoreNext, Constructed, PushNext, ErrorBuilt, ErrorOverflows,
     Overflow, ProxyBuilt, NoPath, SessionChecked, NotFound, Found, Exec
<1>1. Leading' = Leading /\ Whole' = Whole /\ DashDash' = DashDash /\ Exe' = Exe /\ Args' = Args
  BY <1>0, SameStrings DEF DashDash, Exe, Args
<1>2. /\ TypeOK /\ given \in Given /\ todo \in Seq(Strings) /\ top \in Nat /\ argc \in Nat
      /\ BufSize \in Nat /\ MaxArgc \in Nat
  BY RoomNumbers DEF Bounds, TypeOK
<1>3. /\ Leading \in Seq(Strings) /\ Command \in Seq(Strings) /\ Whole \in Seq(Strings)
      /\ Whole = Leading \o Command
  BY <1>2, PlainParts DEF Plain
<1>4. /\ Room(Leading) \in Nat /\ Room(Command) \in Nat
      /\ Room(Whole) = Room(Leading) + Room(Command)
  BY <1>3, RoomBoth
<1> DEFINE L == Room(Leading)
           W == Room(Whole)
           F == Len(Whole) + 1 > MaxArgc \/ W > BufSize
<1>5. /\ pc = "construct" => top + Room(todo) = L
      /\ pc # "construct" => base = L
      /\ pc = "proxy" => top + Room(todo) = W
      /\ why = "overflow" => F
  BY DEF Tally, GivesUpOnlyWhenFull
<1>6. Tally' <=>
        /\ pc' = "construct" => top' + Room(todo') = L
        /\ pc' # "construct" => base' = L
        /\ pc' = "proxy" => top' + Room(todo') = W
        /\ why' = "overflow" => F
  BY <1>1 DEF Tally, GivesUpOnlyWhenFull
<1> HIDE DEF F
<1>7. L \in Nat /\ W \in Nat /\ W = L + Room(Command) /\ Room(Command) \in Nat
  BY <1>4
<1> HIDE DEF L, W
<1>8. CASE StoreNext
  <2>1. /\ pc \in {"construct", "proxy"} /\ todo # <<>> /\ top' = top + Head(todo).len + 1
        /\ todo' = Tail(todo) /\ UNCHANGED <<pc, why, base>>
    BY <1>8 DEF StoreNext
  <2>2. /\ Room(todo) = Head(todo).len + 1 + Room(Tail(todo)) /\ Head(todo).len \in Nat
        /\ Room(Tail(todo)) \in Nat
    BY <1>2, <2>1, RoomFirst
  <2> QED
    BY <1>2, <1>5, <1>6, <2>1, <2>2
<1>9. CASE Constructed
  <2>1. pc = "construct" /\ todo = <<>> /\ base' = top /\ pc' = "check" /\ why' = why
    BY <1>9 DEF Constructed
  <2> QED
    BY <1>2, <1>5, <1>6, <2>1, RoomNone
<1>10. CASE Overflow
  <2>1. /\ pc = "proxy" /\ todo # <<>> /\ ~StoreFits(Head(todo)) /\ pc' = "error" /\ base' = base
    BY <1>10 DEF Overflow, BeginError
  <2>2. /\ Room(todo) = Head(todo).len + 1 + Room(Tail(todo)) /\ Head(todo).len \in Nat
        /\ Room(Tail(todo)) \in Nat
    BY <1>2, <2>1, RoomFirst
  <2>3. Len(todo) + argc = Len(Whole) /\ Len(todo) \in Nat /\ Len(todo) # 0
    <3>1. Len(todo) + argc = Len(Whole)
      BY <2>1, Zenon DEF Layout, Remaining
    <3> QED
      BY <1>2, <2>1, <3>1
  <2>4. argc >= MaxArgc - 1 \/ top + Head(todo).len + 1 > BufSize
    BY <1>2, <2>1, <2>2 DEF StoreFits, SlotFree
  <2>5. F
    <3>1. CASE argc >= MaxArgc - 1
      <4>1. Len(Whole) + 1 > MaxArgc
        BY <1>2, <2>3, <3>1
      <4> QED
        BY <4>1 DEF F
    <3>2. CASE top + Head(todo).len + 1 > BufSize
      <4>1. W > BufSize
        BY <1>2, <1>5, <1>7, <2>1, <2>2, <3>2, SMTT(30)
      <4> QED
        BY <4>1 DEF F
    <3> QED
      BY <2>4, <3>1, <3>2
  <2> QED
    BY <1>5, <1>6, <2>1, <2>5
<1>11. CASE Found
  <2>1. /\ pc = "resolve" /\ UNCHANGED <<why, base>>
        /\ \/ pc' = "exec"
           \/ pc' = "proxy" /\ top' = base /\ todo' = Command
    BY <1>11 DEF Found, BeginProxy, Command
  <2> QED
    BY <1>5, <1>6, <1>7, <2>1
<1>12. CASE SessionChecked
  <2>1. /\ pc = "check" /\ base' = base /\ pc' \in {"resolve", "error"}
        /\ why' = why \/ why' = "session"
    BY <1>12 DEF SessionChecked, BeginError
  <2> QED
    BY <1>5, <1>6, <2>1
<1>13. CASE NotFound
  <2>1. pc = "resolve" /\ base' = base /\ pc' = "error" /\ why' = "missing"
    BY <1>13 DEF NotFound, BeginError
  <2> QED
    BY <1>5, <1>6, <2>1
<1>14. CASE PushNext \/ ErrorBuilt \/ ErrorOverflows
  <2>1. /\ pc = "error" /\ pc' \in {"error", "resolve", "done", "exec"} /\ UNCHANGED <<why, base>>
    BY <1>14 DEF PushNext, ErrorBuilt, ErrorOverflows, Return
  <2> QED
    BY <1>5, <1>6, <2>1
<1>15. CASE ProxyBuilt \/ NoPath \/ Exec
  <2>1. /\ pc # "construct" /\ pc' \in {"exec", "done"} /\ UNCHANGED <<why, base>>
    BY <1>15 DEF ProxyBuilt, NoPath, Exec
  <2> QED
    BY <1>5, <1>6, <2>1
<1>16. CASE UNCHANGED vars
  BY <1>5, <1>6, <1>16 DEF vars
<1> QED
  BY <1>8, <1>9, <1>10, <1>11, <1>12, <1>13, <1>14, <1>15, <1>16 DEF Next

LEMMA InitTally == Init => Tally
<1> SUFFICES ASSUME Init PROVE Tally
  OBVIOUS
<1>1. pc = "construct" /\ top = 0 /\ todo = Leading /\ why = "none" /\ given \in Given
  BY DEF Init
<1>2. Leading \in Seq(Strings)
  BY <1>1, PlainParts DEF Plain
<1>3. Room(Leading) \in Nat
  BY <1>2, RoomBoth
<1> QED
  BY <1>1, <1>3 DEF Tally, GivesUpOnlyWhenFull

\* In every reachable state the room taken is the room there is, and what was
\* stored in it is still there.
THEOREM StoredIsKept == Spec => []IInv
<1>1. Init => IInv
  BY InitBounds, InitLayout, InitTally DEF IInv
<1>2. IInv /\ [Next]_vars => IInv'
  <2> SUFFICES ASSUME IInv, [Next]_vars PROVE IInv'
    OBVIOUS
  <2>1. Bounds /\ Layout /\ Unspoiled /\ Built /\ Tally
    BY DEF IInv
  <2>2. Bounds'
    BY <2>1, StepBounds
  <2>3. Layout'
    BY <2>1, StepLayout, StoreLayout DEF Bounds
  <2>4. Unspoiled'
    BY <2>1, StepUnspoiled
  <2>5. Built'
    BY <2>1, StepBuilt
  <2>6. Tally'
    BY <2>1, StepTally
  <2>7. QED
    BY <2>2, <2>3, <2>4, <2>5, <2>6 DEF IInv
<1>3. QED
  BY <1>1, <1>2, PTL DEF Spec

\* What the proxy is started with is the caller's command whole, or one message
\* in its place: never a part of the command, whatever the lengths.
THEOREM ProxiedWhole == Spec => []VectorIsWhole
<1>1. IInv => VectorIsWhole
  BY DEF IInv, Built, VectorIsWhole
<1>2. QED
  BY <1>1, StoredIsKept, PTL

\* proxy_str turns a command into a message only if the command does not fit,
\* in characters or in pointers, whatever was written and taken back before.
THEOREM FittingIsBuilt == Spec => []GivesUpOnlyWhenFull
<1>1. IInv => GivesUpOnlyWhenFull
  BY DEF IInv, Tally
<1>2. QED
  BY <1>1, StoredIsKept, PTL

-----------------------------------------------------------------------------
(* The library. *)

USE DEF Nowhere, Unknown, Missing, At

-----------------------------------------------------------------------------
(* The calls.                                                              *)

\* A search path is a null pointer or a string, whatever the hook.
LEMMA SearchPathType ==
  ASSUME NEW c \in Calls
  PROVE  SearchPath(c) \in Paths
<1>1. /\ c.search \in Paths
      /\ c.own.path \in Paths
      /\ c.passed.path \in Paths
      /\ DefaultPath \in Paths
  BY CallsAssumption, PathsAssumption DEF Environments
<1> QED
  BY <1>1 DEF SearchPath

\* A piece with the slash and the file behind it is as long as the check in
\* from_search_path computes it.
LEMMA CandidateLength ==
  ASSUME NEW c \in Calls, c.file # None, SearchPath(c) # None,
         NEW from \in 1..(Len(SearchPath(c)) + 1),
         NEW upto \in 1..(Len(SearchPath(c)) + 1), from < upto
  PROVE  /\ Candidate(c, from, upto) \in Seq(Characters)
         /\ Len(Candidate(c, from, upto)) = Len(c.file) + (upto - from) + 1
         /\ c.file = <<>> =>
              Candidate(c, from, upto)[Len(Candidate(c, from, upto))] = Slash
<1>1. SearchPath(c) \in Seq(Characters) /\ c.file \in Seq(Characters)
  BY SearchPathType, CallsAssumption DEF Paths
<1>2. Slash \in Characters
  BY PathsAssumption
<1>3. /\ SubSeq(SearchPath(c), from, upto - 1) \in Seq(Characters)
      /\ Len(SubSeq(SearchPath(c), from, upto - 1)) = upto - from
  BY <1>1
<1>4. /\ SubSeq(SearchPath(c), from, upto - 1) \o <<Slash>> \in Seq(Characters)
      /\ Len(SubSeq(SearchPath(c), from, upto - 1) \o <<Slash>>) = upto - from + 1
  BY <1>2, <1>3
<1> DEFINE dir == SubSeq(SearchPath(c), from, upto - 1) \o <<Slash>>
<1>5. dir \o c.file \in Seq(Characters) /\ Len(dir \o c.file) = Len(dir) + Len(c.file)
  <2> HIDE DEF dir
  <2>1. dir \in Seq(Characters)
    BY <1>4 DEF dir
  <2> QED
    BY <2>1, <1>1, ConcatProperties
<1>6. Len(dir) = upto - from + 1 /\ Len(c.file) \in Nat
  BY <1>1, <1>4
<1>7. Candidate(c, from, upto) = dir \o c.file
  BY DEF Candidate
<1>8. dir[Len(dir)] = Slash
  BY <1>3
<1>9. c.file = <<>> => dir \o c.file = dir
  <2> HIDE DEF dir
  <2>1. dir \in Seq(Characters)
    BY <1>4 DEF dir
  <2> QED
    BY <2>1, ConcatEmptySeq
<1>10. from \in Nat /\ upto \in Nat
  BY <1>1
<1> HIDE DEF dir
<1>11. Len(Candidate(c, from, upto)) = Len(c.file) + (upto - from) + 1
  <2>1. Len(Candidate(c, from, upto)) = upto - from + 1 + Len(c.file)
    BY <1>5, <1>6, <1>7, Zenon
  <2>2. \A a, b, d \in Nat : a - b + 1 + d = d + (a - b) + 1
    OBVIOUS
  <2> QED
    BY <2>1, <2>2, <1>6, <1>10, Zenon
<1>12. c.file = <<>> =>
         Candidate(c, from, upto)[Len(Candidate(c, from, upto))] = Slash
  BY <1>7, <1>8, <1>9
<1> QED
  BY <1>5, <1>7, <1>11, <1>12

\* Every answer is a program whose path the result_ of the Resolver holds, and
\* then the file's own name is no longer.
LEMMA AnswersFit ==
  ASSUME NEW c \in Calls, c.file # None, NEW a \in Answers(c)
  PROVE  /\ a.is \in {"found", "missing"}
         /\ a.is = "found" => Len(a.path) \in 1..PathMax /\ Len(c.file) \in 1..PathMax
<1> DEFINE s == SearchPath(c)
           ends == 1..(Len(s) + 1)
<1>1. c.file \in Seq(Characters) /\ c.programs \subseteq Seq(Characters) \ {<<>>}
  BY CallsAssumption DEF Paths
<1>2. CASE a = Missing
  BY <1>2
<1>3. CASE ~IsSearched(c) /\ a # Missing
  <2>1. a = At(c.file) /\ IsProgram(c, c.file)
    BY <1>3 DEF Answers
  <2>2. c.file # <<>> /\ Len(c.file) <= PathMax
    BY <2>1, <1>1 DEF IsProgram
  <2>3. Len(c.file) \in Nat /\ Len(c.file) # 0 /\ PathMax \in Nat
    BY <2>2, <1>1, EmptySeq, RoomAssumption
  <2> QED
    BY <2>1, <2>2, <2>3
<1>4. CASE IsSearched(c) /\ a # Missing
  <2>1. s # None /\ \E p \in ends \X ends :
          IsFound(c, p[1], p[2]) /\ a = At(Candidate(c, p[1], p[2]))
    BY <1>4 DEF Answers
  <2>2. PICK from \in ends, upto \in ends :
          IsFound(c, from, upto) /\ a = At(Candidate(c, from, upto))
    BY <2>1
  <2>3. from < upto /\ Len(c.file) + (upto - from) + 1 <= PathMax
    BY <2>2 DEF IsFound, LeadsTo
  <2>4. Len(Candidate(c, from, upto)) = Len(c.file) + (upto - from) + 1
    BY <2>1, <2>3, CandidateLength
  <2>5. Len(c.file) \in Nat /\ from \in Nat /\ upto \in Nat
    BY <1>1, SearchPathType, <2>1 DEF Paths
  <2>7. c.file # <<>>
    <3>1. Candidate(c, from, upto) \in c.programs
      BY <2>2 DEF IsFound, LeadsTo
    <3>2. \A f \in c.programs : f[Len(f)] # Slash
      BY CallsAssumption
    <3>3. c.file = <<>> =>
            Candidate(c, from, upto)[Len(Candidate(c, from, upto))] = Slash
      BY <2>1, <2>3, CandidateLength
    <3> QED
      BY <3>1, <3>2, <3>3
  <2>8. Len(c.file) # 0
    BY <2>7, <1>1, EmptySeq
  <2>9. /\ Len(c.file) + (upto - from) + 1 \in 1..PathMax
        /\ Len(c.file) \in 1..PathMax
    <3>1. PathMax \in Nat
      BY RoomAssumption
    <3> QED
      BY <2>3, <2>5, <2>8, <3>1
  <2> QED
    BY <2>2, <2>4, <2>9
<1> QED
  BY <1>2, <1>3, <1>4

\* LibInit turns no call away: what HookExec is given is of the kind it is
\* specified for.
THEOREM CallsAreGiven ==
  ASSUME NEW c \in Calls, NEW g \in GivenFor(c)
  PROVE  g \in Given
<1>1. SessionOf(c.loaded) \in {"valid", "no_proxy", "no_id", "lost"}
  BY DEF SessionOf
<1>2. c.args \in UNION {[1..n -> Lengths] : n \in 0..MaxArgs}
  BY CallsAssumption
<1>3. 1 \in Lengths /\ 1 \in 1..PathMax /\ 1..PathMax \subseteq Lengths
  BY PathsAssumption, RoomAssumption, SMTT(30)
<1>4. CASE c.file = None
  BY <1>1, <1>2, <1>3, <1>4 DEF GivenFor, Given
<1>5. CASE c.file # None
  <2>1. PICK a \in Answers(c) :
          g = [session |-> SessionOf(c.loaded), file |-> a.is, path |-> Len(c.file),
               exe |-> IF a.is = "found" THEN Len(a.path) ELSE 1,
               args |-> c.args]
    BY <1>5 DEF GivenFor
  <2>2. Len(c.file) \in Lengths
    BY <1>5, CallsAssumption
  <2>3. /\ a.is \in {"found", "missing"}
        /\ a.is = "found" => Len(a.path) \in 1..PathMax /\ Len(c.file) \in 1..PathMax
    BY <1>5, AnswersFit
  <2>4. IF a.is = "found" THEN Len(a.path) \in Lengths /\ Len(a.path) \in 1..PathMax
                          ELSE 1 \in Lengths /\ 1 \in 1..PathMax
    BY <2>3, <1>3
  <2>5. a.is = "found" => Len(c.file) \in 1..PathMax
    BY <2>3
  <2> QED
    BY <2>1, <2>2, <2>3, <2>4, <2>5, <1>1, <1>2, Zenon DEF Given
<1> QED
  BY <1>4, <1>5

-----------------------------------------------------------------------------
(* The composition.                                                        *)

\* Whatever the Resolver does meanwhile, the executor of the library is that
\* of HookExec: every step is one of its steps or leaves its state alone.
THEOREM ExecutorImplemented == LibSpec => Spec
<1>1. LibInit => Init
  BY DEF LibInit
<1>2. [LibNext]_allVars => [Next]_vars
  BY DEF LibNext, Bypassed, Hooked, ExecutorStep, LookUp, BeginSearch, Scan, Try,
         allVars
<1> QED
  BY <1>1, <1>2, PTL DEF LibSpec, Spec

\* In the hook library too no store or push leaves the builder's areas, for
\* every call and every search path.
THEOREM LibraryNoOverrun == LibSpec => []StaysInBounds
BY ExecutorImplemented, NoOverrun, PTL

\* In the hook library too the proxy is started with the whole command or with
\* one message.
THEOREM LibraryProxiedWhole == LibSpec => []VectorIsWhole
BY ExecutorImplemented, ProxiedWhole, PTL

\* In the hook library too only a command that does not fit becomes a message.
THEOREM LibraryFittingIsBuilt == LibSpec => []GivesUpOnlyWhenFull
BY ExecutorImplemented, FittingIsBuilt, PTL

-----------------------------------------------------------------------------
(* The search.                                                             *)

\* What the search keeps true: the answer it comes to, and what it knows of
\* the pieces behind the iterator.
SearchInv ==
  /\ call \in Calls
  /\ cursor \in [begin : Nat, end : Nat]
  /\ NotPassed
  /\ FindsTheFirst

\* A piece that is not the iterator's, and not before it, begins behind it:
\* between its ends the iterator has seen no separator.
LEMMA BehindTheIterator ==
  ASSUME call \in Calls, NotPassed, cursor # Nowhere, AtEnd \/ AtSeparator,
         ~LeadsTo(call, cursor.begin, cursor.end),
         NEW from \in 1..(Len(SearchPath(call)) + 1),
         NEW upto \in 1..(Len(SearchPath(call)) + 1),
         IsFound(call, from, upto)
  PROVE  from >= cursor.end + 1
<1> DEFINE s == SearchPath(call)
           b == cursor.begin
           e == cursor.end
<1>1. /\ s # None
      /\ b \in 1..Len(s) /\ e \in b..(Len(s) + 1)
      /\ \A k \in b..(e - 1) : s[k] # Separator
      /\ \A f, u \in 1..(Len(s) + 1) :
           IsPiece(s, f, u) /\ LeadsTo(call, f, u) => f >= b
  BY DEF NotPassed
<1>2. Len(s) \in Nat
  BY <1>1, SearchPathType DEF Paths
<1>3. IsPiece(s, from, upto) /\ LeadsTo(call, from, upto)
  BY DEF IsFound
<1>4. from >= b
  BY <1>1, <1>3
<1>5. e = Len(s) + 1 \/ s[e] = Separator
  BY DEF AtEnd, AtSeparator
<1>6. /\ from \in 1..Len(s) /\ upto \in from..(Len(s) + 1)
      /\ from = 1 \/ s[from - 1] = Separator
      /\ upto = Len(s) + 1 \/ s[upto] = Separator
      /\ \A k \in from..(upto - 1) : s[k] # Separator
  BY <1>3 DEF IsPiece
<1> HIDE DEF s, b, e
<1>7. ASSUME from = b
      PROVE  FALSE
  <2>1. upto = e
    <3>1. ~(upto < e)
      BY <1>1, <1>2, <1>6, <1>7
    <3>2. ~(upto > e)
      BY <1>1, <1>2, <1>5, <1>6, <1>7
    <3> QED
      BY <3>1, <3>2, <1>1, <1>2, <1>6
  <2> QED
    BY <1>3, <1>7, <2>1 DEF b, e
<1>8. ASSUME from > b, from <= e
      PROVE  FALSE
  <2>1. from - 1 \in b..(e - 1) /\ from # 1
    BY <1>1, <1>2, <1>6, <1>8
  <2> QED
    BY <1>1, <1>6, <2>1
<1>9. from > e
  BY <1>1, <1>2, <1>4, <1>6, <1>7, <1>8
<1> QED
  BY <1>1, <1>2, <1>6, <1>9 DEF e

LEMMA SearchInit == LibInit => SearchInv
BY DEF LibInit, SearchInv, NotPassed, FindsTheFirst

\* Each step of the Resolver keeps it; the others leave what it is about.
LEMMA SearchStep == SearchInv /\ [LibNext]_allVars => SearchInv'
<1> SUFFICES ASSUME SearchInv, [LibNext]_allVars
             PROVE  SearchInv'
  OBVIOUS
<1> DEFINE s == SearchPath(call)
           ends == 1..(Len(s) + 1)
<1>0. /\ call \in Calls /\ cursor \in [begin : Nat, end : Nat]
      /\ NotPassed /\ FindsTheFirst
  BY DEF SearchInv
<1>t. s # None => s \in Seq(Characters) /\ Len(s) \in Nat
  BY <1>0, SearchPathType DEF Paths
<1>1. CASE UNCHANGED libVars
  BY <1>0, <1>1 DEF libVars, SearchInv, NotPassed, FindsTheFirst
<1>2. CASE Bypassed \/ Hooked
  BY <1>0, <1>2 DEF Bypassed, Hooked, SearchInv, NotPassed, FindsTheFirst
<1>3. CASE LookUp
  <2>1. call' = call /\ cursor' = cursor
    BY <1>3 DEF LookUp
  <2>2. place' \in Answers(call)
    BY <1>3 DEF LookUp, Answers
  <2> QED
    BY <1>0, <2>1, <2>2 DEF SearchInv, NotPassed, FindsTheFirst
<1>4. CASE BeginSearch
  <2>1. call' = call /\ IsSearched(call) /\ cursor = Nowhere /\ place = Unknown
    BY <1>4 DEF BeginSearch, Resolving
  <2>2. CASE s = None \/ s = <<>>
    <3>1. place' = Missing /\ cursor' = cursor
      BY <1>4, <2>2 DEF BeginSearch
    <3>2. s = <<>> => \A f, u \in ends : ~IsFound(call, f, u)
      BY DEF IsFound, IsPiece
    <3>3. Missing \in Answers(call)
      BY <2>1, <2>2, <3>2 DEF Answers
    <3> QED
      BY <1>0, <2>1, <3>1, <3>3 DEF SearchInv, NotPassed, FindsTheFirst
  <2>3. CASE ~(s = None \/ s = <<>>)
    <3>1. cursor' = [begin |-> 1, end |-> 1] /\ place' = place
      BY <1>4, <2>3 DEF BeginSearch
    <3>2. s # None /\ Len(s) \in Nat \ {0}
      BY <2>3, <1>t, EmptySeq
    <3>3. 1 \in 1..Len(s) /\ 1 \in 1..(Len(s) + 1)
          /\ \A k \in 1..(1 - 1) : s[k] # Separator
          /\ \A f \in ends : f >= 1
      BY <3>2
    <3>4. NotPassed'
      BY <2>1, <3>1, <3>2, <3>3 DEF NotPassed
    <3> QED
      BY <1>0, <2>1, <3>1, <3>4 DEF SearchInv, FindsTheFirst
  <2> QED
    BY <2>2, <2>3
<1>5. CASE Scan
  <2>1. /\ call' = call /\ place' = place /\ cursor # Nowhere
        /\ cursor' = [cursor EXCEPT !.end = @ + 1]
        /\ ~AtEnd /\ ~AtSeparator
    BY <1>5 DEF Scan
  <2>2. cursor.end # Len(s) + 1 /\ s[cursor.end] # Separator
    BY <2>1 DEF AtEnd, AtSeparator
  <2>3. s # None /\ Len(s) \in Nat
    BY <1>0, <1>t, <2>1 DEF NotPassed
  <2>4. cursor'.begin = cursor.begin /\ cursor'.end = cursor.end + 1
        /\ cursor' \in [begin : Nat, end : Nat]
    BY <1>0, <2>1
  <2>5. /\ cursor.begin \in 1..Len(s)
        /\ cursor'.end \in cursor.begin..(Len(s) + 1)
        /\ \A k \in cursor.begin..(cursor'.end - 1) : s[k] # Separator
    <3>1. /\ cursor.begin \in 1..Len(s)
          /\ cursor.end \in cursor.begin..(Len(s) + 1)
          /\ \A k \in cursor.begin..(cursor.end - 1) : s[k] # Separator
      BY <1>0, <2>1 DEF NotPassed
    <3>2. /\ cursor'.end \in cursor.begin..(Len(s) + 1)
          /\ \A k \in cursor.begin..(cursor'.end - 1) :
               k \in cursor.begin..(cursor.end - 1) \/ k = cursor.end
      BY <2>2, <2>3, <2>4, <3>1
    <3> QED
      BY <2>2, <3>1, <3>2
  <2>6. NotPassed'
    BY <1>0, <2>1, <2>4, <2>5 DEF NotPassed
  <2> QED
    BY <1>0, <2>1, <2>4, <2>6 DEF SearchInv, FindsTheFirst
<1>6. CASE Try
  <2>1. /\ call' = call /\ cursor # Nowhere /\ place = Unknown
        /\ AtEnd \/ AtSeparator
    BY <1>6 DEF Try, Resolving
  <2>2. /\ IsSearched(call) /\ s # None /\ Len(s) \in Nat
        /\ cursor.begin \in 1..Len(s)
        /\ cursor.end \in cursor.begin..(Len(s) + 1)
        /\ cursor.begin = 1 \/ s[cursor.begin - 1] = Separator
        /\ \A k \in cursor.begin..(cursor.end - 1) : s[k] # Separator
        /\ \A f, u \in ends : IsPiece(s, f, u) /\ LeadsTo(call, f, u) => f >= cursor.begin
    BY <1>0, <1>t, <2>1 DEF NotPassed
  <2>3. CASE LeadsTo(call, cursor.begin, cursor.end)
    <3>1. place' = At(Candidate(call, cursor.begin, cursor.end)) /\ cursor' = cursor
      BY <1>6, <2>3 DEF Try
    <3>2. cursor.end = Len(s) + 1 \/ s[cursor.end] = Separator
      BY <2>1 DEF AtEnd, AtSeparator
    <3>3. IsFound(call, cursor.begin, cursor.end)
      BY <2>2, <2>3, <3>2 DEF IsFound, IsPiece
    <3>4. cursor.begin \in ends /\ cursor.end \in ends
      BY <2>2
    <3> DEFINE good == {p \in ends \X ends : IsFound(call, p[1], p[2])}
    <3>5. /\ <<cursor.begin, cursor.end>> \in good
          /\ \A r \in good : cursor.begin <= r[1]
      BY <2>2, <3>3, <3>4 DEF IsFound
    <3>6. place' \in Answers(call)
      BY <2>2, <3>1, <3>5 DEF Answers
    <3> QED
      BY <1>0, <2>1, <3>1, <3>6 DEF SearchInv, NotPassed, FindsTheFirst
  <2>4. CASE ~LeadsTo(call, cursor.begin, cursor.end)
    <3>1. NextPiece
      BY <1>6, <2>4 DEF Try
    <3>2. \A f, u \in ends : IsFound(call, f, u) => f >= cursor.end + 1
      BY <1>0, <2>1, <2>4, BehindTheIterator
    <3>3. CASE AtEnd \/ cursor.end + 1 = Len(s) + 1
      <4>1. place' = Missing /\ cursor' = Nowhere
        BY <3>1, <3>3 DEF NextPiece
      <4>2. \A f, u \in ends : ~IsFound(call, f, u)
        <5>1. cursor.end + 1 > Len(s)
          BY <1>0, <2>2, <3>3 DEF AtEnd
        <5>2. \A f, u \in ends : IsFound(call, f, u) => f \in 1..Len(s)
          BY DEF IsFound, IsPiece
        <5> QED
          BY <1>0, <2>2, <3>2, <5>1, <5>2
      <4>3. {p \in ends \X ends : IsFound(call, p[1], p[2])} = {}
        BY <4>2
      <4>4. Missing \in Answers(call)
        BY <2>2, <4>3 DEF Answers
      <4> QED
        BY <1>0, <2>1, <4>1, <4>4 DEF SearchInv, NotPassed, FindsTheFirst
    <3>4. CASE ~(AtEnd \/ cursor.end + 1 = Len(s) + 1)
      <4>1. /\ cursor' = [begin |-> cursor.end + 1, end |-> cursor.end + 1]
            /\ place' = place
        BY <3>1, <3>4 DEF NextPiece
      <4>2. s[cursor.end] = Separator /\ cursor.end \in Nat
        BY <1>0, <2>1, <3>4 DEF AtSeparator
      <4>3. /\ cursor'.begin = cursor.end + 1 /\ cursor'.end = cursor.end + 1
            /\ cursor' \in [begin : Nat, end : Nat]
        BY <4>1, <4>2
      <4>4. /\ cursor'.begin \in 1..Len(s)
            /\ cursor'.end \in cursor'.begin..(Len(s) + 1)
            /\ s[cursor'.begin - 1] = Separator
            /\ \A k \in cursor'.begin..(cursor'.end - 1) : s[k] # Separator
        <5>1. cursor.end + 1 <= Len(s)
          BY <2>2, <3>4, <4>2 DEF AtEnd
        <5>2. cursor'.begin - 1 = cursor.end
          BY <4>2, <4>3
        <5> QED
          BY <2>2, <4>2, <4>3, <5>1, <5>2
      <4>5. \A f, u \in ends : IsPiece(s, f, u) /\ LeadsTo(call, f, u) => f >= cursor'.begin
        BY <3>2, <4>3 DEF IsFound
      <4>6. NotPassed'
        BY <2>1, <2>2, <4>4, <4>5 DEF NotPassed
      <4> QED
        BY <1>0, <2>1, <4>1, <4>3, <4>6 DEF SearchInv, FindsTheFirst
    <3> QED
      BY <3>3, <3>4
  <2> QED
    BY <2>3, <2>4
<1>7. CASE ExecutorStep
  BY <1>1, <1>7 DEF ExecutorStep
<1>8. CASE UNCHANGED allVars
  BY <1>1, <1>8 DEF allVars
<1> QED
  BY <1>1, <1>2, <1>3, <1>4, <1>5, <1>6, <1>7, <1>8 DEF LibNext

\* For every call, every search path and every set of programs: what the
\* Resolver answers is the program that the first piece of the path leads to,
\* and it answers that there is none only when there is none.
THEOREM FindsFirst == LibSpec => []FindsTheFirst
<1>1. SearchInv => FindsTheFirst
  BY DEF SearchInv
<1> QED
  BY <1>1, SearchInit, SearchStep, PTL DEF LibSpec
=============================================================================
