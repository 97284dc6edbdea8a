---------------------------- MODULE LedgerProofs ----------------------------
(***************************************************************************)
(* What CatterRpc's ledger says of the commands is true, said once and     *)
(* complete; and, seen through the ledger and the commands, every step of  *)
(* the protocol takes at most one command one phase further: CatterRpc     *)
(* implements CommandLifecycle.  Proofs for every set of proxies, codes    *)
(* and faults.                                                             *)
(***************************************************************************)
EXTENDS CatterRpcProofs

\* What a command came to: it could not be started, its exit status, or a
\* failed wait.
Result(p, v) ==
  \/ cmd[p] = "none" /\ v = -1 /\ "spawn" \in Faults
  \/ cmd[p] \in {"exited", "signalled"} /\ v = RunResult(p)
  \/ v = -1 /\ "wait" \in Faults

Early == {"off", "start", "connected", "creating", "created", "deciding", "decided"}
Past == {"returning", "exited", "killed"}

\* A proxy that kept its pipe and is on its way out, or out.
Leaves(p) ==
  \/ pc[p] = "returning" /\ CanWrite(p)
  \/ pc[p] = "exited" /\ conn[p] = "shut"

\* The server closes the pipes of coroutines that are over, and loop those of
\* the ones it destroys, but for the ones a release build frees.
OpenOK(p) ==
  CanWrite(p) => \/ srv = "up" /\ acc[p] \in {"none", "reading"}
                 \/ srv = "freed" /\ acc[p] \in {"none", "destroyed"}

\* ret is the command's result from run_command on, and -1 without a command.
ResultOK(p) ==
  /\ pc[p] \in Early => cmd[p] = "none"
  /\ pc[p] = "ran" => Result(p, ret[p])
  /\ Leaves(p) => (cmd[p] = "none" /\ ret[p] = -1) \/ Result(p, ret[p])

\* What is under way to the server is true.
MessageOK(p) ==
  c2s[p] # <<>> =>
    /\ Head(c2s[p]).op = "FINISH" => Result(p, Head(c2s[p]).val)
    /\ Head(c2s[p]).op = "REPORT_ERROR" => Head(c2s[p]).val = id[p]

\* The finish of a command that was started is recorded, or under way to a
\* coroutine that reads; at the end of loop none is under way any more.
FinishUnderWay(p) ==
  /\ c2s[p] # <<>> /\ Head(c2s[p]).op = "FINISH" /\ Head(c2s[p]).val = ret[p]
  /\ srv = "up" => acc[p] = "reading"
  /\ ~(LoopOver /\ p \in settled)

SaidOK(p) ==
  cmd[p] # "none" /\ Leaves(p) =>
    Entry("finish", accId[p], ret[p]) \in ledger \/ FinishUnderWay(p)

ProxyOK(p) == OpenOK(p) /\ ResultOK(p) /\ MessageOK(p) /\ SaidOK(p)

\* A verdict in the ledger is the last word of its proxy, and true.
Verdicts == {"finish", "error"}
Speaks(p, e) ==
  /\ e.id = accId[p] /\ e.id # 0
  /\ pc[p] \in Past /\ c2s[p] = <<>>
  /\ e.ev = "finish" => Result(p, e.val)
VerdictOK(e) ==
  e.ev \in Verdicts /\ e.id # -1 => \E p \in Proxy : Speaks(p, e)

FinishHasId(e) == e.ev = "finish" => e.id # -1

\* loop ends after the root proxy.
EndOK == LoopOver => ~Live(Root)

\* Only what has gone is settled.
SettledGone == \A p \in settled : Gone(p)

VInv ==
  /\ \A p \in Proxy : ProxyOK(p)
  /\ \A e \in ledger : VerdictOK(e) /\ FinishHasId(e)
  /\ OneVerdict
  /\ EndOK

-----------------------------------------------------------------------------
(* What a step leaves alone.                                               *)

\* A step leaves everything that ProxyOK says of proxy r as it was.
Untouched(r) ==
  /\ acc'[r] = acc[r] /\ accId'[r] = accId[r] /\ conn'[r] = conn[r]
  /\ c2s'[r] = c2s[r] /\ pc'[r] = pc[r] /\ id'[r] = id[r]
  /\ ret'[r] = ret[r] /\ cmd'[r] = cmd[r] /\ code'[r] = code[r]

\* What was settled when the server ended is settled.
SettledKept == LoopOver => settled' = settled

\* What is said of a proxy that a step leaves alone stays true: of its pipe
\* and its coroutine, its result, its last message and its finish.
LEMMA UntouchedOK ==
  ASSUME NEW r \in Proxy, ProxyOK(r), Untouched(r), srv' = srv, SettledKept,
         ledger \subseteq ledger'
  PROVE  ProxyOK(r)'
  <1>1. \A v : Result(r, v)' <=> Result(r, v)
    BY DEF Result, Untouched, RunResult
  <1>2. Leaves(r)' <=> Leaves(r)
    BY DEF Leaves, Untouched, CanWrite
  <1>3. OpenOK(r)'
    BY DEF ProxyOK, OpenOK, Untouched, CanWrite
  <1>4. ResultOK(r)'
    BY <1>1, <1>2 DEF ProxyOK, ResultOK, Untouched
  <1>5. MessageOK(r)'
    BY <1>1 DEF ProxyOK, MessageOK, Untouched
  <1>6. SaidOK(r)'
    <2>1. FinishUnderWay(r) => FinishUnderWay(r)'
      BY DEF FinishUnderWay, LoopOver, Untouched, SettledKept
    <2>2. Entry("finish", accId[r], ret[r])' = Entry("finish", accId[r], ret[r])
      BY DEF Entry, Untouched
    <2> QED
      BY <1>2, <2>1, <2>2 DEF ProxyOK, SaidOK, Untouched
  <1> QED
    BY <1>3, <1>4, <1>5, <1>6 DEF ProxyOK

\* What a verdict says of proxy q is not taken back: its id, its command's
\* result and its silence.
Stays(q) ==
  /\ accId[q] # 0 => accId'[q] = accId[q]
  /\ \A v : Result(q, v) /\ pc[q] \in Past => Result(q, v)'
  /\ pc[q] \in Past /\ c2s[q] = <<>> => pc'[q] \in Past /\ c2s'[q] = <<>>

\* The verdicts in the ledger stay true when nothing they say is taken back.
LEMMA VerdictsStay ==
  ASSUME \A e \in ledger : VerdictOK(e), \A q \in Proxy : Stays(q)
  PROVE  \A e \in ledger : VerdictOK(e)'
  <1> SUFFICES ASSUME NEW e \in ledger, e.ev \in Verdicts, e.id # -1
               PROVE  VerdictOK(e)'
    BY DEF VerdictOK
  <1>1. PICK p \in Proxy : Speaks(p, e)
    BY DEF VerdictOK
  <1>2. Stays(p)
    OBVIOUS
  <1>3. /\ e.id = accId[p] /\ e.id # 0
        /\ pc[p] \in Past /\ c2s[p] = <<>>
    BY <1>1 DEF Speaks
  <1>4. /\ e.id = accId'[p]
        /\ pc'[p] \in Past /\ c2s'[p] = <<>>
    BY <1>2, <1>3, Zenon DEF Stays
  <1>5. ASSUME e.ev = "finish"
        PROVE  Result(p, e.val)'
    <2>1. Result(p, e.val)
      BY <1>1, <1>5 DEF Speaks
    <2> QED
      BY <1>2, <1>3, <2>1, Zenon DEF Stays
  <1>6. Speaks(p, e)'
    BY <1>3, <1>4, <1>5 DEF Speaks
  <1> QED
    BY <1>6 DEF VerdictOK

\* A step that leaves a proxy alone takes nothing back of what is said of it.
LEMMA UntouchedStays ==
  ASSUME NEW q \in Proxy, Untouched(q)
  PROVE  Stays(q)
  BY DEF Stays, Untouched, Result, RunResult

\* A step of p alone that records no verdict keeps the invariant when what is
\* said of p holds after it.
LEMMA StepOfOne ==
  ASSUME VInv, NEW p \in Proxy,
         \A r \in Proxy \ {p} : Untouched(r),
         srv' = srv, SettledKept, ledger \subseteq ledger',
         \A e \in ledger' \ ledger : e.ev \notin Verdicts,
         ProxyOK(p)', Stays(p),
         p = Root /\ Live(p)' => Live(p)
  PROVE  VInv'
  <1>1. \A r \in Proxy : ProxyOK(r)'
    BY UntouchedOK DEF VInv
  <1>2. \A e \in ledger' : VerdictOK(e)'
    <2>1. \A q \in Proxy : Stays(q)
      BY UntouchedStays
    <2>2. \A e \in ledger : VerdictOK(e)'
      BY <2>1, VerdictsStay DEF VInv
    <2> QED
      BY <2>2 DEF VerdictOK
  <1>3. \A e \in ledger' : FinishHasId(e)'
    BY DEF VInv, FinishHasId, Verdicts
  <1>4. OneVerdict'
    BY DEF VInv, OneVerdict, Verdicts
  <1>5. EndOK'
    <2>1. CASE p = Root
      BY <2>1 DEF VInv, EndOK, LoopOver
    <2>2. CASE p # Root
      <3>1. pc'[Root] = pc[Root]
        BY <2>2, RootAssumption DEF Untouched
      <3> QED
        BY <3>1 DEF VInv, EndOK, LoopOver, Live, Gone
    <2> QED
      BY <2>1, <2>2
  <1> QED
    BY <1>1, <1>2, <1>3, <1>4, <1>5 DEF VInv

-----------------------------------------------------------------------------
(* The proxy's steps.                                                      *)

\* A step of a proxy's main leaves the server and the other proxies alone.
ProxyOnly(p) ==
  /\ UNCHANGED <<srv, idGen, acc, accId, ledger, code>>
  /\ \A r \in Proxy \ {p} :
       /\ conn'[r] = conn[r] /\ c2s'[r] = c2s[r] /\ pc'[r] = pc[r]
       /\ id'[r] = id[r] /\ ret'[r] = ret[r] /\ cmd'[r] = cmd[r]

\* ... and so does a step of its main, which leaves the server alone.
LEMMA ProxyStepOfOne ==
  ASSUME VInv, NEW p \in Proxy, ProxyOnly(p), SettledKept, Live(p),
         ProxyOK(p)', Stays(p)
  PROVE  VInv'
  <1>1. \A r \in Proxy \ {p} : Untouched(r)
    BY DEF ProxyOnly, Untouched
  <1>2. srv' = srv /\ ledger' = ledger
    BY DEF ProxyOnly
  <1> HIDE DEF VInv
  <1> QED
    BY <1>1, <1>2, StepOfOne

\* A proxy that is not on its way out has nothing to take back.
LEMMA NotPastStays ==
  ASSUME NEW p \in Proxy, pc[p] \notin Past, accId'[p] = accId[p]
  PROVE  Stays(p)
  BY DEF Stays

\* The failure path: the error that is sent carries the proxy's id.
LEMMA ReportKeepsVerdicts ==
  ASSUME TypeOK, IInv, VInv, NEW p \in Proxy, NEW n \in Int, ReportAndReturn(p, n),
         \/ pc[p] \in {"connected", "created", "decided", "ran"}
         \/ pc[p] \in {"creating", "deciding"} /\ ~CanWrite(p),
         cmd[p] = "none" \/ ~CanWrite(p)
  PROVE  VInv'
  <1>0. ProxyOK(p) /\ TalkOK(p)
    BY DEF VInv, IInv
  <1>1. /\ ret' = [ret EXCEPT ![p] = -1]
        /\ pc' = [pc EXCEPT ![p] = "returning"]
        /\ UNCHANGED <<srv, idGen, acc, accId, ledger, settled, conn, s2c, id, cmd, code>>
        /\ IF CanWrite(p)
             THEN c2s' = [c2s EXCEPT ![p] = Append(c2s[p], Request("REPORT_ERROR", n, id[p]))]
             ELSE c2s' = c2s
    BY DEF ReportAndReturn, Send, serverVars, commandVars
  <1>2. /\ pc'[p] = "returning" /\ ret'[p] = -1
        /\ \A r \in Proxy \ {p} : pc'[r] = pc[r] /\ ret'[r] = ret[r] /\ c2s'[r] = c2s[r]
    BY <1>1 DEF TypeOK
  <1>3. ProxyOnly(p) /\ SettledKept
    BY <1>1, <1>2 DEF ProxyOnly, SettledKept
  <1>4. Leaves(p)' => cmd[p] = "none"
    BY <1>1, <1>2 DEF Leaves, CanWrite
  <1>5. OpenOK(p)'
    BY <1>0, <1>1 DEF ProxyOK, OpenOK, CanWrite
  <1>6. ResultOK(p)'
    BY <1>1, <1>2, <1>4 DEF ResultOK, Early
  <1>7. MessageOK(p)'
    <2>1. CASE CanWrite(p)
      <3>1. c2s[p] = <<>>
        BY <1>0, <2>1 DEF TalkOK
      <3>2. c2s'[p] = <<Request("REPORT_ERROR", n, id[p])>>
        BY <1>1, <2>1, <3>1 DEF TypeOK
      <3>3. Head(c2s'[p]) = Request("REPORT_ERROR", n, id[p])
        BY <3>2
      <3> QED
        BY <1>1, <3>3 DEF MessageOK, Request
    <2>2. CASE ~CanWrite(p)
      <3>1. c2s' = c2s
        BY <1>1, <2>2
      <3>2. \A v : Result(p, v)' <=> Result(p, v)
        BY <1>1 DEF Result, RunResult
      <3> QED
        BY <1>0, <1>1, <3>1, <3>2 DEF ProxyOK, MessageOK
    <2> QED
      BY <2>1, <2>2
  <1>8. SaidOK(p)'
    BY <1>1, <1>4 DEF SaidOK
  <1>9. Stays(p) /\ Live(p)
    BY <1>1, NotPastStays DEF Past, Live, Gone
  <1> HIDE DEF VInv
  <1> QED
    BY <1>3, <1>5, <1>6, <1>7, <1>8, <1>9, ProxyStepOfOne DEF ProxyOK

\* A proxy that exits leaves its last message, and its result, as they were.
LEMMA GoesKeepsVerdicts ==
  ASSUME TypeOK, IInv, VInv, NEW p \in Proxy, Live(p),
         NEW s \in {"exited", "killed"}, s = "exited" => pc[p] = "returning",
         pc' = [pc EXCEPT ![p] = s],
         CloseByProxy(p), Settle(p),
         UNCHANGED <<srv, idGen, acc, accId, ledger, c2s, id, ret, cmd, code>>
  PROVE  VInv'
  <1>0. ProxyOK(p) /\ AcceptOK(p) /\ EndOK
    BY DEF VInv, IInv
  <1>1. /\ pc'[p] = s
        /\ conn'[p] = IF CanWrite(p) THEN "shut" ELSE conn[p]
        /\ \A r \in Proxy \ {p} : pc'[r] = pc[r] /\ conn'[r] = conn[r]
    BY DEF TypeOK, CloseByProxy
  <1>2. SettledKept
    BY <1>0 DEF SettledKept, Settle, EndOK, LoopOver
  <1>3. ProxyOnly(p)
    BY <1>1 DEF ProxyOnly
  <1>4. \A v : Result(p, v)' <=> Result(p, v)
    BY DEF Result, RunResult
  <1>5. ~CanWrite(p)' /\ OpenOK(p)'
    BY <1>1 DEF OpenOK, CanWrite
  <1>6. Leaves(p)' => Leaves(p)
    <2>1. conn[p] = "shut" => pc[p] # "returning"
      BY <1>0 DEF AcceptOK, Gone
    <2> QED
      BY <1>1, <2>1 DEF Leaves
  <1>7. ResultOK(p)'
    BY <1>0, <1>1, <1>4, <1>6 DEF ProxyOK, ResultOK, Early
  <1>8. MessageOK(p)'
    BY <1>0, <1>4 DEF ProxyOK, MessageOK
  <1>9. SaidOK(p)'
    <2>1. FinishUnderWay(p) => FinishUnderWay(p)'
      BY <1>2 DEF FinishUnderWay, LoopOver, SettledKept
    <2>2. Entry("finish", accId[p], ret[p])' = Entry("finish", accId[p], ret[p])
      OBVIOUS
    <2> QED
      BY <1>0, <1>6, <2>1, <2>2 DEF ProxyOK, SaidOK
  <1>10. Stays(p)
    BY <1>1, <1>4 DEF Stays, Past
  <1> HIDE DEF VInv
  <1> QED
    BY <1>2, <1>3, <1>5, <1>7, <1>8, <1>9, <1>10, ProxyStepOfOne DEF ProxyOK

\* ... and so does one that a signal ends.
LEMMA DiesKeepsVerdicts ==
  ASSUME TypeOK, IInv, VInv, NEW p \in Proxy, Live(p), Dies(p)
  PROVE  VInv'
  <1> HIDE DEF TypeOK, IInv, VInv
  <1>1. /\ pc' = [pc EXCEPT ![p] = "killed"]
        /\ CloseByProxy(p) /\ Settle(p)
        /\ UNCHANGED <<srv, idGen, acc, accId, ledger, c2s, id, ret, cmd, code>>
    BY DEF Dies, commandVars
  <1> QED
    BY <1>1, GoesKeepsVerdicts
\* No step of a proxy's main disturbs the invariant.
LEMMA ProxyStepKeepsVerdicts ==
  ASSUME TypeOK, IInv, VInv, SettledGone, NEW p \in Proxy, ProxyStep(p)
  PROVE  VInv'
  <1>0. /\ ProxyOK(p) /\ AcceptOK(p) /\ TalkOK(p) /\ ProgressOK(p)
        /\ parentId[p] \in Int /\ -1 \in Int
    BY DEF VInv, IInv, TypeOK
  <1> HIDE DEF VInv, IInv
  \* A step before the command ends that only moves p on, or takes an answer.
  <1>a. ASSUME NEW s \in Early \cup {"waiting"}, pc[p] \in Early \ {"off"},
               pc' = [pc EXCEPT ![p] = s],
               UNCHANGED <<srv, idGen, acc, accId, ledger, settled, ret, code>>,
               \A r \in Proxy \ {p} :
                 conn'[r] = conn[r] /\ c2s'[r] = c2s[r] /\ id'[r] = id[r] /\ cmd'[r] = cmd[r],
               s \in Early => cmd'[p] = "none",
               OpenOK(p)', MessageOK(p)'
        PROVE  VInv'
    <2>1. pc'[p] = s /\ \A r \in Proxy \ {p} : pc'[r] = pc[r]
      BY <1>a DEF TypeOK
    <2>2. ProxyOnly(p) /\ SettledKept
      BY <1>a, <2>1 DEF ProxyOnly, SettledKept
    <2>3. ResultOK(p)' /\ SaidOK(p)'
      BY <1>a, <2>1 DEF ResultOK, SaidOK, Leaves, Early
    <2>4. Stays(p) /\ Live(p)
      BY <1>a, NotPastStays DEF Early, Past, Live, Gone
    <2> QED
      BY <1>a, <2>2, <2>3, <2>4, ProxyStepOfOne DEF ProxyOK
  <1>1. CASE Connect(p)
    <2>1. /\ pc[p] = "start"
          /\ pc' = [pc EXCEPT ![p] = "connected"]
          /\ \/ srv = "up" /\ conn' = [conn EXCEPT ![p] = "pending"]
             \/ conn' = conn
          /\ UNCHANGED <<srv, idGen, acc, accId, ledger, settled, c2s, id, ret, cmd, code>>
      BY <1>1 DEF Connect, serverVars, commandVars
    <2>2. acc[p] = "none" /\ c2s[p] = <<>> /\ cmd[p] = "none"
      BY <1>0, <2>1 DEF AcceptOK, TalkOK, ProxyOK, ResultOK, Early
    <2>3. \A r \in Proxy \ {p} : conn'[r] = conn[r]
      BY <2>1 DEF TypeOK
    <2>4. OpenOK(p)'
      BY <1>0, <2>1, <2>2 DEF ProxyOK, OpenOK, CanWrite
    <2>5. MessageOK(p)'
      BY <2>1, <2>2 DEF MessageOK
    <2> HIDE DEF TypeOK
    <2> QED
      BY <1>a, <2>1, <2>2, <2>3, <2>4, <2>5 DEF Early
  <1>2. CASE Refuse(p)
    <2>1. cmd[p] = "none"
      BY <1>0, <1>2 DEF Refuse, ProxyOK, ResultOK, Early
    <2> QED
      BY <1>0, <1>2, <2>1, ReportKeepsVerdicts DEF Refuse
  <1>3. ASSUME NEW op \in {"CREATE", "MAKE_DECISION"}, NEW v, NEW s \in Early,
               pc[p] \in {"connected", "created"},
               pc' = [pc EXCEPT ![p] = s],
               Send(p, Request(op, parentId[p], v)),
               UNCHANGED <<srv, idGen, acc, accId, ledger, settled, conn, id, ret, cmd, code>>
        PROVE  VInv'
    <2>1. c2s[p] = <<>> /\ cmd[p] = "none"
      BY <1>0, <1>3 DEF TalkOK, ProxyOK, ResultOK, Early
    <2>2. /\ c2s'[p] = <<Request(op, parentId[p], v)>>
          /\ \A r \in Proxy \ {p} : c2s'[r] = c2s[r]
      BY <1>3, <2>1 DEF TypeOK, Send
    <2>3. Head(c2s'[p]) = Request(op, parentId[p], v)
      BY <2>2
    <2>4. MessageOK(p)'
      BY <2>3 DEF MessageOK, Request
    <2>5. OpenOK(p)'
      BY <1>0, <1>3 DEF ProxyOK, OpenOK, CanWrite
    <2> HIDE DEF TypeOK
    <2> QED
      BY <1>a, <1>3, <2>1, <2>2, <2>4, <2>5 DEF Early
  <1>4. CASE Create(p)
    <2>1. /\ pc[p] = "connected"
          /\ pc' = [pc EXCEPT ![p] = "creating"]
          /\ Send(p, Request("CREATE", parentId[p], 0))
          /\ UNCHANGED <<srv, idGen, acc, accId, ledger, settled, conn, id, ret, cmd, code>>
      BY <1>4 DEF Create, serverVars, commandVars
    <2> QED
      BY <1>3, <2>1 DEF Early
  <1>5. CASE WriteFails(p)
    BY <1>0, <1>5, ReportKeepsVerdicts DEF WriteFails
  <1>6. CASE ReadFails(p)
    <2>1. ~CanWrite(p)
      BY <1>6 DEF ReadFails, CanWrite
    <2> QED
      BY <1>0, <1>6, <2>1, ReportKeepsVerdicts DEF ReadFails
  <1>7. ASSUME NEW s \in Early, pc[p] \in {"creating", "deciding"},
               pc' = [pc EXCEPT ![p] = s], s2c[p] # <<>>,
               \A r \in Proxy \ {p} : id'[r] = id[r],
               UNCHANGED <<srv, idGen, acc, accId, ledger, settled, conn, c2s, ret, cmd, code>>
        PROVE  VInv'
    <2>1. c2s[p] = <<>> /\ cmd[p] = "none"
      BY <1>0, <1>7 DEF TalkOK, ProxyOK, ResultOK, Early
    <2>2. MessageOK(p)'
      BY <1>7, <2>1 DEF MessageOK
    <2>3. OpenOK(p)'
      BY <1>0, <1>7 DEF ProxyOK, OpenOK, CanWrite
    <2> HIDE DEF TypeOK
    <2> QED
      BY <1>a, <1>7, <2>1, <2>2, <2>3 DEF Early
  <1>8. CASE ReceiveId(p)
    <2>1. /\ pc[p] = "creating" /\ s2c[p] # <<>>
          /\ pc' = [pc EXCEPT ![p] = "created"]
          /\ id' = [id EXCEPT ![p] = Head(s2c[p]).val]
          /\ UNCHANGED <<srv, idGen, acc, accId, ledger, settled, conn, c2s, ret, cmd, code>>
      BY <1>8 DEF ReceiveId, serverVars, commandVars
    <2>2. \A r \in Proxy \ {p} : id'[r] = id[r]
      BY <2>1 DEF TypeOK
    <2> QED
      BY <1>7, <2>1, <2>2 DEF Early
  <1>9. CASE ReceiveAction(p)
    <2>1. /\ pc[p] = "deciding" /\ s2c[p] # <<>>
          /\ pc' = [pc EXCEPT ![p] = "decided"]
          /\ UNCHANGED <<srv, idGen, acc, accId, ledger, settled, conn, c2s, id, ret, cmd, code>>
      BY <1>9 DEF ReceiveAction, serverVars, commandVars
    <2> QED
      BY <1>7, <2>1 DEF Early
  <1>10. CASE HookMessage(p)
    <2>1. cmd[p] = "none"
      BY <1>0, <1>10 DEF HookMessage, ProxyOK, ResultOK, Early
    <2> QED
      BY <1>0, <1>10, <2>1, ReportKeepsVerdicts DEF HookMessage
  <1>11. CASE LocateFails(p)
    <2>1. cmd[p] = "none"
      BY <1>0, <1>11 DEF LocateFails, ProxyOK, ResultOK, Early
    <2> QED
      BY <1>0, <1>11, <2>1, ReportKeepsVerdicts DEF LocateFails
  <1>12. CASE MakeDecision(p)
    <2> DEFINE v == IF shape[p] = "emptyArg" THEN HoldsEmptyString ELSE Plain
    <2>1. /\ pc[p] = "created"
          /\ pc' = [pc EXCEPT ![p] = "deciding"]
          /\ Send(p, Request("MAKE_DECISION", parentId[p], v))
          /\ UNCHANGED <<srv, idGen, acc, accId, ledger, settled, conn, id, ret, cmd, code>>
      BY <1>12 DEF MakeDecision, serverVars, commandVars
    <2> HIDE DEF v
    <2> QED
      BY <1>3, <2>1 DEF Early
  <1>13. CASE Spawn(p)
    <2>1. /\ pc[p] = "decided"
          /\ UNCHANGED <<srv, idGen, acc, accId, ledger, settled, conn, c2s, id, code>>
      BY <1>13 DEF Spawn, serverVars, pipeVars
    <2>2. c2s[p] = <<>> /\ cmd[p] = "none"
      BY <1>0, <2>1 DEF TalkOK, ProxyOK, ResultOK, Early
    <2>3. MessageOK(p)' /\ OpenOK(p)'
      BY <1>0, <2>1, <2>2 DEF MessageOK, ProxyOK, OpenOK, CanWrite
    <2>4. CASE /\ cmd' = [cmd EXCEPT ![p] = "running"]
               /\ pc' = [pc EXCEPT ![p] = "waiting"]
               /\ UNCHANGED ret
      <3>1. \A r \in Proxy \ {p} : cmd'[r] = cmd[r]
        BY <2>4 DEF TypeOK
      <3> HIDE DEF TypeOK
      <3> QED
        BY <1>a, <2>1, <2>3, <2>4, <3>1 DEF Early
    <2>5. CASE /\ "spawn" \in Faults
               /\ ret' = [ret EXCEPT ![p] = -1]
               /\ pc' = [pc EXCEPT ![p] = "ran"]
               /\ UNCHANGED cmd
      <3>1. /\ pc'[p] = "ran" /\ ret'[p] = -1
            /\ \A r \in Proxy \ {p} : pc'[r] = pc[r] /\ ret'[r] = ret[r]
        BY <2>5 DEF TypeOK
      <3>2. ResultOK(p)' /\ SaidOK(p)'
        BY <2>2, <2>5, <3>1 DEF ResultOK, SaidOK, Leaves, Early, Result
      <3>3. ProxyOnly(p) /\ SettledKept
        BY <2>1, <2>5, <3>1 DEF ProxyOnly, SettledKept
      <3>4. Stays(p) /\ Live(p)
        BY <2>1, NotPastStays DEF Past, Live, Gone
      <3> HIDE DEF TypeOK
      <3> QED
        BY <2>3, <3>2, <3>3, <3>4, ProxyStepOfOne DEF ProxyOK
    <2> QED
      BY <1>13, <2>4, <2>5 DEF Spawn
  <1>14. CASE Wait(p)
    <2>1. /\ pc[p] = "waiting" /\ cmd[p] \in {"exited", "signalled"}
          /\ pc' = [pc EXCEPT ![p] = "ran"]
          /\ \/ ret' = [ret EXCEPT ![p] = RunResult(p)]
             \/ "wait" \in Faults /\ ret' = [ret EXCEPT ![p] = -1]
          /\ UNCHANGED <<srv, idGen, acc, accId, ledger, settled, conn, c2s, id, cmd, code>>
      BY <1>14 DEF Wait, serverVars, pipeVars, commandVars
    <2>2. /\ pc'[p] = "ran"
          /\ ret'[p] = RunResult(p) \/ ("wait" \in Faults /\ ret'[p] = -1)
          /\ \A r \in Proxy \ {p} : pc'[r] = pc[r] /\ ret'[r] = ret[r]
      BY <2>1 DEF TypeOK
    <2>3. RunResult(p)' = RunResult(p)
      BY <2>1 DEF RunResult
    <2>4. Result(p, ret[p])'
      BY <2>1, <2>2, <2>3 DEF Result
    <2>5. c2s[p] = <<>>
      BY <1>0, <2>1 DEF TalkOK
    <2>6. ResultOK(p)' /\ SaidOK(p)'
      BY <2>2, <2>4 DEF ResultOK, SaidOK, Leaves, Early
    <2>7. MessageOK(p)' /\ OpenOK(p)'
      BY <1>0, <2>1, <2>5 DEF MessageOK, ProxyOK, OpenOK, CanWrite
    <2>8. ProxyOnly(p) /\ SettledKept
      BY <2>1, <2>2 DEF ProxyOnly, SettledKept
    <2>9. Stays(p) /\ Live(p)
      BY <2>1, NotPastStays DEF Past, Live, Gone
    <2> HIDE DEF TypeOK
    <2> QED
      BY <2>6, <2>7, <2>8, <2>9, ProxyStepOfOne DEF ProxyOK
  <1>15. CASE Finish(p)
    <2> DEFINE m == Request("FINISH", parentId[p], ret[p])
    <2>1. /\ pc[p] = "ran" /\ CanWrite(p)
          /\ pc' = [pc EXCEPT ![p] = "returning"]
          /\ c2s' = [c2s EXCEPT ![p] = Append(c2s[p], m)]
          /\ UNCHANGED <<srv, idGen, acc, accId, ledger, settled, conn, id, ret, cmd, code>>
      BY <1>15 DEF Finish, Send, serverVars, commandVars
    <2>2. c2s[p] = <<>> /\ Result(p, ret[p])
      BY <1>0, <2>1 DEF TalkOK, ProxyOK, ResultOK
    <2>3. /\ pc'[p] = "returning" /\ c2s'[p] = <<m>>
          /\ \A r \in Proxy \ {p} : pc'[r] = pc[r] /\ c2s'[r] = c2s[r]
      BY <2>1, <2>2 DEF TypeOK
    <2>4. Head(c2s'[p]) = m /\ c2s'[p] # <<>>
      BY <2>3
    <2>5. m.op = "FINISH" /\ m.val = ret[p]
      BY DEF Request
    <2>6. Result(p, ret[p])'
      BY <2>1, <2>2 DEF Result, RunResult
    <2>7. p \notin settled /\ (srv = "up" => acc[p] = "reading")
      <3>1. srv = "up" => acc[p] \in {"none", "reading"}
        BY <1>0, <2>1 DEF ProxyOK, OpenOK
      <3>2. accId[p] # 0
        BY <1>0, <2>1 DEF ProgressOK
      <3> QED
        BY <1>0, <2>1, <3>1, <3>2 DEF AcceptOK, SettledGone, Gone
    <2> HIDE DEF m
    <2>8. ResultOK(p)'
      BY <2>3, <2>6 DEF ResultOK, Early
    <2>9. MessageOK(p)'
      BY <2>1, <2>4, <2>5, <2>6 DEF MessageOK
    <2>10. SaidOK(p)'
      BY <2>1, <2>4, <2>5, <2>7 DEF SaidOK, FinishUnderWay
    <2>11. OpenOK(p)'
      BY <1>0, <2>1 DEF ProxyOK, OpenOK, CanWrite
    <2>12. ProxyOnly(p) /\ SettledKept
      BY <2>1, <2>3 DEF ProxyOnly, SettledKept
    <2>13. Stays(p) /\ Live(p)
      BY <2>1, NotPastStays DEF Past, Live, Gone
    <2> HIDE DEF TypeOK
    <2> QED
      BY <2>8, <2>9, <2>10, <2>11, <2>12, <2>13, ProxyStepOfOne DEF ProxyOK
  <1>16. CASE Exit(p)
    <2>1. /\ pc[p] = "returning"
          /\ pc' = [pc EXCEPT ![p] = "exited"]
          /\ CloseByProxy(p) /\ Settle(p)
          /\ UNCHANGED <<srv, idGen, acc, accId, ledger, c2s, id, ret, cmd, code>>
      BY <1>16 DEF Exit, commandVars
    <2>2. Live(p)
      BY <2>1 DEF Live, Gone
    <2> HIDE DEF TypeOK
    <2> QED
      BY <2>1, <2>2, GoesKeepsVerdicts
  <1>17. CASE BrokenPipe(p)
    <2>1. Live(p) /\ Dies(p)
      BY <1>17 DEF BrokenPipe, Live, Gone
    <2> QED
      BY <2>1, DiesKeepsVerdicts
  <1> QED
    BY <1>1, <1>2, <1>4, <1>5, <1>6, <1>8, <1>9, <1>10, <1>11, <1>12, <1>13,
       <1>14, <1>15, <1>16, <1>17 DEF ProxyStep

-----------------------------------------------------------------------------
(* The event loop's steps.                                                 *)

\* Taking a connection from the backlog: its proxy has no command yet.
LEMMA TakesKeepsVerdicts ==
  ASSUME TypeOK, IInv, VInv, NEW p \in Proxy, InBacklog(p), srv = "up",
         UNCHANGED <<srv, ledger, settled, c2s, pc, id, ret, cmd, code>>,
         \A r \in Proxy \ {p} :
           acc'[r] = acc[r] /\ accId'[r] = accId[r] /\ conn'[r] = conn[r],
         \/ acc'[p] = "reading" /\ conn'[p] = "open" /\ CanWrite(p)
         \/ acc'[p] = "reading" /\ conn'[p] = conn[p]
         \/ acc'[p] = "over" /\ conn'[p] \in {conn[p], "reset"} /\ ~CanWrite(p)'
  PROVE  VInv'
  <1>0. ProxyOK(p)
    BY DEF VInv
  <1> HIDE DEF TypeOK, IInv, VInv
  <1>1. /\ accId[p] = 0 /\ cmd[p] = "none"
        /\ pc[p] \notin {"off", "start", "created", "deciding", "decided",
                         "waiting", "ran"}
    BY Backlog
  <1>2. \A v : Result(p, v)' <=> Result(p, v)
    BY DEF Result, RunResult
  <1>3. (CanWrite(p)' => CanWrite(p)) /\ (Leaves(p)' => Leaves(p))
    BY DEF Leaves, CanWrite
  <1>4. OpenOK(p)'
    BY <1>3 DEF OpenOK, CanWrite
  <1>5. ResultOK(p)'
    BY <1>0, <1>1, <1>2, <1>3 DEF ProxyOK, ResultOK
  <1>6. MessageOK(p)'
    BY <1>0, <1>2 DEF ProxyOK, MessageOK
  <1>7. SaidOK(p)'
    BY <1>1 DEF SaidOK
  <1>8. Stays(p)
    BY <1>1, <1>2 DEF Stays
  <1>9. \A r \in Proxy \ {p} : Untouched(r)
    BY DEF Untouched
  <1>10. SettledKept /\ (Live(p)' => Live(p))
    BY DEF SettledKept, Live, Gone
  <1> QED
    BY <1>4, <1>5, <1>6, <1>7, <1>8, <1>9, <1>10, StepOfOne DEF ProxyOK

\* A coroutine reads what is no verdict, or the end of its pipe.
LEMMA ReadsKeepsVerdicts ==
  ASSUME VInv, NEW p \in Proxy, srv = "up", acc[p] = "reading",
         ~FinishUnderWay(p), c2s'[p] = <<>>,
         UNCHANGED <<srv, accId, settled, pc, id, ret, cmd, code>>,
         \A r \in Proxy \ {p} :
           acc'[r] = acc[r] /\ conn'[r] = conn[r] /\ c2s'[r] = c2s[r],
         ledger \subseteq ledger',
         \A e \in ledger' \ ledger : e.ev \notin Verdicts,
         conn'[p] \in {conn[p], "reset"},
         acc'[p] = "reading" \/ ~CanWrite(p)'
  PROVE  VInv'
  <1>0. ProxyOK(p)
    BY DEF VInv
  <1> HIDE DEF VInv
  <1>1. \A v : Result(p, v)' <=> Result(p, v)
    BY DEF Result, RunResult
  <1>2. Leaves(p)' => Leaves(p)
    BY DEF Leaves, CanWrite
  <1>3. OpenOK(p)'
    BY DEF OpenOK
  <1>4. ResultOK(p)'
    BY <1>0, <1>1, <1>2 DEF ProxyOK, ResultOK
  <1>5. MessageOK(p)'
    BY DEF MessageOK
  <1>6. SaidOK(p)'
    <2>1. Entry("finish", accId[p], ret[p])' = Entry("finish", accId[p], ret[p])
      OBVIOUS
    <2> QED
      BY <1>0, <1>2, <2>1 DEF ProxyOK, SaidOK
  <1>7. Stays(p)
    BY <1>1 DEF Stays
  <1>8. \A r \in Proxy \ {p} : Untouched(r)
    BY DEF Untouched
  <1>9. SettledKept /\ (Live(p)' => Live(p))
    BY DEF SettledKept, Live, Gone
  <1> QED
    BY <1>3, <1>4, <1>5, <1>6, <1>7, <1>8, <1>9, StepOfOne DEF ProxyOK

\* A verdict is recorded: it was the last message of its proxy, and the first
\* verdict under its id.
LEMMA HearsKeepsVerdicts ==
  ASSUME TypeOK, IInv, VInv, NEW p \in Proxy, pc[p] \in Past, c2s[p] # <<>>,
         accId[p] # 0, c2s'[p] = <<>>,
         \A r \in Proxy \ {p} : c2s'[r] = c2s[r],
         UNCHANGED <<srv, acc, accId, conn, settled, pc, id, ret, cmd, code>>,
         NEW e, e.ev \in Verdicts, ledger' = ledger \cup {e},
         e.id = accId[p] \/ (e.ev = "error" /\ e.id = -1),
         e.ev = "finish" => Result(p, e.val),
         FinishUnderWay(p) => Entry("finish", accId[p], ret[p]) = e
  PROVE  VInv'
  <1>0. ProxyOK(p) /\ AcceptOK(p) /\ accId[p] \in Nat
    BY DEF VInv, IInv, TypeOK
  <1> HIDE DEF TypeOK, IInv
  <1>1. \A v : Result(p, v)' <=> Result(p, v)
    BY DEF Result, RunResult
  <1>2. Leaves(p)' <=> Leaves(p)
    BY DEF Leaves, CanWrite
  <1>3. OpenOK(p)' /\ MessageOK(p)'
    BY <1>0 DEF ProxyOK, OpenOK, MessageOK, CanWrite
  <1>4. ResultOK(p)'
    BY <1>0, <1>1, <1>2 DEF ProxyOK, ResultOK
  <1>5. SaidOK(p)'
    <2>1. Entry("finish", accId[p], ret[p])' = Entry("finish", accId[p], ret[p])
      OBVIOUS
    <2> QED
      BY <1>0, <1>2, <2>1 DEF ProxyOK, SaidOK
  <1>6. \A r \in Proxy \ {p} : Untouched(r)
    BY DEF Untouched
  <1>7. \A r \in Proxy : ProxyOK(r)'
    <2>1. \A r \in Proxy \ {p} : ProxyOK(r)'
      BY <1>6, UntouchedOK DEF VInv, SettledKept
    <2> QED
      BY <1>3, <1>4, <1>5, <2>1 DEF ProxyOK
  <1>8. \A f \in ledger' : VerdictOK(f)'
    <2>1. \A q \in Proxy : Stays(q)
      <3>1. Stays(p)
        BY <1>1 DEF Stays
      <3> QED
        BY <1>6, <3>1, UntouchedStays
    <2>2. \A f \in ledger : VerdictOK(f)'
      BY <2>1, VerdictsStay DEF VInv
    <2>3. e.id = accId[p] => Speaks(p, e)'
      BY <1>1 DEF Speaks
    <2>4. VerdictOK(e)'
      BY <2>3 DEF VerdictOK
    <2> QED
      BY <2>2, <2>4
  <1>9. \A f \in ledger' : FinishHasId(f)'
    BY <1>0 DEF VInv, FinishHasId
  <1>10. OneVerdict'
    <2>1. ASSUME NEW f \in ledger, f.ev \in Verdicts, f.id # -1, f.id = e.id
          PROVE  FALSE
      <3>1. PICK q \in Proxy : Speaks(q, f)
        BY <2>1 DEF VInv, VerdictOK
      <3>2. accId[q] = accId[p] /\ c2s[q] = <<>>
        BY <2>1, <3>1 DEF Speaks
      <3> QED
        BY <1>0, <3>2 DEF AcceptOK
    <2> QED
      BY <2>1 DEF VInv, OneVerdict, Verdicts
  <1>11. EndOK'
    BY DEF VInv, EndOK, LoopOver, Live, Gone
  <1> QED
    BY <1>7, <1>8, <1>9, <1>10, <1>11 DEF VInv

\* No step of the event loop for one connection disturbs the invariant.
LEMMA AcceptorStepKeepsVerdicts ==
  ASSUME TypeOK, IInv, VInv, NEW p \in Proxy, AcceptorStep(p)
  PROVE  VInv'
  <1>0. ProxyOK(p) /\ AcceptOK(p) /\ ProgressOK(p)
    BY DEF VInv, IInv
  <1> HIDE DEF IInv, VInv
  <1>1. CASE Accept(p)
    <2>1. /\ srv = "up" /\ InBacklog(p) /\ conn[p] \in {"pending", "shut"}
          /\ accId' = [accId EXCEPT ![p] = idGen + 1]
          /\ acc' = [acc EXCEPT ![p] = "reading"]
          /\ conn' = [conn EXCEPT ![p] = IF conn[p] = "pending" THEN "open" ELSE conn[p]]
          /\ UNCHANGED <<srv, ledger, settled, c2s, pc, id, ret, cmd, code>>
      BY <1>1 DEF Accept, InBacklog, proxyVars, commandVars
    <2>2. /\ acc'[p] = "reading"
          /\ \/ conn'[p] = "open" /\ CanWrite(p)
             \/ conn'[p] = conn[p]
          /\ \A r \in Proxy \ {p} :
               acc'[r] = acc[r] /\ accId'[r] = accId[r] /\ conn'[r] = conn[r]
      BY <2>1 DEF TypeOK, CanWrite
    <2> HIDE DEF TypeOK
    <2> QED
      BY <2>1, <2>2, TakesKeepsVerdicts
  <1>2. CASE AcceptFails(p)
    <2>1. /\ srv = "up" /\ InBacklog(p) /\ conn[p] \in {"pending", "shut"}
          /\ accId' = [accId EXCEPT ![p] = idGen + 1] \/ accId' = accId
          /\ acc' = [acc EXCEPT ![p] = "over"]
          /\ conn' = [conn EXCEPT ![p] = IF conn[p] = "shut" THEN conn[p] ELSE "reset"]
          /\ UNCHANGED <<srv, ledger, settled, c2s, pc, id, ret, cmd, code>>
      BY <1>2 DEF AcceptFails, InBacklog, CloseByServer, proxyVars, commandVars
    <2>2. /\ acc'[p] = "over" /\ conn'[p] \in {conn[p], "reset"} /\ ~CanWrite(p)'
          /\ \A r \in Proxy \ {p} :
               acc'[r] = acc[r] /\ accId'[r] = accId[r] /\ conn'[r] = conn[r]
      BY <2>1 DEF TypeOK, CanWrite
    <2> HIDE DEF TypeOK
    <2> QED
      BY <2>1, <2>2, TakesKeepsVerdicts
  \* A message that is no verdict is answered.
  <1>3. ASSUME NEW op \in {"CREATE", "MAKE_DECISION"}, Reading(p, op),
               NEW ev \in {"created", "decision"}, NEW v, NEW m,
               Record(ev, accId[p], v), Answer(p, m),
               c2s' = [c2s EXCEPT ![p] = Tail(c2s[p])],
               UNCHANGED <<srv, accId, settled, conn, pc, id, ret, cmd, code>>
        PROVE  VInv'
    <2>1. srv = "up" /\ acc[p] = "reading" /\ Tail(c2s[p]) = <<>>
      BY <1>3, HeadOfPipe
    <2>2. c2s'[p] = <<>> /\ \A r \in Proxy \ {p} : c2s'[r] = c2s[r]
      BY <1>3, <2>1 DEF TypeOK
    <2>3. ~FinishUnderWay(p)
      BY <1>3 DEF FinishUnderWay, Reading
    <2>4. ledger \subseteq ledger' /\ \A e \in ledger' \ ledger : e.ev \notin Verdicts
      BY <1>3 DEF Record, Entry, Verdicts
    <2>5. conn[p] \in {"open", "shut"}
      BY <1>0, <2>1 DEF AcceptOK
    <2>6. /\ acc'[p] = "reading" \/ ~CanWrite(p)'
          /\ \A r \in Proxy \ {p} : acc'[r] = acc[r]
      BY <1>3, <2>1, <2>5 DEF Answer, CanWrite, TypeOK
    <2> HIDE DEF TypeOK
    <2> QED
      BY <1>3, <2>1, <2>2, <2>3, <2>4, <2>6, ReadsKeepsVerdicts
  <1>4. CASE ServeCreate(p)
    BY <1>3, <1>4 DEF ServeCreate, proxyVars, commandVars
  <1>5. CASE ServeDecision(p)
    BY <1>3, <1>5 DEF ServeDecision, proxyVars, commandVars
  <1>6. CASE DecisionUnreadable(p)
    <2>1. /\ Reading(p, "MAKE_DECISION")
          /\ c2s' = [c2s EXCEPT ![p] = Tail(c2s[p])]
          /\ acc' = [acc EXCEPT ![p] = "over"]
          /\ conn' = [conn EXCEPT ![p] = IF conn[p] = "shut" THEN conn[p] ELSE "reset"]
          /\ UNCHANGED <<srv, accId, ledger, settled, pc, id, ret, cmd, code>>
      BY <1>6 DEF DecisionUnreadable, CloseByServer, proxyVars, commandVars
    <2>2. srv = "up" /\ acc[p] = "reading" /\ Tail(c2s[p]) = <<>>
      BY <2>1, HeadOfPipe
    <2>3. /\ c2s'[p] = <<>> /\ conn'[p] \in {conn[p], "reset"} /\ ~CanWrite(p)'
          /\ \A r \in Proxy \ {p} :
               acc'[r] = acc[r] /\ conn'[r] = conn[r] /\ c2s'[r] = c2s[r]
      BY <2>1, <2>2 DEF TypeOK, CanWrite
    <2>4. ~FinishUnderWay(p)
      BY <2>1 DEF FinishUnderWay, Reading
    <2>5. ledger \subseteq ledger' /\ ledger' \ ledger = {}
      BY <2>1
    <2> HIDE DEF TypeOK
    <2> QED
      BY <2>1, <2>2, <2>3, <2>4, <2>5, ReadsKeepsVerdicts
  \* A verdict is recorded.
  <1>7. ASSUME NEW op \in {"FINISH", "REPORT_ERROR"}, Reading(p, op),
               NEW e, ledger' = ledger \cup {e}, e.ev \in Verdicts,
               e.id = accId[p] \/ (e.ev = "error" /\ e.id = -1),
               e.ev = "finish" => Result(p, e.val),
               FinishUnderWay(p) => Entry("finish", accId[p], ret[p]) = e,
               c2s' = [c2s EXCEPT ![p] = Tail(c2s[p])],
               UNCHANGED <<srv, acc, accId, settled, conn, pc, id, ret, cmd, code>>
        PROVE  VInv'
    <2>1. /\ accId[p] # 0 /\ Tail(c2s[p]) = <<>>
          /\ pc[p] \in Past /\ c2s[p] # <<>>
      BY <1>7, HeadOfPipe DEF Past, Reading
    <2>2. c2s'[p] = <<>> /\ \A r \in Proxy \ {p} : c2s'[r] = c2s[r]
      BY <1>7, <2>1 DEF TypeOK
    <2> HIDE DEF TypeOK
    <2> QED
      BY <1>7, <2>1, <2>2, HearsKeepsVerdicts
  <1>8. CASE ServeFinish(p)
    <2> DEFINE e == Entry("finish", accId[p], Head(c2s[p]).val)
    <2>1. /\ Reading(p, "FINISH")
          /\ ledger' = ledger \cup {e}
          /\ c2s' = [c2s EXCEPT ![p] = Tail(c2s[p])]
          /\ UNCHANGED <<srv, acc, accId, settled, conn, pc, id, ret, cmd, code>>
      BY <1>8 DEF ServeFinish, Record, proxyVars, commandVars
    <2>2. e.ev = "finish" /\ e.id = accId[p] /\ e.val = Head(c2s[p]).val
      BY DEF Entry
    <2>3. Result(p, e.val)
      BY <1>0, <2>1, <2>2 DEF Reading, ProxyOK, MessageOK
    <2>4. FinishUnderWay(p) => Entry("finish", accId[p], ret[p]) = e
      BY DEF FinishUnderWay
    <2> HIDE DEF e
    <2> QED
      BY <1>7, <2>1, <2>2, <2>3, <2>4 DEF Verdicts
  <1>9. CASE ServeError(p)
    <2> DEFINE e == Entry("error", Head(c2s[p]).val, Head(c2s[p]).parent)
    <2>1. /\ Reading(p, "REPORT_ERROR")
          /\ ledger' = ledger \cup {e}
          /\ c2s' = [c2s EXCEPT ![p] = Tail(c2s[p])]
          /\ UNCHANGED <<srv, acc, accId, settled, conn, pc, id, ret, cmd, code>>
      BY <1>9 DEF ServeError, Record, proxyVars, commandVars
    <2>2. e.ev = "error" /\ e.id = id[p]
      BY <1>0, <2>1 DEF Entry, Reading, ProxyOK, MessageOK
    <2>3. e.id = accId[p] \/ e.id = -1
      BY <1>0, <2>2 DEF ProgressOK
    <2>4. ~FinishUnderWay(p)
      BY <2>1 DEF FinishUnderWay, Reading
    <2> HIDE DEF e
    <2> QED
      BY <1>7, <2>1, <2>2, <2>3, <2>4 DEF Verdicts
  <1>10. CASE Disconnect(p)
    <2>1. /\ srv = "up" /\ acc[p] = "reading" /\ c2s[p] = <<>> /\ conn[p] = "shut"
          /\ acc' = [acc EXCEPT ![p] = "over"]
          /\ UNCHANGED <<srv, accId, ledger, settled, conn, c2s, pc, id, ret, cmd, code>>
      BY <1>10 DEF Disconnect, pipeVars, proxyVars, commandVars
    <2>2. ~FinishUnderWay(p) /\ ~CanWrite(p)' /\ \A r \in Proxy \ {p} : acc'[r] = acc[r]
      BY <2>1 DEF FinishUnderWay, CanWrite, TypeOK
    <2>3. ledger \subseteq ledger' /\ ledger' \ ledger = {}
      BY <2>1
    <2> HIDE DEF TypeOK
    <2> QED
      BY <2>1, <2>2, <2>3, ReadsKeepsVerdicts
  <1> QED
    BY <1>1, <1>2, <1>4, <1>5, <1>6, <1>8, <1>9, <1>10 DEF AcceptorStep

-----------------------------------------------------------------------------
(* The other steps.                                                        *)

\* At the end of the server no finish of a settled proxy is under way: its
\* coroutine has read on to the end of the pipe.
LEMMA DropKeepsVerdicts ==
  ASSUME TypeOK, IInv, VInv, SettledGone, srv' # "up", Dropped,
         \A r \in Proxy : CanWrite(r)' => srv = "up" /\ srv' = "freed",
         LoopOver' =>
           /\ srv = "up" /\ Gone(Root)
           /\ \A r \in settled : pc[r] = "exited" /\ Created(r) => acc[r] # "reading"
  PROVE  VInv'
  <1>1. /\ \A r \in Proxy : conn'[r] = conn[r] \/ (CanWrite(r) /\ conn'[r] = "reset")
        /\ acc' = [r \in Proxy |-> IF acc[r] = "reading" THEN "destroyed" ELSE acc[r]]
        /\ UNCHANGED <<accId, ledger, settled, c2s, pc, id, ret, cmd, code>>
    BY DEF Dropped, proxyVars, commandVars
  <1>2. ASSUME NEW r \in Proxy
        PROVE  ProxyOK(r)' /\ Stays(r)
    <2>0. ProxyOK(r) /\ ProgressOK(r)
      BY DEF VInv, IInv
    <2>1. \A v : Result(r, v)' <=> Result(r, v)
      BY <1>1 DEF Result, RunResult
    <2>2. /\ Leaves(r)' => Leaves(r)
          /\ Leaves(r)' /\ r \in settled => pc[r] = "exited"
      BY <1>1 DEF CanWrite, Leaves, SettledGone, Gone
    <2>7. OpenOK(r)'
      BY <1>1, <2>0 DEF ProxyOK, OpenOK, CanWrite
    <2>3. ResultOK(r)'
      BY <1>1, <2>0, <2>1, <2>2 DEF ProxyOK, ResultOK
    <2>4. MessageOK(r)'
      BY <1>1, <2>0, <2>1 DEF ProxyOK, MessageOK
    <2>5. SaidOK(r)'
      <3>1. Entry("finish", accId[r], ret[r])' = Entry("finish", accId[r], ret[r])
        BY <1>1
      <3>2. cmd[r] # "none" => Created(r)
        BY <2>0 DEF ProgressOK, HasId, Created
      <3>3. cmd[r] # "none" /\ Leaves(r)' /\ FinishUnderWay(r) => FinishUnderWay(r)'
        BY <1>1, <2>2, <3>2 DEF FinishUnderWay
      <3> QED
        BY <1>1, <2>0, <2>2, <3>1, <3>3 DEF ProxyOK, SaidOK
    <2>6. Stays(r)
      BY <1>1, <2>1 DEF Stays
    <2> QED
      BY <2>3, <2>4, <2>5, <2>6, <2>7 DEF ProxyOK
  <1>3. \A e \in ledger : VerdictOK(e)'
    BY <1>2, VerdictsStay DEF VInv
  <1>4. (\A e \in ledger : FinishHasId(e))' /\ OneVerdict'
    BY <1>1 DEF VInv, FinishHasId, OneVerdict
  <1>5. EndOK'
    BY <1>1 DEF EndOK, Live, Gone
  <1> QED
    BY <1>1, <1>2, <1>3, <1>4, <1>5 DEF VInv

\* A new proxy has said nothing.
LEMMA LaunchKeepsVerdicts ==
  ASSUME TypeOK, IInv, VInv, NEW q \in Proxy, NEW p \in Proxy, Launch(q, p)
  PROVE  VInv'
  <1>0. ProxyOK(p) /\ TalkOK(p)
    BY DEF VInv, IInv
  <1>1. /\ pc[p] = "off" /\ p # Root
        /\ pc' = [pc EXCEPT ![p] = "start"]
        /\ UNCHANGED <<srv, acc, accId, ledger, settled, conn, c2s, id, ret, cmd, code>>
    BY DEF Launch, serverVars, pipeVars, commandVars
  <1>2. pc'[p] = "start" /\ \A r \in Proxy \ {p} : pc'[r] = pc[r]
    BY <1>1 DEF TypeOK
  <1>3. c2s[p] = <<>> /\ cmd[p] = "none"
    BY <1>0, <1>1 DEF TalkOK, ProxyOK, ResultOK, Early
  <1>4. OpenOK(p)' /\ MessageOK(p)' /\ SaidOK(p)'
    BY <1>0, <1>1, <1>3 DEF ProxyOK, OpenOK, MessageOK, SaidOK, CanWrite
  <1>5. ResultOK(p)'
    BY <1>1, <1>2, <1>3 DEF ResultOK, Leaves
  <1>6. Stays(p)
    BY <1>1, NotPastStays DEF Past
  <1>7. \A r \in Proxy \ {p} : Untouched(r)
    BY <1>1, <1>2 DEF Untouched
  <1>8. SettledKept /\ \A e \in ledger' \ ledger : e.ev \notin Verdicts
    BY <1>1 DEF SettledKept
  <1> HIDE DEF VInv
  <1> QED
    BY <1>1, <1>4, <1>5, <1>6, <1>7, <1>8, StepOfOne DEF ProxyOK

\* Before the loop runs there is nothing to say.
LEMMA BootKeepsVerdicts ==
  ASSUME TypeOK, IInv, VInv, Boot \/ BootFails
  PROVE  VInv'
  <1>1. /\ srv = "boot" /\ srv' \in {"up", "ended"}
        /\ \/ srv' = "up" /\ pc' = [pc EXCEPT ![Root] = "start"]
           \/ pc' = pc
        /\ UNCHANGED <<acc, accId, ledger, settled, conn, c2s, id, ret, cmd, code>>
    BY DEF Boot, BootFails, pipeVars, proxyVars, commandVars
  <1>2. ASSUME NEW r \in Proxy
        PROVE  /\ pc[r] = "off" /\ pc'[r] \in {"off", "start"} /\ conn[r] = "none"
               /\ c2s[r] = <<>> /\ cmd[r] = "none"
    <2>1. AcceptOK(r) /\ TalkOK(r) /\ ProxyOK(r)
      BY DEF IInv, VInv
    <2>2. pc[r] = "off"
      BY <1>1, <2>1 DEF AcceptOK
    <2> QED
      BY <1>1, <2>1, <2>2 DEF AcceptOK, TalkOK, ProxyOK, ResultOK, Early, TypeOK
  <1>3. \A r \in Proxy : ProxyOK(r)'
    BY <1>1, <1>2 DEF ProxyOK, OpenOK, ResultOK, MessageOK, SaidOK, CanWrite, Leaves
  <1>4. \A e \in ledger : VerdictOK(e)'
    BY <1>2 DEF VInv, VerdictOK, Speaks, Past
  <1>5. (\A e \in ledger : FinishHasId(e))' /\ OneVerdict'
    BY <1>1 DEF VInv, FinishHasId, OneVerdict
  <1>6. EndOK'
    BY <1>1, <1>2, RootAssumption DEF EndOK, LoopOver, Live
  <1> QED
    BY <1>1, <1>3, <1>4, <1>5, <1>6 DEF VInv

\* The end of a command: nothing but a failed wait was said of it.
LEMMA CommandEndsKeepsVerdicts ==
  ASSUME TypeOK, IInv, VInv, NEW p \in Proxy, CommandEnds(p)
  PROVE  VInv'
  <1>0. ProxyOK(p)
    BY DEF VInv
  <1>1. /\ cmd[p] = "running"
        /\ \/ cmd' = [cmd EXCEPT ![p] = "exited"]
           \/ cmd' = [cmd EXCEPT ![p] = "signalled"]
        /\ code' = code \/ \E c \in Codes : code' = [code EXCEPT ![p] = c]
        /\ UNCHANGED <<srv, acc, accId, ledger, settled, conn, c2s, pc, id, ret>>
    BY DEF CommandEnds, serverVars, pipeVars, proxyVars
  <1>2. /\ cmd'[p] # "none"
        /\ \A r \in Proxy \ {p} : cmd'[r] = cmd[r] /\ code'[r] = code[r]
    BY <1>1, SMTT(30) DEF TypeOK
  <1>3. ASSUME NEW v, Result(p, v)
        PROVE  Result(p, v)'
    BY <1>1, <1>3 DEF Result
  <1>4. Leaves(p)' <=> Leaves(p)
    BY <1>1 DEF Leaves, CanWrite
  <1>5. OpenOK(p)' /\ MessageOK(p)'
    BY <1>0, <1>1, <1>3 DEF ProxyOK, OpenOK, MessageOK, CanWrite
  <1>6. ResultOK(p)'
    BY <1>0, <1>1, <1>3, <1>4 DEF ProxyOK, ResultOK
  <1>7. SaidOK(p)'
    <2>1. Entry("finish", accId[p], ret[p])' = Entry("finish", accId[p], ret[p])
      BY <1>1
    <2>2. FinishUnderWay(p)' <=> FinishUnderWay(p)
      BY <1>1 DEF FinishUnderWay, LoopOver
    <2> QED
      BY <1>0, <1>1, <1>4, <2>1, <2>2 DEF ProxyOK, SaidOK
  <1>8. Stays(p)
    BY <1>1, <1>3 DEF Stays
  <1>9. \A r \in Proxy \ {p} : Untouched(r)
    BY <1>1, <1>2 DEF Untouched
  <1>10. /\ SettledKept /\ \A e \in ledger' \ ledger : e.ev \notin Verdicts
         /\ Live(p)' => Live(p)
    BY <1>1 DEF SettledKept, Live, Gone
  <1> HIDE DEF VInv
  <1> QED
    BY <1>1, <1>5, <1>6, <1>7, <1>8, <1>9, <1>10, StepOfOne DEF ProxyOK

\* Initially nothing has been said.
LEMMA InitVInv == Init => VInv
  BY DEF Init, VInv, ProxyOK, OpenOK, ResultOK, MessageOK, SaidOK, CanWrite,
         Leaves, OneVerdict, EndOK, LoopOver

\* Every step keeps the invariant.
LEMMA NextVInv == TypeOK /\ IInv /\ VInv /\ SettledGone /\ [Next]_vars => VInv'
  <1> SUFFICES ASSUME TypeOK, IInv, VInv, SettledGone, [Next]_vars
               PROVE  VInv'
    OBVIOUS
  <1> HIDE DEF TypeOK, IInv, VInv, SettledGone
  <1>1. CASE Boot \/ BootFails
    BY <1>1, BootKeepsVerdicts
  <1>2. CASE ServerEnds
    BY <1>2, TeardownDrops, DropKeepsVerdicts DEF ServerEnds, LoopOver
  <1>10. CASE ServerCrashes \/ FreedCrashes
    BY <1>10, ConnectionsDropped, DropKeepsVerdicts DEF ServerCrashes, FreedCrashes, LoopOver
  <1>3. ASSUME NEW p \in Proxy, ProxyStep(p)
        PROVE  VInv'
    BY <1>3, ProxyStepKeepsVerdicts
  <1>4. ASSUME NEW p \in Proxy, AcceptorStep(p)
        PROVE  VInv'
    BY <1>4, AcceptorStepKeepsVerdicts
  <1>5. ASSUME NEW p \in Proxy, ServerBrokenPipe(p)
        PROVE  VInv'
    BY <1>5, ConnectionsDropped, DropKeepsVerdicts DEF ServerBrokenPipe, LoopOver
  <1>6. ASSUME NEW p \in Proxy, Kill(p)
        PROVE  VInv'
    BY <1>6, DiesKeepsVerdicts DEF Kill
  <1>7. ASSUME NEW p \in Proxy, CommandEnds(p)
        PROVE  VInv'
    BY <1>7, CommandEndsKeepsVerdicts
  <1>8. ASSUME NEW q \in Proxy, NEW p \in Proxy, Launch(q, p)
        PROVE  VInv'
    BY <1>8, LaunchKeepsVerdicts
  <1>9. CASE UNCHANGED vars
    <2>1. UNCHANGED <<srv, acc, accId, ledger, settled, conn, c2s, pc, id, ret,
                      cmd, code>>
      BY <1>9 DEF vars, serverVars, pipeVars, proxyVars, commandVars
    <2>2. \A r \in Proxy : Untouched(r)
      BY <2>1 DEF Untouched
    <2>3. /\ SettledKept /\ \A e \in ledger' \ ledger : e.ev \notin Verdicts
          /\ Live(Root)' => Live(Root)
      BY <2>1 DEF SettledKept, Live, Gone
    <2>4. Stays(Root) /\ ProxyOK(Root)'
      BY <2>1, <2>2, <2>3, RootAssumption, UntouchedStays, UntouchedOK DEF VInv
    <2> QED
      BY <2>1, <2>2, <2>3, <2>4, RootAssumption, StepOfOne
  <1> QED
    BY <1>1, <1>2, <1>3, <1>4, <1>5, <1>6, <1>7, <1>8, <1>9, <1>10
       DEF Next, Terminated

\* A proxy that has gone does not come back, and the root settles only what
\* has gone with it.
LEMMA NextSettled == TypeOK /\ IInv /\ SettledGone /\ [Next]_vars => SettledGone'
  <1> SUFFICES ASSUME TypeOK, IInv, SettledGone, [Next]_vars
               PROVE  SettledGone'
    OBVIOUS
  <1>a. ASSUME UNCHANGED <<settled, pc>>
        PROVE  SettledGone'
    BY <1>a DEF SettledGone, Gone
  <1>b. ASSUME NEW p \in Proxy, NEW s, ~Gone(p), pc' = [pc EXCEPT ![p] = s],
               settled' = settled
        PROVE  SettledGone'
    BY <1>b DEF SettledGone, Gone, TypeOK
  <1>c. ASSUME NEW p \in Proxy, NEW s \in {"exited", "killed"},
               pc' = [pc EXCEPT ![p] = s], Settle(p)
        PROVE  SettledGone'
    <2>1. \A q \in Proxy : Gone(q) \/ q = p => Gone(q)'
      BY <1>c DEF Gone, TypeOK
    <2>2. settled' \subseteq {p} \cup settled \cup {q \in Proxy : Gone(q)}
      BY <1>c DEF Settle
    <2> QED
      BY <2>1, <2>2 DEF SettledGone, TypeOK
  <1> HIDE DEF TypeOK, IInv, SettledGone
  <1>1. CASE Boot
    <2>1. ~Gone(Root)
      BY <1>1, RootAssumption DEF Boot, IInv, AcceptOK, Gone
    <2> QED
      BY <1>1, <1>b, <2>1, RootAssumption DEF Boot
  <1>2. CASE BootFails \/ ServerEnds \/ ServerCrashes \/ FreedCrashes
    BY <1>a, <1>2, TeardownDrops, ConnectionsDropped
       DEF BootFails, ServerEnds, ServerCrashes, FreedCrashes, Dropped, proxyVars
  <1>3. ASSUME NEW p \in Proxy, ProxyStep(p)
        PROVE  SettledGone'
    <2>1. CASE Exit(p)
      BY <1>c, <2>1 DEF Exit
    <2>2. CASE BrokenPipe(p)
      BY <1>c, <2>2 DEF BrokenPipe, Dies
    <2>3. CASE ~(Exit(p) \/ BrokenPipe(p))
      <3>1. settled' = settled /\ ~Gone(p) /\ \E s : pc' = [pc EXCEPT ![p] = s]
        BY <1>3, <2>3
           DEF ProxyStep, Connect, Refuse, Create, WriteFails, ReadFails, ReceiveId,
               HookMessage, LocateFails, MakeDecision, ReceiveAction, Spawn, Wait,
               Finish, ReportAndReturn, Gone, serverVars
      <3> QED
        BY <1>b, <3>1
    <2> QED
      BY <2>1, <2>2, <2>3
  <1>4. ASSUME NEW p \in Proxy, AcceptorStep(p)
        PROVE  SettledGone'
    BY <1>4, <1>a
       DEF AcceptorStep, Accept, AcceptFails, ServeCreate, ServeDecision,
           DecisionUnreadable, ServeFinish, ServeError, Disconnect, proxyVars
  <1>5. ASSUME NEW p \in Proxy, ServerBrokenPipe(p)
        PROVE  SettledGone'
    BY <1>a, <1>5, ConnectionsDropped DEF ServerBrokenPipe, Dropped, proxyVars
  <1>6. ASSUME NEW p \in Proxy, Kill(p)
        PROVE  SettledGone'
    BY <1>c, <1>6 DEF Kill, Dies
  <1>7. ASSUME NEW p \in Proxy, CommandEnds(p)
        PROVE  SettledGone'
    BY <1>a, <1>7 DEF CommandEnds, serverVars, proxyVars
  <1>8. ASSUME NEW q \in Proxy, NEW p \in Proxy, Launch(q, p)
        PROVE  SettledGone'
    BY <1>b, <1>8 DEF Launch, Gone, serverVars
  <1>9. CASE UNCHANGED vars
    BY <1>a, <1>9 DEF vars, serverVars, proxyVars
  <1> QED
    BY <1>1, <1>2, <1>3, <1>4, <1>5, <1>6, <1>7, <1>8, <1>9 DEF Next, Terminated

\* In every reachable state, whatever fails: what has been said of the
\* commands is true, said once, and recorded or still under way.
THEOREM VerdictsAgree == Spec => []VInv
  <1>1. Init => SettledGone
    BY DEF Init, SettledGone
  <1> QED
    BY <1>1, InitVInv, NextVInv, NextSettled, TypeCorrect, Agreement, PTL DEF Spec

\* A recorded finish is the result of its command (the FINISH case of accept,
\* rpc_handler::finish and run_command).
THEOREM TrueFinishes == Spec => []FinishIsTrue
  <1>1. VInv => FinishIsTrue
    <2> SUFFICES ASSUME VInv, NEW e \in ledger, e.ev = "finish"
                 PROVE  \E p \in Proxy :
                          /\ accId[p] = e.id
                          /\ \/ cmd[p] \in {"exited", "signalled"} /\ e.val = RunResult(p)
                             \/ e.val = -1 /\ Faults \cap {"spawn", "wait"} # {}
      BY DEF FinishIsTrue
    <2>1. VerdictOK(e) /\ e.id # -1
      BY DEF VInv, FinishHasId
    <2>2. PICK p \in Proxy : Speaks(p, e)
      BY <2>1 DEF VerdictOK, Verdicts
    <2>3. accId[p] = e.id /\ Result(p, e.val)
      BY <2>2 DEF Speaks
    <2> QED
      BY <2>3 DEF Result
  <1> QED
    BY <1>1, VerdictsAgree, PTL

\* A command is finished or failed, never both and never twice (main's one
\* catch around the calls of rpc_handler).
THEOREM SaidOnce == Spec => []OneVerdict
  <1>1. VInv => OneVerdict
    BY DEF VInv
  <1> QED
    BY <1>1, VerdictsAgree, PTL

\* The proxy is transparent: what main returns is the status of the command
\* it ran (run and finish in catter-proxy/main.cc).
THEOREM CodesPassed == Spec => []ExitCodeTransparent
  <1>1. VInv => ExitCodeTransparent
    BY DEF VInv, ProxyOK, ResultOK, Leaves, Result, ExitCodeTransparent
  <1> QED
    BY <1>1, VerdictsAgree, PTL

\* The end of loop loses no finish of a command whose proxy went before the
\* root (loop's teardown of the accept coroutines).
THEOREM NothingLost == Spec => []LedgerComplete
  <1>1. TypeOK /\ IInv /\ VInv => LedgerComplete
    <2> SUFFICES ASSUME TypeOK, VInv, LoopOver, NEW p \in settled,
                        pc[p] = "exited", cmd[p] # "none", conn[p] = "shut"
                 PROVE  Entry("finish", accId[p], ret[p]) \in ledger
      BY DEF LedgerComplete
    <2>1. p \in Proxy
      BY DEF TypeOK
    <2>2. SaidOK(p)
      BY <2>1 DEF VInv, ProxyOK
    <2> QED
      BY <2>2 DEF SaidOK, Leaves, FinishUnderWay
  <1> QED
    BY <1>1, TypeCorrect, Agreement, VerdictsAgree, PTL

-----------------------------------------------------------------------------
(* The phases of a command: what a proxy asks for is the next one.         *)

\* The message under way on p's pipe.
Says(p, op) == c2s[p] # <<>> /\ Head(c2s[p]).op = op

\* A request and what the server has already recorded never name the same
\* phase of a command: what is asked for is the next one.
LifeOK(p) ==
  /\ HasId("created", accId[p]) =>
       pc[p] \notin {"off", "start", "connected"} /\ ~Says(p, "CREATE")
  /\ HasId("decision", accId[p]) =>
       pc[p] # "created" /\ ~Says(p, "MAKE_DECISION")
  /\ Says(p, "CREATE") => id[p] = -1
  /\ Says(p, "MAKE_DECISION") => id[p] # -1 /\ cmd[p] = "none"
  /\ Says(p, "FINISH") => HasId("decision", accId[p]) /\ cmd[p] # "running"
  /\ pc[p] = "ran" => cmd[p] # "running"

\* A recorded decision is about a proxy that has its id.
DecisionOK(e) ==
  e.ev = "decision" => \E p \in Proxy : e.id = accId[p] /\ e.id # 0 /\ id[p] # -1

LInv ==
  /\ \A p \in Proxy : LifeOK(p)
  /\ \A e \in ledger : DecisionOK(e)

-----------------------------------------------------------------------------
(* LInv is an invariant.                                                   *)

\* The decision recorded under a proxy's number is about that proxy.
LEMMA OwnDecision ==
  ASSUME IInv, LInv, NEW p \in Proxy, HasId("decision", accId[p])
  PROVE  id[p] # -1 /\ accId[p] # 0
  <1>1. PICK e \in ledger : e.ev = "decision" /\ e.id = accId[p]
    BY DEF HasId
  <1>2. PICK q \in Proxy : e.id = accId[q] /\ e.id # 0 /\ id[q] # -1
    BY <1>1 DEF LInv, DecisionOK
  <1>3. q = p
    BY <1>1, <1>2 DEF IInv, AcceptOK
  <1> QED
    BY <1>1, <1>2, <1>3

\* ... and so is the creation.
LEMMA OwnCreation ==
  ASSUME IInv, NEW p \in Proxy, HasId("created", accId[p])
  PROVE  accId[p] # 0
  BY DEF HasId, IInv, EntryOK

\* A step of p, or of the coroutine that serves it, keeps the invariant when
\* what it records is about p and what is said of p holds after it.
LEMMA LifeOfOne ==
  ASSUME TypeOK, IInv, LInv, NEW p \in Proxy,
         \A r \in Proxy \ {p} :
           /\ accId'[r] = accId[r] /\ c2s'[r] = c2s[r] /\ pc'[r] = pc[r]
           /\ id'[r] = id[r] /\ cmd'[r] = cmd[r],
         accId[p] # 0 => accId'[p] = accId[p],
         id[p] # -1 => id'[p] = id[p],
         ledger \subseteq ledger',
         \A e \in ledger' \ ledger :
           e.ev \in {"created", "decision"} =>
             e.id = accId[p] /\ accId[p] # 0 /\ (e.ev = "decision" => id[p] # -1),
         LifeOK(p)'
  PROVE  LInv'
  <1>1. ASSUME NEW r \in Proxy \ {p}
        PROVE  LifeOK(r)'
    <2>0. LifeOK(r) /\ AcceptOK(p)
      BY DEF LInv, IInv
    <2>1. ASSUME NEW ev \in {"created", "decision"}
          PROVE  HasId(ev, accId[r])' <=> HasId(ev, accId[r])
      <3>1. HasId(ev, accId[r]) => HasId(ev, accId[r])'
        BY DEF HasId
      <3>2. ASSUME NEW e \in ledger', e.ev = ev, e.id = accId[r]
            PROVE  e \in ledger
        BY <2>0, <3>2 DEF AcceptOK
      <3> QED
        BY <3>1, <3>2 DEF HasId
    <2>2. \A op : Says(r, op)' <=> Says(r, op)
      BY DEF Says
    <2> QED
      BY <2>0, <2>1, <2>2 DEF LifeOK
  <1>2. ASSUME NEW e \in ledger'
        PROVE  DecisionOK(e)'
    <2> SUFFICES ASSUME e.ev = "decision"
                 PROVE  \E q \in Proxy : e.id = accId'[q] /\ e.id # 0 /\ id'[q] # -1
      BY DEF DecisionOK
    <2>1. CASE e \in ledger
      <3>1. PICK q \in Proxy : e.id = accId[q] /\ e.id # 0 /\ id[q] # -1
        BY <2>1 DEF LInv, DecisionOK
      <3>2. e.id = accId'[q] /\ id'[q] # -1
        BY <3>1
      <3> QED
        BY <3>1, <3>2
    <2>2. CASE e \notin ledger
      BY <2>2
    <2> QED
      BY <2>1, <2>2
  <1> QED
    BY <1>1, <1>2 DEF LInv

\* A step of a proxy records nothing.
LEMMA ProxyLife ==
  ASSUME TypeOK, IInv, LInv, NEW p \in Proxy, UNCHANGED <<accId, ledger>>,
         \A r \in Proxy \ {p} :
           c2s'[r] = c2s[r] /\ pc'[r] = pc[r] /\ id'[r] = id[r] /\ cmd'[r] = cmd[r],
         id[p] # -1 => id'[p] = id[p],
         LifeOK(p)'
  PROVE  LInv'
  <1> HIDE DEF TypeOK, IInv, LInv
  <1> QED
    BY LifeOfOne

\* The failure path says nothing of a phase.
LEMMA ReportLife ==
  ASSUME TypeOK, IInv, LInv, NEW p \in Proxy, NEW n \in Int, ReportAndReturn(p, n),
         \/ pc[p] \in {"connected", "created", "decided", "ran"}
         \/ pc[p] \in {"creating", "deciding"} /\ ~CanWrite(p)
  PROVE  LInv'
  <1>0. LifeOK(p) /\ TalkOK(p)
    BY DEF LInv, IInv
  <1>1. /\ pc' = [pc EXCEPT ![p] = "returning"]
        /\ UNCHANGED <<accId, ledger, id, cmd>>
        /\ IF CanWrite(p)
             THEN c2s' = [c2s EXCEPT ![p] = Append(c2s[p], Request("REPORT_ERROR", n, id[p]))]
             ELSE c2s' = c2s
    BY DEF ReportAndReturn, Send, serverVars, commandVars
  <1>2. /\ pc'[p] = "returning"
        /\ \A r \in Proxy \ {p} : pc'[r] = pc[r] /\ c2s'[r] = c2s[r]
    BY <1>1 DEF TypeOK
  <1>3. \A op \in {"CREATE", "MAKE_DECISION", "FINISH"} : Says(p, op)' => Says(p, op)
    <2>1. CASE CanWrite(p)
      <3>1. c2s[p] = <<>>
        BY <1>0, <2>1 DEF TalkOK
      <3>2. c2s'[p] = <<Request("REPORT_ERROR", n, id[p])>>
        BY <1>1, <2>1, <3>1 DEF TypeOK
      <3>3. Head(c2s'[p]) = Request("REPORT_ERROR", n, id[p])
        BY <3>2
      <3> QED
        BY <3>3 DEF Says, Request
    <2>2. CASE ~CanWrite(p)
      BY <1>1, <2>2 DEF Says
    <2> QED
      BY <2>1, <2>2
  <1>4. LifeOK(p)'
    BY <1>0, <1>1, <1>2, <1>3 DEF LifeOK, HasId
  <1> HIDE DEF TypeOK, IInv, LInv
  <1> QED
    BY <1>1, <1>2, <1>4, ProxyLife

\* A proxy that goes says nothing more.
LEMMA GoesLife ==
  ASSUME TypeOK, IInv, LInv, NEW p \in Proxy, NEW s \in {"exited", "killed"},
         pc' = [pc EXCEPT ![p] = s],
         UNCHANGED <<accId, ledger, c2s, id, cmd>>
  PROVE  LInv'
  <1>1. pc'[p] = s /\ \A r \in Proxy \ {p} : pc'[r] = pc[r]
    BY DEF TypeOK
  <1>2. LifeOK(p)'
    BY <1>1 DEF LInv, LifeOK, Says, HasId
  <1> HIDE DEF TypeOK, IInv, LInv
  <1> QED
    BY <1>1, <1>2, ProxyLife

\* No step of a proxy's main disturbs the invariant.
LEMMA ProxyStepLife ==
  ASSUME TypeOK, IInv, VInv, LInv, NEW p \in Proxy, ProxyStep(p)
  PROVE  LInv'
  <1>0. /\ LifeOK(p) /\ AcceptOK(p) /\ TalkOK(p) /\ ProgressOK(p) /\ ResultOK(p)
        /\ parentId[p] \in Int /\ -1 \in Int
    BY DEF LInv, VInv, ProxyOK, IInv, TypeOK
  <1> HIDE DEF VInv, IInv, LInv
  \* A step that leaves the pipe empty.
  <1>a. ASSUME NEW s \in {"connected", "created", "decided", "waiting", "ran"},
               pc' = [pc EXCEPT ![p] = s], c2s[p] = <<>>,
               UNCHANGED <<accId, ledger, c2s>>,
               \A r \in Proxy \ {p} : id'[r] = id[r] /\ cmd'[r] = cmd[r],
               id[p] # -1 => id'[p] = id[p],
               s = "connected" => pc[p] = "start",
               s = "created" => ~HasId("decision", accId[p]),
               s = "ran" => cmd'[p] # "running"
        PROVE  LInv'
    <2>1. pc'[p] = s /\ \A r \in Proxy \ {p} : pc'[r] = pc[r]
      BY <1>a DEF TypeOK
    <2>2. \A op : ~Says(p, op)'
      BY <1>a DEF Says
    <2>3. LifeOK(p)'
      BY <1>0, <1>a, <2>1, <2>2 DEF LifeOK, HasId
    <2> HIDE DEF TypeOK
    <2> QED
      BY <1>a, <2>1, <2>3, ProxyLife
  \* A step that sends.
  <1>b. ASSUME NEW op \in {"CREATE", "MAKE_DECISION", "FINISH"}, NEW n, NEW v,
               NEW s \in {"creating", "deciding", "returning"},
               pc' = [pc EXCEPT ![p] = s],
               Send(p, Request(op, n, v)), c2s[p] = <<>>,
               UNCHANGED <<accId, ledger, id, cmd>>,
               op = "CREATE" => id[p] = -1 /\ ~HasId("created", accId[p]),
               op = "MAKE_DECISION" =>
                 id[p] # -1 /\ cmd[p] = "none" /\ ~HasId("decision", accId[p]),
               op = "FINISH" => cmd[p] # "running" /\ HasId("decision", accId[p])
        PROVE  LInv'
    <2>1. /\ pc'[p] = s /\ c2s'[p] = <<Request(op, n, v)>>
          /\ \A r \in Proxy \ {p} : pc'[r] = pc[r] /\ c2s'[r] = c2s[r]
      BY <1>b DEF TypeOK, Send
    <2>2. Head(c2s'[p]) = Request(op, n, v)
      BY <2>1
    <2>3. \A o : Says(p, o)' => o = op
      BY <2>2 DEF Says, Request
    <2>4. LifeOK(p)'
      BY <1>0, <1>b, <2>1, <2>3 DEF LifeOK, HasId
    <2> HIDE DEF TypeOK
    <2> QED
      BY <1>b, <2>1, <2>4, ProxyLife
  <1>1. CASE Connect(p)
    <2>1. /\ pc[p] = "start" /\ pc' = [pc EXCEPT ![p] = "connected"]
          /\ UNCHANGED <<accId, ledger, c2s, id, cmd>>
      BY <1>1 DEF Connect, serverVars, commandVars
    <2>2. c2s[p] = <<>>
      BY <1>0, <2>1 DEF TalkOK
    <2> QED
      BY <1>a, <2>1, <2>2
  <1>2. CASE Refuse(p)
    BY <1>0, <1>2, ReportLife DEF Refuse
  <1>3. CASE Create(p)
    <2>1. /\ pc[p] = "connected" /\ pc' = [pc EXCEPT ![p] = "creating"]
          /\ Send(p, Request("CREATE", parentId[p], 0))
          /\ UNCHANGED <<accId, ledger, id, cmd>>
      BY <1>3 DEF Create, serverVars, commandVars
    <2>2. c2s[p] = <<>> /\ id[p] = -1 /\ ~HasId("created", accId[p])
      BY <1>0, <2>1 DEF TalkOK, ProgressOK, LifeOK
    <2> QED
      BY <1>b, <2>1, <2>2
  <1>4. CASE WriteFails(p)
    BY <1>0, <1>4, ReportLife DEF WriteFails
  <1>5. CASE ReadFails(p)
    BY <1>0, <1>5, ReportLife DEF ReadFails, CanWrite
  <1>6. CASE ReceiveId(p)
    <2>1. /\ pc[p] = "creating" /\ s2c[p] # <<>>
          /\ pc' = [pc EXCEPT ![p] = "created"]
          /\ id' = [id EXCEPT ![p] = Head(s2c[p]).val]
          /\ UNCHANGED <<accId, ledger, c2s, cmd>>
      BY <1>6 DEF ReceiveId, serverVars, commandVars
    <2>2. c2s[p] = <<>> /\ id[p] = -1
      BY <1>0, <2>1 DEF TalkOK, ProgressOK
    <2>3. ~HasId("decision", accId[p])
      BY <2>2, OwnDecision
    <2>4. \A r \in Proxy \ {p} : id'[r] = id[r]
      BY <2>1 DEF TypeOK
    <2> QED
      BY <1>a, <2>1, <2>2, <2>3, <2>4
  <1>7. CASE HookMessage(p)
    BY <1>0, <1>7, ReportLife DEF HookMessage
  <1>8. CASE LocateFails(p)
    BY <1>0, <1>8, ReportLife DEF LocateFails
  <1>9. CASE MakeDecision(p)
    <2> DEFINE v == IF shape[p] = "emptyArg" THEN HoldsEmptyString ELSE Plain
    <2>1. /\ pc[p] = "created" /\ pc' = [pc EXCEPT ![p] = "deciding"]
          /\ Send(p, Request("MAKE_DECISION", parentId[p], v))
          /\ UNCHANGED <<accId, ledger, id, cmd>>
      BY <1>9 DEF MakeDecision, serverVars, commandVars
    <2>2. /\ c2s[p] = <<>> /\ id[p] # -1 /\ cmd[p] = "none"
          /\ ~HasId("decision", accId[p])
      BY <1>0, <2>1 DEF TalkOK, ProgressOK, ResultOK, Early, LifeOK
    <2> HIDE DEF v
    <2> QED
      BY <1>b, <2>1, <2>2
  <1>10. CASE ReceiveAction(p)
    <2>1. /\ pc[p] = "deciding" /\ s2c[p] # <<>>
          /\ pc' = [pc EXCEPT ![p] = "decided"]
          /\ UNCHANGED <<accId, ledger, c2s, id, cmd>>
      BY <1>10 DEF ReceiveAction, serverVars, commandVars
    <2>2. c2s[p] = <<>>
      BY <1>0, <2>1 DEF TalkOK
    <2> QED
      BY <1>a, <2>1, <2>2
  <1>11. CASE Spawn(p)
    <2>1. /\ pc[p] = "decided"
          /\ \/ pc' = [pc EXCEPT ![p] = "waiting"] /\ cmd' = [cmd EXCEPT ![p] = "running"]
             \/ pc' = [pc EXCEPT ![p] = "ran"] /\ cmd' = cmd
          /\ UNCHANGED <<accId, ledger, c2s, id>>
      BY <1>11 DEF Spawn, serverVars, pipeVars
    <2>2. c2s[p] = <<>> /\ cmd[p] = "none"
      BY <1>0, <2>1 DEF TalkOK, ResultOK, Early
    <2>3. \A r \in Proxy \ {p} : cmd'[r] = cmd[r]
      BY <2>1, SMTT(30) DEF TypeOK
    <2> QED
      BY <1>a, <2>1, <2>2, <2>3
  <1>12. CASE Wait(p)
    <2>1. /\ pc[p] = "waiting" /\ cmd[p] # "running"
          /\ pc' = [pc EXCEPT ![p] = "ran"]
          /\ UNCHANGED <<accId, ledger, c2s, id, cmd>>
      BY <1>12 DEF Wait, serverVars, pipeVars, commandVars
    <2>2. c2s[p] = <<>>
      BY <1>0, <2>1 DEF TalkOK
    <2> QED
      BY <1>a, <2>1, <2>2
  <1>13. CASE Finish(p)
    <2>1. /\ pc[p] = "ran" /\ pc' = [pc EXCEPT ![p] = "returning"]
          /\ Send(p, Request("FINISH", parentId[p], ret[p]))
          /\ UNCHANGED <<accId, ledger, id, cmd>>
      BY <1>13 DEF Finish, serverVars, commandVars
    <2>2. c2s[p] = <<>> /\ cmd[p] # "running" /\ HasId("decision", accId[p])
      BY <1>0, <2>1 DEF TalkOK, ProgressOK, LifeOK
    <2> QED
      BY <1>b, <2>1, <2>2
  <1>14. CASE Exit(p)
    <2>1. /\ pc' = [pc EXCEPT ![p] = "exited"]
          /\ UNCHANGED <<accId, ledger, c2s, id, cmd>>
      BY <1>14 DEF Exit, commandVars
    <2> QED
      BY <2>1, GoesLife
  <1>15. CASE BrokenPipe(p)
    <2>1. /\ pc' = [pc EXCEPT ![p] = "killed"]
          /\ UNCHANGED <<accId, ledger, c2s, id, cmd>>
      BY <1>15 DEF BrokenPipe, Dies, commandVars
    <2> QED
      BY <2>1, GoesLife
  <1> QED
    BY <1>1, <1>2, <1>3, <1>4, <1>5, <1>6, <1>7, <1>8, <1>9, <1>10, <1>11, <1>12,
       <1>13, <1>14, <1>15 DEF ProxyStep

\* A new number is in no entry yet.
LEMMA TakesLife ==
  ASSUME TypeOK, IInv, LInv, NEW p \in Proxy, InBacklog(p),
         UNCHANGED <<ledger, c2s, pc, id, cmd>>,
         \/ accId' = [accId EXCEPT ![p] = idGen + 1]
         \/ accId' = accId
  PROVE  LInv'
  <1>0. LifeOK(p)
    BY DEF LInv
  <1>1. accId[p] = 0 /\ \A q \in Proxy : accId[q] < idGen + 1
    BY Backlog
  <1>2. /\ accId'[p] \in {0, idGen + 1}
        /\ \A r \in Proxy \ {p} : accId'[r] = accId[r]
    BY <1>1 DEF TypeOK
  <1>3. ASSUME NEW ev \in {"created", "decision"}
        PROVE  ~HasId(ev, accId[p])'
    <2>1. ASSUME NEW e \in ledger, e.ev = ev
          PROVE  e.id # 0 /\ e.id # idGen + 1
      <3>1. PICK q \in Proxy : e.id = accId[q] /\ e.id # 0
        BY <2>1 DEF IInv, EntryOK, LInv, DecisionOK
      <3> QED
        BY <1>1, <3>1 DEF TypeOK
    <2> QED
      BY <1>2, <2>1 DEF HasId
  <1>4. ~HasId("decision", accId[p])
    BY <1>1, OwnDecision
  <1>5. LifeOK(p)'
    BY <1>0, <1>3, <1>4 DEF LifeOK, Says
  <1> HIDE DEF TypeOK, IInv, LInv
  <1> QED
    BY <1>1, <1>2, <1>5, LifeOfOne

\* The coroutine has taken the one message.
LEMMA ServesLife ==
  ASSUME TypeOK, IInv, LInv, NEW p \in Proxy, c2s'[p] = <<>>,
         \A r \in Proxy \ {p} : c2s'[r] = c2s[r],
         UNCHANGED <<accId, pc, id, cmd>>, ledger \subseteq ledger',
         \A e \in ledger' \ ledger :
           e.ev \in {"created", "decision"} =>
             /\ e.id = accId[p] /\ accId[p] # 0
             /\ e.ev = "decision" => id[p] # -1
             /\ pc[p] \notin {"off", "start", "connected", "created"}
  PROVE  LInv'
  <1>0. LifeOK(p)
    BY DEF LInv
  <1>1. \A op : ~Says(p, op)'
    BY DEF Says
  <1>2. ASSUME NEW ev \in {"created", "decision"}, HasId(ev, accId[p])'
        PROVE  \/ HasId(ev, accId[p])
               \/ pc[p] \notin {"off", "start", "connected", "created"}
    BY <1>2 DEF HasId
  <1>3. LifeOK(p)'
    BY <1>0, <1>1, <1>2 DEF LifeOK
  <1> HIDE DEF TypeOK, IInv, LInv
  <1> QED
    BY <1>3, LifeOfOne

\* No step of the event loop for one connection disturbs the invariant.
LEMMA AcceptorStepLife ==
  ASSUME TypeOK, IInv, LInv, NEW p \in Proxy, AcceptorStep(p)
  PROVE  LInv'
  <1>0. LifeOK(p)
    BY DEF LInv
  <1> HIDE DEF IInv, LInv
  \* Every message is the only one on its pipe.
  <1>a. ASSUME NEW op, Reading(p, op), c2s' = [c2s EXCEPT ![p] = Tail(c2s[p])]
        PROVE  /\ accId[p] # 0 /\ c2s'[p] = <<>>
               /\ \A r \in Proxy \ {p} : c2s'[r] = c2s[r]
               /\ pc[p] \in {"creating", "deciding", "returning", "exited", "killed"}
    <2>1. /\ accId[p] # 0 /\ Tail(c2s[p]) = <<>>
          /\ pc[p] \in {"creating", "deciding", "returning", "exited", "killed"}
      BY <1>a, HeadOfPipe
    <2> QED
      BY <1>a, <2>1 DEF TypeOK
  <1>1. CASE Accept(p) \/ AcceptFails(p)
    <2>1. /\ InBacklog(p) /\ UNCHANGED <<ledger, c2s, pc, id, cmd>>
          /\ \/ accId' = [accId EXCEPT ![p] = idGen + 1]
             \/ accId' = accId
      BY <1>1 DEF Accept, AcceptFails, proxyVars, commandVars
    <2> HIDE DEF TypeOK
    <2> QED
      BY <2>1, TakesLife
  <1>2. CASE ServeCreate(p)
    <2> DEFINE e == Entry("created", accId[p], Head(c2s[p]).parent)
    <2>1. /\ Reading(p, "CREATE")
          /\ c2s' = [c2s EXCEPT ![p] = Tail(c2s[p])]
          /\ ledger' = ledger \cup {e}
          /\ UNCHANGED <<accId, pc, id, cmd>>
      BY <1>2 DEF ServeCreate, Record, proxyVars, commandVars
    <2>2. e.ev = "created" /\ e.id = accId[p]
      BY DEF Entry
    <2> HIDE DEF TypeOK, e
    <2> QED
      BY <1>a, <2>1, <2>2, ServesLife
  <1>3. CASE ServeDecision(p)
    <2> DEFINE e == Entry("decision", accId[p], 0)
    <2>1. /\ Reading(p, "MAKE_DECISION")
          /\ c2s' = [c2s EXCEPT ![p] = Tail(c2s[p])]
          /\ ledger' = ledger \cup {e}
          /\ UNCHANGED <<accId, pc, id, cmd>>
      BY <1>3 DEF ServeDecision, Record, proxyVars, commandVars
    <2>2. e.ev = "decision" /\ e.id = accId[p]
      BY DEF Entry
    <2>3. id[p] # -1
      BY <1>0, <2>1 DEF LifeOK, Says, Reading
    <2> HIDE DEF TypeOK, e
    <2> QED
      BY <1>a, <2>1, <2>2, <2>3, ServesLife
  <1>4. CASE DecisionUnreadable(p)
    <2>1. /\ Reading(p, "MAKE_DECISION")
          /\ c2s' = [c2s EXCEPT ![p] = Tail(c2s[p])]
          /\ UNCHANGED <<accId, ledger, pc, id, cmd>>
      BY <1>4 DEF DecisionUnreadable, proxyVars, commandVars
    <2> HIDE DEF TypeOK
    <2> QED
      BY <1>a, <2>1, ServesLife
  <1>5. CASE ServeFinish(p)
    <2>1. /\ Reading(p, "FINISH")
          /\ c2s' = [c2s EXCEPT ![p] = Tail(c2s[p])]
          /\ Record("finish", accId[p], Head(c2s[p]).val)
          /\ UNCHANGED <<accId, pc, id, cmd>>
      BY <1>5 DEF ServeFinish, proxyVars, commandVars
    <2>2. /\ ledger \subseteq ledger'
          /\ \A e \in ledger' \ ledger : e.ev \notin {"created", "decision"}
      BY <2>1 DEF Record, Entry
    <2> HIDE DEF TypeOK
    <2> QED
      BY <1>a, <2>1, <2>2, ServesLife
  <1>6. CASE ServeError(p)
    <2>1. /\ Reading(p, "REPORT_ERROR")
          /\ c2s' = [c2s EXCEPT ![p] = Tail(c2s[p])]
          /\ Record("error", Head(c2s[p]).val, Head(c2s[p]).parent)
          /\ UNCHANGED <<accId, pc, id, cmd>>
      BY <1>6 DEF ServeError, proxyVars, commandVars
    <2>2. /\ ledger \subseteq ledger'
          /\ \A e \in ledger' \ ledger : e.ev \notin {"created", "decision"}
      BY <2>1 DEF Record, Entry
    <2> HIDE DEF TypeOK
    <2> QED
      BY <1>a, <2>1, <2>2, ServesLife
  <1>7. CASE Disconnect(p)
    <2>1. c2s[p] = <<>> /\ UNCHANGED <<accId, ledger, c2s, pc, id, cmd>>
      BY <1>7 DEF Disconnect, pipeVars, proxyVars, commandVars
    <2> HIDE DEF TypeOK
    <2> QED
      BY <2>1, ServesLife
  <1> QED
    BY <1>1, <1>2, <1>3, <1>4, <1>5, <1>6, <1>7 DEF AcceptorStep

\* Every step keeps the invariant.
LEMMA NextLInv == TypeOK /\ IInv /\ VInv /\ LInv /\ [Next]_vars => LInv'
  <1> SUFFICES ASSUME TypeOK, IInv, VInv, LInv, [Next]_vars
               PROVE  LInv'
    OBVIOUS
  <1> HIDE DEF TypeOK, IInv, VInv, LInv
  \* A step that changes nothing LInv speaks of.
  <1>a. ASSUME UNCHANGED <<accId, ledger, c2s, pc, id, cmd>>
        PROVE  LInv'
    BY <1>a DEF LInv, LifeOK, DecisionOK, Says, HasId
  <1>1. CASE Boot \/ BootFails
    <2>1. /\ srv = "boot" /\ Root \in Proxy
          /\ pc' = [pc EXCEPT ![Root] = "start"] \/ pc' = pc
          /\ UNCHANGED <<accId, ledger, conn, c2s, id, cmd>>
      BY <1>1, RootAssumption DEF Boot, BootFails, pipeVars, proxyVars, commandVars
    <2>2. LifeOK(Root) /\ pc[Root] = "off"
      BY <2>1 DEF LInv, IInv, AcceptOK
    <2>3. pc'[Root] \in {"off", "start"} /\ \A r \in Proxy \ {Root} : pc'[r] = pc[r]
      BY <2>1, <2>2 DEF TypeOK
    <2>4. LifeOK(Root)'
      BY <2>1, <2>2, <2>3 DEF LifeOK, Says, HasId
    <2> QED
      BY <2>1, <2>3, <2>4, ProxyLife
  <1>2. CASE ServerEnds \/ ServerCrashes \/ FreedCrashes
    BY <1>a, <1>2, TeardownDrops, ConnectionsDropped
       DEF ServerEnds, ServerCrashes, FreedCrashes, Dropped, proxyVars, commandVars
  <1>3. ASSUME NEW p \in Proxy, ProxyStep(p)
        PROVE  LInv'
    BY <1>3, ProxyStepLife
  <1>4. ASSUME NEW p \in Proxy, AcceptorStep(p)
        PROVE  LInv'
    BY <1>4, AcceptorStepLife
  <1>5. ASSUME NEW p \in Proxy, ServerBrokenPipe(p)
        PROVE  LInv'
    BY <1>a, <1>5 DEF ServerBrokenPipe, DropConnections, proxyVars, commandVars
  <1>6. ASSUME NEW p \in Proxy, Kill(p)
        PROVE  LInv'
    <2>1. /\ pc' = [pc EXCEPT ![p] = "killed"]
          /\ UNCHANGED <<accId, ledger, c2s, id, cmd>>
      BY <1>6 DEF Kill, Dies, commandVars
    <2> QED
      BY <2>1, GoesLife
  <1>7. ASSUME NEW p \in Proxy, CommandEnds(p)
        PROVE  LInv'
    <2>1. /\ cmd[p] = "running"
          /\ \/ cmd' = [cmd EXCEPT ![p] = "exited"]
             \/ cmd' = [cmd EXCEPT ![p] = "signalled"]
          /\ UNCHANGED <<accId, ledger, c2s, pc, id>>
      BY <1>7 DEF CommandEnds, serverVars, pipeVars, proxyVars
    <2>2. cmd'[p] # "running" /\ \A r \in Proxy \ {p} : cmd'[r] = cmd[r]
      BY <2>1 DEF TypeOK
    <2>3. LifeOK(p)'
      BY <2>1, <2>2 DEF LInv, LifeOK, Says, HasId
    <2> QED
      BY <2>1, <2>2, <2>3, ProxyLife
  <1>8. ASSUME NEW q \in Proxy, NEW p \in Proxy, Launch(q, p)
        PROVE  LInv'
    <2>1. /\ pc[p] = "off" /\ pc' = [pc EXCEPT ![p] = "start"]
          /\ UNCHANGED <<accId, ledger, c2s, id, cmd>>
      BY <1>8 DEF Launch, serverVars, pipeVars, commandVars
    <2>2. pc'[p] = "start" /\ \A r \in Proxy \ {p} : pc'[r] = pc[r]
      BY <2>1 DEF TypeOK
    <2>3. LifeOK(p)'
      BY <2>1, <2>2 DEF LInv, LifeOK, Says, HasId
    <2> QED
      BY <2>1, <2>2, <2>3, ProxyLife
  <1>9. CASE UNCHANGED vars
    BY <1>a, <1>9 DEF vars, serverVars, pipeVars, proxyVars, commandVars
  <1> QED
    BY <1>1, <1>2, <1>3, <1>4, <1>5, <1>6, <1>7, <1>8, <1>9 DEF Next, Terminated

\* Requests and the ledger agree in every reachable state.
THEOREM AsksForTheNext == Spec => []LInv
  <1>1. Init => LInv
    BY DEF Init, LInv, LifeOK, Says, HasId
  <1> QED
    BY <1>1, NextLInv, TypeCorrect, Agreement, VerdictsAgree, PTL DEF Spec

-----------------------------------------------------------------------------
(* The refinement: what CommandLifecycle sees of a proxy.                  *)

AllInv == TypeOK /\ IInv /\ VInv /\ LInv

Phases == {"created", "decision", "finish"}

\* What the ledger says of r's number, in CommandLifecycle's words.
Number(r) == IF HasEntry("created", r) THEN accId[r] ELSE 0

SameView(r) ==
  /\ Phase(r)' = Phase(r)
  /\ Number(r)' = Number(r)
  /\ RecordedParent(r)' = RecordedParent(r)

\* A step that neither records a phase of r nor starts or ends its command.
Kept(r) ==
  /\ \A ev \in Phases : HasId(ev, accId[r])' <=> HasId(ev, accId[r])
  /\ cmd'[r] = cmd[r]
  /\ HasId("created", accId[r]) =>
       accId'[r] = accId[r] /\ parentId'[r] = parentId[r]

\* Every entry is about a connection that has taken a number.
LEMMA EntryIsId ==
  ASSUME AllInv, NEW p \in Proxy, NEW ev \in Phases
  PROVE  HasEntry(ev, p) <=> HasId(ev, accId[p])
  <1>1. ASSUME NEW e \in ledger, e.ev = ev
        PROVE  e.id # 0
    <2>1. CASE ev = "created"
      BY <1>1, <2>1 DEF AllInv, IInv, EntryOK
    <2>2. CASE ev = "decision"
      BY <1>1, <2>2 DEF AllInv, LInv, DecisionOK
    <2>3. CASE ev = "finish"
      <3>1. VerdictOK(e) /\ FinishHasId(e)
        BY DEF AllInv, VInv
      <3> QED
        BY <1>1, <2>3, <3>1 DEF VerdictOK, FinishHasId, Verdicts, Speaks
    <2> QED
      BY <2>1, <2>2, <2>3 DEF Phases
  <1>2. acc[p] = "none" => accId[p] = 0
    BY DEF AllInv, IInv, AcceptOK
  <1> QED
    BY <1>1, <1>2 DEF HasEntry, HasId

\* The phase by what is recorded and what the command does, and the recorded
\* number and parent: those of the proxy.
SeenOK(p) ==
  /\ HasId("finish", accId[p]) => Phase(p) = "reported"
  /\ ~HasId("finish", accId[p]) =>
       /\ cmd[p] \in {"exited", "signalled"} => Phase(p) = "over"
       /\ cmd[p] = "running" => Phase(p) = "running"
       /\ cmd[p] = "none" =>
            /\ HasId("decision", accId[p]) => Phase(p) = "decided"
            /\ ~HasId("decision", accId[p]) =>
                 /\ HasId("created", accId[p]) => Phase(p) = "registered"
                 /\ ~HasId("created", accId[p]) => Phase(p) = "new"
  /\ HasId("created", accId[p]) =>
       Number(p) = accId[p] /\ RecordedParent(p) = parentId[p]
  /\ ~HasId("created", accId[p]) => Number(p) = 0 /\ RecordedParent(p) = 0

\* What CommandLifecycle sees of a proxy is read off the entries under its
\* number: the one creation among them names the parent it was started with.
LEMMA Seen == AllInv => \A p \in Proxy : SeenOK(p)
  <1> SUFFICES ASSUME AllInv, NEW p \in Proxy
               PROVE  SeenOK(p)
    OBVIOUS
  <1>1. \A ev \in Phases : HasEntry(ev, p) <=> HasId(ev, accId[p])
    BY EntryIsId
  <1>2. /\ HasEntry("finish", p) <=> HasId("finish", accId[p])
        /\ HasEntry("decision", p) <=> HasId("decision", accId[p])
        /\ HasEntry("created", p) <=> HasId("created", accId[p])
    BY <1>1 DEF Phases
  <1>3. ASSUME HasId("created", accId[p])
        PROVE  RecordedParent(p) = parentId[p]
    <2> DEFINE e == CHOOSE f \in ledger : f.ev = "created" /\ f.id = accId[p]
    <2>1. e \in ledger /\ e.ev = "created" /\ e.id = accId[p]
      BY <1>3 DEF HasId
    <2>2. RecordedParent(p) = e.val
      BY <1>2, <1>3 DEF RecordedParent
    <2> HIDE DEF e
    <2>3. PICK q \in Proxy : e.id = accId[q] /\ e.id # 0 /\ e.val = parentId[q]
      BY <2>1 DEF AllInv, IInv, EntryOK
    <2>4. q = p
      BY <2>1, <2>3 DEF AllInv, IInv, AcceptOK
    <2> QED
      BY <2>2, <2>3, <2>4
  <1> QED
    BY <1>2, <1>3 DEF SeenOK, Phase, Number, RecordedParent

\* ... and in the next state.
LEMMA SeenNext == AllInv' => \A p \in Proxy : SeenOK(p)'
  <1>1. (AllInv => \A p \in Proxy : SeenOK(p))'
    BY Seen, PTL
  <1> QED
    BY <1>1

\* What is kept of a proxy is all that CommandLifecycle sees of it.
LEMMA KeptView ==
  ASSUME AllInv, AllInv', NEW r \in Proxy, Kept(r)
  PROVE  SameView(r)
  <1>0. /\ HasId("finish", accId[r])' <=> HasId("finish", accId[r])
        /\ HasId("decision", accId[r])' <=> HasId("decision", accId[r])
        /\ HasId("created", accId[r])' <=> HasId("created", accId[r])
    BY DEF Kept, Phases
  <1>1. cmd[r] \in {"none", "running", "exited", "signalled"}
    BY DEF AllInv, TypeOK
  <1>2. SeenOK(r) /\ SeenOK(r)'
    BY Seen, SeenNext
  <1> QED
    BY <1>0, <1>1, <1>2 DEF SeenOK, Kept, SameView

\* A step about proxy p keeps what is said of the others.
LEMMA OthersKept ==
  ASSUME AllInv, NEW p \in Proxy, ledger \subseteq ledger',
         \A e \in ledger' \ ledger :
           e.ev \in Phases => e.id = accId[p] /\ accId[p] # 0,
         \A r \in Proxy \ {p} :
           accId'[r] = accId[r] /\ cmd'[r] = cmd[r] /\ parentId'[r] = parentId[r]
  PROVE  \A r \in Proxy \ {p} : Kept(r)
  <1> SUFFICES ASSUME NEW r \in Proxy \ {p}
               PROVE  Kept(r)
    OBVIOUS
  <1>0. AcceptOK(p)
    BY DEF AllInv, IInv
  <1>1. ASSUME NEW ev \in Phases
        PROVE  HasId(ev, accId[r])' <=> HasId(ev, accId[r])
    <2>1. HasId(ev, accId[r]) => HasId(ev, accId[r])'
      BY DEF HasId
    <2>2. ASSUME NEW e \in ledger', e.ev = ev, e.id = accId[r]
          PROVE  e \in ledger
      BY <1>0, <2>2 DEF AcceptOK
    <2> QED
      BY <2>1, <2>2 DEF HasId
  <1> QED
    BY <1>1 DEF Kept

\* When every proxy looks the same, CommandLifecycle stutters ...
LEMMA SameStutters ==
  ASSUME \A r \in Proxy : SameView(r)
  PROVE  UNCHANGED Lifecycle!vars
  <1>1. [p \in Proxy |-> Phase(p)]' = [p \in Proxy |-> Phase(p)]
    BY DEF SameView
  <1>2. [p \in Proxy |-> Number(p)]' = [p \in Proxy |-> Number(p)]
    BY DEF SameView
  <1>3. [p \in Proxy |-> RecordedParent(p)]' = [p \in Proxy |-> RecordedParent(p)]
    BY DEF SameView
  <1> QED
    BY <1>1, <1>2, <1>3 DEF Lifecycle!vars, Number

\* ... and when one phase changes it moves.
LEMMA MoveImplements ==
  ASSUME NEW p \in Proxy, \A r \in Proxy \ {p} : SameView(r),
         NEW from, NEW to, Phase(p) \in from, Phase(p)' = to,
         Number(p)' = Number(p), RecordedParent(p)' = RecordedParent(p)
  PROVE  Lifecycle!Move(p, from, to)
  <1>1. [r \in Proxy |-> Phase(r)]' = [[r \in Proxy |-> Phase(r)] EXCEPT ![p] = to]
    BY DEF SameView
  <1>2. [r \in Proxy |-> Number(r)]' = [r \in Proxy |-> Number(r)]
    BY DEF SameView
  <1>3. [r \in Proxy |-> RecordedParent(r)]' = [r \in Proxy |-> RecordedParent(r)]
    BY DEF SameView
  <1> QED
    BY <1>1, <1>2, <1>3 DEF Lifecycle!Move, Number

\* A proxy on its way, or whose last message is under way, has no finish yet.
LEMMA NoFinishYet ==
  ASSUME AllInv, NEW p \in Proxy, pc[p] \notin Past \/ c2s[p] # <<>>
  PROVE  ~HasId("finish", accId[p])
  <1> SUFFICES ASSUME NEW e \in ledger, e.ev = "finish", e.id = accId[p]
               PROVE  FALSE
    BY DEF HasId
  <1>1. PICK q \in Proxy : Speaks(q, e)
    BY DEF AllInv, VInv, VerdictOK, FinishHasId, Verdicts
  <1>2. q = p
    BY <1>1 DEF Speaks, AllInv, IInv, AcceptOK
  <1> QED
    BY <1>1, <1>2 DEF Speaks

\* A step that records none of the phases and leaves the commands alone.
LEMMA QuietStutters ==
  ASSUME AllInv, AllInv', UNCHANGED <<accId, cmd, parentId>>,
         ledger \subseteq ledger', \A e \in ledger' \ ledger : e.ev \notin Phases
  PROVE  UNCHANGED Lifecycle!vars
  <1>1. ASSUME NEW r \in Proxy
        PROVE  Kept(r)
    BY DEF Kept, HasId
  <1> HIDE DEF AllInv
  <1> QED
    BY <1>1, KeptView, SameStutters

\* The proxy's part: its command starts.
LEMMA SpawnImplements ==
  ASSUME AllInv, AllInv', NEW p \in Proxy, Spawn(p)
  PROVE  Lifecycle!Run(p) \/ UNCHANGED Lifecycle!vars
  <1>0. /\ TypeOK /\ AcceptOK(p) /\ ProgressOK(p) /\ ResultOK(p) /\ pc[p] = "decided"
    BY DEF AllInv, IInv, VInv, ProxyOK, Spawn
  <1>1. ~HasId("finish", accId[p])
    BY <1>0, NoFinishYet DEF Past
  <1> HIDE DEF AllInv
  <1>2. UNCHANGED <<accId, ledger, parentId>>
    BY DEF Spawn, serverVars
  <1>3. CASE cmd' = [cmd EXCEPT ![p] = "running"]
    <2>1. cmd'[p] = "running" /\ \A r \in Proxy \ {p} : cmd'[r] = cmd[r]
      BY <1>0, <1>3 DEF TypeOK
    <2>2. \A r \in Proxy \ {p} : SameView(r)
      BY <1>2, <2>1, OthersKept, KeptView
    <2>3. /\ cmd[p] = "none" /\ HasId("created", accId[p]) /\ HasId("decision", accId[p])
      BY <1>0 DEF ProgressOK, ResultOK, Early
    <2>4. SeenOK(p) /\ SeenOK(p)'
      BY Seen, SeenNext
    <2>5. \A ev : HasId(ev, accId[p])' <=> HasId(ev, accId[p])
      BY <1>2 DEF HasId
    <2>6. Phase(p) = "decided" /\ Phase(p)' = "running"
      BY <1>1, <2>1, <2>3, <2>4, <2>5 DEF SeenOK
    <2>7. Number(p)' = Number(p) /\ RecordedParent(p)' = RecordedParent(p)
      BY <1>2, <2>3, <2>4, <2>5 DEF SeenOK
    <2> QED
      BY <2>2, <2>6, <2>7, MoveImplements DEF Lifecycle!Run
  <1>4. CASE UNCHANGED cmd
    BY <1>2, <1>4, QuietStutters
  <1> QED
    BY <1>3, <1>4 DEF Spawn

\* The end of a command.
LEMMA CommandEndsImplements ==
  ASSUME AllInv, AllInv', NEW p \in Proxy, CommandEnds(p)
  PROVE  Lifecycle!End(p) \/ UNCHANGED Lifecycle!vars
  <1>0. TypeOK /\ ProgressOK(p)
    BY DEF AllInv, IInv
  <1> HIDE DEF AllInv
  <1>1. /\ cmd[p] = "running"
        /\ \/ cmd' = [cmd EXCEPT ![p] = "exited"]
           \/ cmd' = [cmd EXCEPT ![p] = "signalled"]
        /\ UNCHANGED <<accId, ledger, parentId>>
    BY DEF CommandEnds, serverVars, proxyVars
  <1>2. /\ cmd'[p] \in {"exited", "signalled"}
        /\ \A r \in Proxy \ {p} : cmd'[r] = cmd[r]
    BY <1>0, <1>1 DEF TypeOK
  <1>3. \A r \in Proxy \ {p} : SameView(r)
    BY <1>1, <1>2, OthersKept, KeptView
  <1>4. SeenOK(p) /\ SeenOK(p)'
    BY Seen, SeenNext
  <1>5. \A ev : HasId(ev, accId[p])' <=> HasId(ev, accId[p])
    BY <1>1 DEF HasId
  <1>6. Number(p)' = Number(p) /\ RecordedParent(p)' = RecordedParent(p)
    BY <1>1, <1>4, <1>5 DEF SeenOK
  <1>7. CASE HasId("finish", accId[p])
    <2>1. SameView(p)
      BY <1>4, <1>5, <1>6, <1>7 DEF SeenOK, SameView
    <2> QED
      BY <1>3, <2>1, SameStutters
  <1>8. CASE ~HasId("finish", accId[p])
    <2>1. Phase(p) = "running" /\ Phase(p)' = "over"
      BY <1>1, <1>2, <1>4, <1>5, <1>8 DEF SeenOK
    <2> QED
      BY <1>3, <1>6, <2>1, MoveImplements DEF Lifecycle!End
  <1> QED
    BY <1>7, <1>8

\* The coroutine records a creation, a decision or a finish.
LEMMA RecordsOne ==
  ASSUME AllInv, AllInv', NEW p \in Proxy, NEW ev \in Phases, NEW v, accId[p] # 0,
         Record(ev, accId[p], v), UNCHANGED <<accId, cmd, parentId>>
  PROVE  /\ \A r \in Proxy \ {p} : SameView(r)
         /\ HasId(ev, accId[p])'
         /\ \A o \in Phases \ {ev} : HasId(o, accId[p])' <=> HasId(o, accId[p])
  <1> DEFINE e == Entry(ev, accId[p], v)
  <1>1. ledger' = ledger \cup {e} /\ e.ev = ev /\ e.id = accId[p]
    BY DEF Record, Entry
  <1> HIDE DEF AllInv, e
  <1>2. \A r \in Proxy \ {p} : SameView(r)
    BY <1>1, OthersKept, KeptView
  <1> QED
    BY <1>1, <1>2 DEF HasId

\* A decision.
LEMMA DecisionImplements ==
  ASSUME AllInv, AllInv', NEW p \in Proxy, ServeDecision(p)
  PROVE  Lifecycle!Decide(p)
  <1>0. /\ TypeOK /\ IInv /\ ProgressOK(p) /\ LifeOK(p)
        /\ Reading(p, "MAKE_DECISION")
    BY DEF AllInv, IInv, LInv, ServeDecision
  <1>1. /\ Record("decision", accId[p], 0)
        /\ UNCHANGED <<accId, cmd, parentId>>
    BY DEF ServeDecision, proxyVars, commandVars
  <1>2. accId[p] # 0
    BY <1>0, HeadOfPipe
  <1>3. /\ cmd[p] = "none" /\ HasId("created", accId[p])
        /\ ~HasId("decision", accId[p])
    BY <1>0 DEF Reading, Says, LifeOK, ProgressOK
  <1>4. ~HasId("finish", accId[p])
    BY <1>0, NoFinishYet DEF Reading
  <1> HIDE DEF AllInv
  <1>5. /\ \A r \in Proxy \ {p} : SameView(r)
        /\ HasId("decision", accId[p])'
        /\ \A o \in Phases \ {"decision"} : HasId(o, accId[p])' <=> HasId(o, accId[p])
    BY <1>1, <1>2, RecordsOne DEF Phases
  <1>6. HasId("created", accId[p])' /\ ~HasId("finish", accId[p])'
    BY <1>3, <1>4, <1>5 DEF Phases
  <1>7. SeenOK(p) /\ SeenOK(p)'
    BY Seen, SeenNext
  <1>8. /\ Phase(p) = "registered" /\ Phase(p)' = "decided"
        /\ Number(p)' = Number(p) /\ RecordedParent(p)' = RecordedParent(p)
    BY <1>1, <1>3, <1>4, <1>5, <1>6, <1>7 DEF SeenOK
  <1> QED
    BY <1>5, <1>8, MoveImplements DEF Lifecycle!Decide

\* A finish.
LEMMA FinishImplements ==
  ASSUME AllInv, AllInv', NEW p \in Proxy, ServeFinish(p)
  PROVE  Lifecycle!Report(p)
  <1>0. /\ TypeOK /\ IInv /\ LInv /\ ProgressOK(p) /\ LifeOK(p)
        /\ Reading(p, "FINISH")
        /\ cmd[p] \in {"none", "running", "exited", "signalled"}
    BY DEF AllInv, IInv, LInv, ServeFinish, TypeOK
  <1>1. /\ Record("finish", accId[p], Head(c2s[p]).val)
        /\ UNCHANGED <<accId, cmd, parentId>>
    BY DEF ServeFinish, proxyVars, commandVars
  <1>2. accId[p] # 0
    BY <1>0, HeadOfPipe
  <1>3. cmd[p] # "running" /\ HasId("decision", accId[p])
    BY <1>0 DEF Reading, Says, LifeOK
  <1>4. HasId("created", accId[p])
    BY <1>0, <1>3, OwnDecision DEF ProgressOK
  <1>5. ~HasId("finish", accId[p])
    BY <1>0, NoFinishYet DEF Reading
  <1> HIDE DEF AllInv
  <1>6. /\ \A r \in Proxy \ {p} : SameView(r)
        /\ HasId("finish", accId[p])'
        /\ \A o \in Phases \ {"finish"} : HasId(o, accId[p])' <=> HasId(o, accId[p])
    BY <1>1, <1>2, RecordsOne DEF Phases
  <1>7. HasId("created", accId[p])'
    BY <1>4, <1>6 DEF Phases
  <1>8. SeenOK(p) /\ SeenOK(p)'
    BY Seen, SeenNext
  <1>9. /\ Phase(p) \in {"decided", "over"} /\ Phase(p)' = "reported"
        /\ Number(p)' = Number(p) /\ RecordedParent(p)' = RecordedParent(p)
    BY <1>0, <1>1, <1>3, <1>4, <1>5, <1>6, <1>7, <1>8 DEF SeenOK
  <1> QED
    BY <1>6, <1>9, MoveImplements DEF Lifecycle!Report

\* A creation: the number is new, and the parent's was recorded before.
LEMMA CreateImplements ==
  ASSUME AllInv, AllInv', NEW p \in Proxy, ServeCreate(p)
  PROVE  Lifecycle!Register(p)
  <1>0. /\ TypeOK /\ IInv /\ LInv /\ ProgressOK(p) /\ LifeOK(p) /\ TreeOK(p)
        /\ AcceptOK(p) /\ Reading(p, "CREATE")
    BY DEF AllInv, IInv, LInv, ServeCreate
  <1>1. /\ Record("created", accId[p], Head(c2s[p]).parent)
        /\ UNCHANGED <<accId, cmd, parentId>>
    BY DEF ServeCreate, proxyVars, commandVars
  <1>2. accId[p] # 0 /\ pc[p] # "off"
    BY <1>0, HeadOfPipe
  <1>3. id[p] = -1 /\ cmd[p] = "none" /\ ~HasId("created", accId[p])
    BY <1>0 DEF Reading, Says, LifeOK, ProgressOK
  <1>4. ~HasId("decision", accId[p]) /\ ~HasId("finish", accId[p])
    BY <1>0, <1>3, OwnDecision, NoFinishYet DEF Reading
  <1>5. /\ \A r \in Proxy \ {p} : SameView(r)
        /\ HasId("created", accId[p])'
        /\ \A o \in Phases \ {"created"} : HasId(o, accId[p])' <=> HasId(o, accId[p])
    <2> HIDE DEF AllInv
    <2> QED
      BY <1>1, <1>2, RecordsOne DEF Phases
  <1>6. ~HasId("decision", accId[p])' /\ ~HasId("finish", accId[p])'
    BY <1>4, <1>5 DEF Phases
  <1>7. (\A r \in Proxy : SeenOK(r)) /\ SeenOK(p)'
    BY Seen, SeenNext
  <1>8. /\ Phase(p) = "new" /\ Phase(p)' = "registered"
        /\ Number(p)' = accId[p] /\ RecordedParent(p)' = parentId[p]
    BY <1>1, <1>3, <1>4, <1>5, <1>6, <1>7 DEF SeenOK
  \* The numbers that have been given are those of other connections.
  <1>9. ASSUME NEW d \in Proxy
        PROVE  Number(d) # accId[p]
    <2>1. CASE HasId("created", accId[d])
      BY <1>0, <1>3, <1>7, <2>1 DEF SeenOK, AcceptOK
    <2>2. CASE ~HasId("created", accId[d])
      BY <1>2, <1>7, <2>2 DEF SeenOK
    <2> QED
      BY <2>1, <2>2
  <1>10. parentId[p] # 0 =>
           \E d \in Proxy : Phase(d) # "new" /\ Number(d) = parentId[p]
    <2> SUFFICES ASSUME parentId[p] # 0
                 PROVE  \E d \in Proxy : Phase(d) # "new" /\ Number(d) = parentId[p]
      OBVIOUS
    <2>1. HasId("created", parentId[p])
      BY <1>0, <1>2 DEF TreeOK
    <2>2. PICK e \in ledger : e.ev = "created" /\ e.id = parentId[p]
      BY <2>1 DEF HasId
    <2>3. PICK d \in Proxy : e.id = accId[d]
      BY <2>2 DEF AllInv, IInv, EntryOK
    <2>4. HasId("created", accId[d]) /\ SeenOK(d)
      BY <1>7, <2>1, <2>2, <2>3
    <2>5. cmd[d] \in {"none", "running", "exited", "signalled"}
      BY <1>0 DEF TypeOK
    <2>6. Phase(d) # "new" /\ Number(d) = parentId[p]
      BY <2>2, <2>3, <2>4, <2>5 DEF SeenOK
    <2> QED
      BY <2>6
  <1> DEFINE phase == [r \in Proxy |-> Phase(r)]
             number == [r \in Proxy |-> Number(r)]
             parent == [r \in Proxy |-> RecordedParent(r)]
  <1>11. /\ phase[p] = "new"
         /\ phase' = [phase EXCEPT ![p] = "registered"]
         /\ number' = [number EXCEPT ![p] = number'[p]]
         /\ parent' = [parent EXCEPT ![p] = parent'[p]]
    BY <1>5, <1>8 DEF SameView
  <1>12. /\ number'[p] = accId[p] /\ parent'[p] = parentId[p]
         /\ \A d \in Proxy : phase[d] = Phase(d) /\ number[d] = Number(d)
    BY <1>8
  <1> HIDE DEF phase, number, parent
  <1>13. /\ number'[p] \notin {0} \cup {number[d] : d \in {c \in Proxy : phase[c] # "new"}}
         /\ parent'[p] \in {0} \cup {number[d] : d \in {c \in Proxy : phase[c] # "new"}}
    BY <1>2, <1>9, <1>10, <1>12
  <1> QED
    BY <1>11, <1>13 DEF Lifecycle!Register, Lifecycle!Registered, Number, phase, number, parent

\* A number that is taken names nothing yet.
LEMMA TakingStutters ==
  ASSUME AllInv, AllInv', NEW p \in Proxy, InBacklog(p),
         \/ accId' = [accId EXCEPT ![p] = idGen + 1]
         \/ accId' = accId,
         UNCHANGED <<ledger, cmd, parentId>>
  PROVE  UNCHANGED Lifecycle!vars
  <1>0. /\ TypeOK /\ IInv /\ LInv
        /\ \A e \in ledger : VerdictOK(e) /\ FinishHasId(e)
    BY DEF AllInv, VInv
  <1>1. accId[p] = 0 /\ \A q \in Proxy : accId[q] < idGen + 1
    BY <1>0, Backlog
  <1>2. /\ accId'[p] \in {0, idGen + 1}
        /\ \A r \in Proxy \ {p} : accId'[r] = accId[r]
    BY <1>0, <1>1 DEF TypeOK
  <1>3. ASSUME NEW e \in ledger, e.ev \in Phases
        PROVE  e.id # 0 /\ e.id # idGen + 1
    <2>1. PICK q \in Proxy : e.id = accId[q] /\ e.id # 0
      <3>1. CASE e.ev = "created"
        BY <1>0, <3>1 DEF IInv, EntryOK
      <3>2. CASE e.ev = "decision"
        BY <1>0, <3>2 DEF LInv, DecisionOK
      <3>3. CASE e.ev = "finish"
        BY <1>0, <3>3 DEF VerdictOK, FinishHasId, Verdicts, Speaks
      <3> QED
        BY <1>3, <3>1, <3>2, <3>3 DEF Phases
    <2> QED
      BY <1>0, <1>1, <2>1 DEF TypeOK
  <1>4. Kept(p)
    <2>1. \A ev \in Phases : ~HasId(ev, accId[p]) /\ ~HasId(ev, accId[p])'
      BY <1>1, <1>2, <1>3 DEF HasId
    <2>2. ~HasId("created", accId[p])
      BY <2>1 DEF Phases
    <2> QED
      BY <2>1, <2>2 DEF Kept
  <1> HIDE DEF AllInv
  <1>5. \A r \in Proxy \ {p} : Kept(r)
    BY <1>2, OthersKept
  <1> QED
    BY <1>4, <1>5, KeptView, SameStutters

\* A proxy that is launched has no number yet.
LEMMA LaunchStutters ==
  ASSUME AllInv, AllInv', NEW q \in Proxy, NEW p \in Proxy, Launch(q, p)
  PROVE  UNCHANGED Lifecycle!vars
  <1>1. /\ pc[p] = "off"
        /\ parentId' = [parentId EXCEPT ![p] = SelfId(q)]
        /\ UNCHANGED <<accId, ledger, cmd>>
    BY DEF Launch, serverVars, commandVars
  <1>2. ~HasId("created", accId[p])
    BY <1>1 DEF AllInv, LInv, LifeOK
  <1>3. Kept(p)
    BY <1>1, <1>2 DEF Kept, HasId
  <1>4. \A r \in Proxy \ {p} : parentId'[r] = parentId[r]
    BY <1>1 DEF AllInv, TypeOK
  <1> HIDE DEF AllInv
  <1>5. \A r \in Proxy \ {p} : Kept(r)
    BY <1>1, <1>4, OthersKept
  <1> QED
    BY <1>3, <1>5, KeptView, SameStutters

\* Every step is one of CommandLifecycle, or none.
LEMMA StepImplements ==
  ASSUME AllInv, AllInv', [Next]_vars
  PROVE  [Lifecycle!Next]_Lifecycle!vars
  <1> HIDE DEF AllInv
  <1>a. UNCHANGED <<accId, ledger, cmd, parentId>> => UNCHANGED Lifecycle!vars
    BY QuietStutters
  <1>1. CASE Boot \/ BootFails
    BY <1>a, <1>1 DEF Boot, BootFails, proxyVars, commandVars
  <1>2. CASE ServerEnds \/ ServerCrashes \/ FreedCrashes
    BY <1>a, <1>2, TeardownDrops, ConnectionsDropped
       DEF AllInv, ServerEnds, ServerCrashes, FreedCrashes, Dropped, proxyVars, commandVars
  <1>3. ASSUME NEW p \in Proxy, ProxyStep(p)
        PROVE  [Lifecycle!Next]_Lifecycle!vars
    <2>1. CASE Spawn(p)
      BY <2>1, SpawnImplements DEF Lifecycle!Next
    <2>2. CASE ~Spawn(p)
      <3>1. UNCHANGED <<accId, ledger, cmd, parentId>>
        BY <1>3, <2>2
           DEF ProxyStep, Connect, Refuse, Create, WriteFails, ReadFails, ReceiveId,
               HookMessage, LocateFails, MakeDecision, ReceiveAction, Wait, Finish,
               Exit, BrokenPipe, Dies, ReportAndReturn, serverVars, commandVars
      <3> QED
        BY <1>a, <3>1
    <2> QED
      BY <2>1, <2>2
  <1>4. ASSUME NEW p \in Proxy, AcceptorStep(p)
        PROVE  [Lifecycle!Next]_Lifecycle!vars
    <2>1. CASE Accept(p) \/ AcceptFails(p)
      <3>1. /\ InBacklog(p) /\ UNCHANGED <<ledger, cmd, parentId>>
            /\ \/ accId' = [accId EXCEPT ![p] = idGen + 1]
               \/ accId' = accId
        BY <2>1 DEF Accept, AcceptFails, proxyVars, commandVars
      <3> QED
        BY <3>1, TakingStutters
    <2>2. CASE ServeCreate(p)
      BY <2>2, CreateImplements DEF Lifecycle!Next
    <2>3. CASE ServeDecision(p)
      BY <2>3, DecisionImplements DEF Lifecycle!Next
    <2>4. CASE ServeFinish(p)
      BY <2>4, FinishImplements DEF Lifecycle!Next
    <2>5. CASE DecisionUnreadable(p) \/ Disconnect(p)
      BY <1>a, <2>5 DEF DecisionUnreadable, Disconnect, proxyVars, commandVars
    <2>6. CASE ServeError(p)
      <3>1. /\ UNCHANGED <<accId, cmd, parentId>>
            /\ ledger \subseteq ledger'
            /\ \A e \in ledger' \ ledger : e.ev \notin Phases
        BY <2>6 DEF ServeError, Record, Entry, Phases, proxyVars, commandVars
      <3> QED
        BY <3>1, QuietStutters
    <2> QED
      BY <1>4, <2>1, <2>2, <2>3, <2>4, <2>5, <2>6 DEF AcceptorStep
  <1>5. ASSUME NEW p \in Proxy, ServerBrokenPipe(p)
        PROVE  [Lifecycle!Next]_Lifecycle!vars
    BY <1>a, <1>5 DEF ServerBrokenPipe, DropConnections, proxyVars, commandVars
  <1>6. ASSUME NEW p \in Proxy, Kill(p)
        PROVE  [Lifecycle!Next]_Lifecycle!vars
    BY <1>a, <1>6 DEF Kill, Dies, commandVars
  <1>7. ASSUME NEW p \in Proxy, CommandEnds(p)
        PROVE  [Lifecycle!Next]_Lifecycle!vars
    BY <1>7, CommandEndsImplements DEF Lifecycle!Next
  <1>8. ASSUME NEW q \in Proxy, NEW p \in Proxy, Launch(q, p)
        PROVE  [Lifecycle!Next]_Lifecycle!vars
    BY <1>8, LaunchStutters
  <1>9. CASE UNCHANGED vars
    BY <1>a, <1>9 DEF vars, serverVars, proxyVars, commandVars
  <1> QED
    BY <1>1, <1>2, <1>3, <1>4, <1>5, <1>6, <1>7, <1>8, <1>9 DEF Next, Terminated

\* At first no command is known.
LEMMA InitImplements == Init => Lifecycle!Init
  <1> SUFFICES ASSUME Init
               PROVE  Lifecycle!Init
    OBVIOUS
  <1>1. \A p \in Proxy : \A ev : ~HasEntry(ev, p)
    BY DEF Init, HasEntry
  <1>2. ASSUME NEW p \in Proxy
        PROVE  Phase(p) = "new" /\ Number(p) = 0 /\ RecordedParent(p) = 0
    BY <1>1 DEF Init, Phase, Number, RecordedParent
  <1> QED
    BY <1>2 DEF Lifecycle!Init, Number

\* The protocol keeps the promise of CommandLifecycle: whatever proxies, server
\* and commands do, and whichever of them fail, a command is registered once
\* under a number of its own with a parent registered before, then decided,
\* run, over and reported, each at most once and in this order.
THEOREM Implements == Spec => KeepsLifecycle
  <1>1. Spec => [](TypeOK /\ IInv /\ VInv /\ LInv)
    BY TypeCorrect, Agreement, VerdictsAgree, AsksForTheNext, PTL
  <1>2. AllInv /\ AllInv' /\ [Next]_vars => [Lifecycle!Next]_Lifecycle!vars
    BY StepImplements
  <1>3. (TypeOK /\ IInv /\ VInv /\ LInv) <=> AllInv
    BY DEF AllInv
  <1> QED
    BY <1>1, <1>2, <1>3, InitImplements, PTL DEF Spec, KeepsLifecycle, Lifecycle!Spec
=============================================================================
