-------------------------- MODULE CatterRpcProofs --------------------------
(* Proofs about CatterRpc for every set of proxies, codes and faults.      *)
EXTENDS CatterRpc, WellFoundedInduction, TLAPS

\* Every request and reply the actions build has its type.
LEMMA MessageTypes ==
  /\ \A op \in {"CREATE", "MAKE_DECISION", "FINISH", "REPORT_ERROR"} :
       \A n, v \in Int : Request(op, n, v) \in Requests
  /\ \A op \in {"ID", "ACTION"} : \A v \in Int : Reply(op, v) \in Replies
  /\ \A ev \in {"created", "decision", "finish", "error"} :
       \A i, v \in Int : Entry(ev, i, v) \in Entries
  BY DEF Request, Requests, Reply, Replies, Entry, Entries

\* Appending to, and taking from, one of a family of queues keeps their type.
LEMMA QueueTypes ==
  ASSUME NEW S, NEW Q \in [Proxy -> Seq(S)], NEW p \in Proxy
  PROVE  /\ \A m \in S : [Q EXCEPT ![p] = Append(@, m)] \in [Proxy -> Seq(S)]
         /\ Q[p] # <<>> => /\ Head(Q[p]) \in S
                          /\ Tail(Q[p]) \in Seq(S)
                          /\ [Q EXCEPT ![p] = Tail(@)] \in [Proxy -> Seq(S)]
  <1>1. Q[p] \in Seq(S)
    OBVIOUS
  <1>2. ASSUME NEW m \in S
        PROVE  [Q EXCEPT ![p] = Append(@, m)] \in [Proxy -> Seq(S)]
    <2>1. Append(Q[p], m) \in Seq(S)
      BY <1>1
    <2> QED
      BY <2>1
  <1>3. ASSUME Q[p] # <<>>
        PROVE  /\ Head(Q[p]) \in S
               /\ Tail(Q[p]) \in Seq(S)
    BY <1>1, <1>3
  <1> QED
    BY <1>2, <1>3

\* What a proxy's failure path changes keeps the types.
LEMMA ReportAndReturnType ==
  ASSUME TypeOK, NEW p \in Proxy, NEW n \in Int, ReportAndReturn(p, n)
  PROVE  TypeOK'
  <1>1. Request("REPORT_ERROR", n, id[p]) \in Requests
    BY MessageTypes DEF TypeOK
  <1>2. c2s' \in [Proxy -> Seq(Requests)]
    <2>1. CASE CanWrite(p)
      <3>1. c2s' = [c2s EXCEPT ![p] = Append(@, Request("REPORT_ERROR", n, id[p]))]
        BY <2>1 DEF ReportAndReturn, Send
      <3> QED
        BY <1>1, <3>1, QueueTypes DEF TypeOK
    <2>2. CASE ~CanWrite(p)
      BY <2>2 DEF TypeOK, ReportAndReturn
    <2> QED
      BY <2>1, <2>2
  <1>3. /\ ret' = [ret EXCEPT ![p] = -1]
        /\ pc' = [pc EXCEPT ![p] = "returning"]
        /\ UNCHANGED <<srv, idGen, acc, accId, ledger, settled, conn, s2c, shape,
                       launcher, parentId, env, id, cmd, code>>
    BY DEF ReportAndReturn, serverVars, commandVars
  <1> QED
    BY <1>2, <1>3 DEF TypeOK

\* The death of a proxy keeps the types.
LEMMA DiesType ==
  ASSUME TypeOK, NEW p \in Proxy, Dies(p)
  PROVE  TypeOK'
  BY DEF TypeOK, Dies, CloseByProxy, Settle, commandVars

\* ... so does every step of its main,
LEMMA ProxyStepType ==
  ASSUME TypeOK, NEW p \in Proxy, ProxyStep(p)
  PROVE  TypeOK'
  <1> USE DEF TypeOK
  <1>1. CASE Connect(p)
    <2>1. conn' \in [Proxy -> {"none", "pending", "open", "shut", "reset"}]
      BY <1>1 DEF Connect
    <2>2. /\ pc' = [pc EXCEPT ![p] = "connected"]
          /\ UNCHANGED <<srv, idGen, acc, accId, ledger, settled, c2s, s2c,
                         shape, launcher, parentId, env, id, ret, cmd, code>>
      BY <1>1 DEF Connect, serverVars, commandVars
    <2> QED
      BY <2>1, <2>2
  <1>2. CASE Refuse(p)
    <2>1. -1 \in Int /\ ReportAndReturn(p, -1)
      BY <1>2 DEF Refuse
    <2> HIDE DEF TypeOK
    <2> QED
      BY <2>1, ReportAndReturnType
  <1>3. CASE Create(p)
    <2>1. Request("CREATE", parentId[p], 0) \in Requests
      BY MessageTypes
    <2>2. c2s' \in [Proxy -> Seq(Requests)]
      BY <1>3, <2>1 DEF Create, Send
    <2> QED
      BY <1>3, <2>2 DEF Create, serverVars, commandVars
  <1>4. CASE WriteFails(p)
    BY <1>4, ReportAndReturnType DEF WriteFails
  <1>5. CASE ReadFails(p)
    BY <1>5, ReportAndReturnType DEF ReadFails
  <1>6. CASE ReceiveId(p)
    <2>1. /\ Head(s2c[p]) \in Replies
          /\ Tail(s2c[p]) \in Seq(Replies)
      BY <1>6 DEF ReceiveId
    <2>2. Head(s2c[p]).val \in Int
      BY <2>1 DEF Replies
    <2> QED
      BY <1>6, <2>1, <2>2 DEF ReceiveId, serverVars, commandVars
  <1>7. CASE HookMessage(p)
    BY <1>7, ReportAndReturnType DEF HookMessage
  <1>8. CASE LocateFails(p)
    BY <1>8, ReportAndReturnType DEF LocateFails
  <1>9. CASE MakeDecision(p)
    <2>1. Request("MAKE_DECISION", parentId[p],
                  IF shape[p] = "emptyArg" THEN HoldsEmptyString ELSE Plain) \in Requests
      BY MessageTypes DEF HoldsEmptyString, Plain
    <2>2. c2s' \in [Proxy -> Seq(Requests)]
      BY <1>9, <2>1 DEF MakeDecision, Send
    <2> QED
      BY <1>9, <2>2 DEF MakeDecision, serverVars, commandVars
  <1>10. CASE ReceiveAction(p)
    <2>1. Tail(s2c[p]) \in Seq(Replies)
      BY <1>10 DEF ReceiveAction
    <2> QED
      BY <1>10, <2>1 DEF ReceiveAction, serverVars, commandVars
  <1>11. CASE Spawn(p)
    <2>1. /\ cmd' \in [Proxy -> {"none", "running", "exited", "signalled"}]
          /\ ret' \in [Proxy -> Int]
          /\ \/ pc' = [pc EXCEPT ![p] = "waiting"]
             \/ pc' = [pc EXCEPT ![p] = "ran"]
      <3>1. \/ /\ cmd' = [cmd EXCEPT ![p] = "running"]
               /\ pc' = [pc EXCEPT ![p] = "waiting"]
               /\ ret' = ret
            \/ /\ ret' = [ret EXCEPT ![p] = -1]
               /\ pc' = [pc EXCEPT ![p] = "ran"]
               /\ cmd' = cmd
        BY <1>11 DEF Spawn
      <3>2. CASE /\ cmd' = [cmd EXCEPT ![p] = "running"]
                 /\ pc' = [pc EXCEPT ![p] = "waiting"]
                 /\ ret' = ret
        BY <3>2
      <3>3. CASE /\ ret' = [ret EXCEPT ![p] = -1]
                 /\ pc' = [pc EXCEPT ![p] = "ran"]
                 /\ cmd' = cmd
        BY <3>3
      <3> QED
        BY <3>1, <3>2, <3>3
    <2>2. UNCHANGED <<srv, idGen, acc, accId, ledger, settled, conn, c2s, s2c,
                      shape, launcher, parentId, env, id, code>>
      BY <1>11 DEF Spawn, serverVars, pipeVars
    <2> QED
      BY <2>1, <2>2
  <1>12. CASE Wait(p)
    <2>1. RunResult(p) \in Int
      BY DEF RunResult
    <2>2. ret' \in [Proxy -> Int]
      BY <1>12, <2>1, SMTT(30) DEF Wait
    <2>3. /\ pc' = [pc EXCEPT ![p] = "ran"]
          /\ UNCHANGED <<srv, idGen, acc, accId, ledger, settled, conn, c2s, s2c,
                         shape, launcher, parentId, env, id, cmd, code>>
      BY <1>12 DEF Wait, serverVars, pipeVars, commandVars
    <2> QED
      BY <2>2, <2>3
  <1>13. CASE Finish(p)
    <2>1. Request("FINISH", parentId[p], ret[p]) \in Requests
      BY MessageTypes
    <2>2. c2s' \in [Proxy -> Seq(Requests)]
      BY <1>13, <2>1 DEF Finish, Send
    <2> QED
      BY <1>13, <2>2 DEF Finish, serverVars, commandVars
  <1>14. CASE Exit(p)
    BY <1>14 DEF Exit, CloseByProxy, Settle, commandVars
  <1>15. CASE BrokenPipe(p)
    BY <1>15, DiesType DEF BrokenPipe
  <1> QED
    BY <1>1, <1>2, <1>3, <1>4, <1>5, <1>6, <1>7, <1>8, <1>9, <1>10, <1>11,
       <1>12, <1>13, <1>14, <1>15 DEF ProxyStep

\* ... and of the coroutine that serves it.
LEMMA AcceptorStepType ==
  ASSUME TypeOK, NEW p \in Proxy, AcceptorStep(p)
  PROVE  TypeOK'
  <1> USE DEF TypeOK
  <1>00. ASSUME NEW m \in Replies, Answer(p, m)
         PROVE  /\ s2c' \in [Proxy -> Seq(Replies)]
                /\ acc' \in [Proxy -> {"none", "reading", "over", "destroyed"}]
    <2>1. CASE conn[p] = "open"
      <3>1. s2c' = [s2c EXCEPT ![p] = Append(@, m)] /\ acc' = acc
        BY <1>00, <2>1 DEF Answer
      <3> QED
        BY <3>1, QueueTypes
    <2>2. CASE conn[p] # "open"
      BY <1>00, <2>2 DEF Answer
    <2> QED
      BY <2>1, <2>2
  <1>0. ASSUME NEW op, Reading(p, op)
        PROVE  /\ Head(c2s[p]) \in Requests
               /\ Head(c2s[p]).val \in Int
               /\ Head(c2s[p]).parent \in Int
               /\ Tail(c2s[p]) \in Seq(Requests)
    <2>1. /\ Head(c2s[p]) \in Requests
          /\ Tail(c2s[p]) \in Seq(Requests)
      BY <1>0 DEF Reading
    <2> QED
      BY <2>1 DEF Requests
  <1>1. CASE Accept(p)
    BY <1>1 DEF Accept, proxyVars, commandVars
  <1>2. CASE AcceptFails(p)
    <2>1. /\ idGen' \in Nat
          /\ accId' \in [Proxy -> Nat]
      <3>1. \/ /\ idGen' = idGen + 1
               /\ accId' = [accId EXCEPT ![p] = idGen + 1]
            \/ idGen' = idGen /\ accId' = accId
        BY <1>2 DEF AcceptFails
      <3>2. CASE /\ idGen' = idGen + 1
                 /\ accId' = [accId EXCEPT ![p] = idGen + 1]
        BY <3>2
      <3>3. CASE idGen' = idGen /\ accId' = accId
        BY <3>3
      <3> QED
        BY <3>1, <3>2, <3>3
    <2>2. conn' \in [Proxy -> {"none", "pending", "open", "shut", "reset"}]
      BY <1>2 DEF AcceptFails, CloseByServer
    <2>3. /\ acc' = [acc EXCEPT ![p] = "over"]
          /\ UNCHANGED <<srv, ledger, settled, c2s, s2c, pc, shape, launcher,
                         parentId, env, id, ret, cmd, code>>
      BY <1>2 DEF AcceptFails, proxyVars, commandVars
    <2> QED
      BY <2>1, <2>2, <2>3
  <1>3. CASE ServeCreate(p)
    <2>1. /\ Reply("ID", accId[p]) \in Replies
          /\ Entry("created", accId[p], Head(c2s[p]).parent) \in Entries
      BY <1>0, <1>3, MessageTypes DEF ServeCreate
    <2>2. /\ s2c' \in [Proxy -> Seq(Replies)]
          /\ acc' \in [Proxy -> {"none", "reading", "over", "destroyed"}]
      BY <1>00, <1>3, <2>1 DEF ServeCreate
    <2> QED
      BY <1>0, <1>3, <2>1, <2>2 DEF ServeCreate, Record, proxyVars, commandVars
  <1>4. CASE ServeDecision(p)
    <2>1. /\ Reply("ACTION", 0) \in Replies
          /\ Entry("decision", accId[p], 0) \in Entries
      BY MessageTypes
    <2>2. /\ s2c' \in [Proxy -> Seq(Replies)]
          /\ acc' \in [Proxy -> {"none", "reading", "over", "destroyed"}]
      BY <1>00, <1>4, <2>1 DEF ServeDecision
    <2> QED
      BY <1>0, <1>4, <2>1, <2>2 DEF ServeDecision, Record, proxyVars, commandVars
  <1>5. CASE DecisionUnreadable(p)
    BY <1>0, <1>5 DEF DecisionUnreadable, CloseByServer, proxyVars, commandVars
  <1>6. CASE ServeFinish(p)
    <2>1. Entry("finish", accId[p], Head(c2s[p]).val) \in Entries
      BY <1>0, <1>6, MessageTypes DEF ServeFinish
    <2> QED
      BY <1>0, <1>6, <2>1 DEF ServeFinish, Record, proxyVars, commandVars
  <1>7. CASE ServeError(p)
    <2>1. Entry("error", Head(c2s[p]).val, Head(c2s[p]).parent) \in Entries
      BY <1>0, <1>7, MessageTypes DEF ServeError
    <2> QED
      BY <1>0, <1>7, <2>1 DEF ServeError, Record, proxyVars, commandVars
  <1>8. CASE Disconnect(p)
    BY <1>8 DEF Disconnect, pipeVars, proxyVars, commandVars
  <1> QED
    BY <1>1, <1>2, <1>3, <1>4, <1>5, <1>6, <1>7, <1>8 DEF AcceptorStep

\* The environment of a command holds integers, the first of them its hook's id.
LEMMA CmdEnvType ==
  ASSUME TypeOK, NEW p \in Proxy
  PROVE  CmdEnv(p) \in Seq(Int) /\ SelfId(p) \in Int
  <1>1. env[p] \in Seq(Int) /\ id[p] \in Int
    BY DEF TypeOK
  <1>2. CmdEnv(p) \in Seq(Int) /\ CmdEnv(p) # <<>>
    BY <1>1 DEF CmdEnv
  <1> QED
    BY <1>2 DEF SelfId

\* Every step keeps the type invariant.
LEMMA NextType ==
  ASSUME TypeOK, [Next]_vars
  PROVE  TypeOK'
  <1> USE DEF TypeOK
  <1>1. CASE Boot
    BY <1>1, RootAssumption DEF Boot, Shapes, pipeVars, commandVars
  <1>2. CASE BootFails
    BY <1>2 DEF BootFails, pipeVars, proxyVars, commandVars
  <1>3. CASE ServerEnds
    BY <1>3 DEF ServerEnds, Teardown, DropConnections, CloseAllByServer, FreeCoroutines,
                proxyVars, commandVars
  <1>4. CASE ServerCrashes \/ FreedCrashes
    BY <1>4 DEF ServerCrashes, FreedCrashes, DropConnections, CloseAllByServer, proxyVars,
                commandVars
  <1>5. ASSUME NEW p \in Proxy, ProxyStep(p)
        PROVE  TypeOK'
    BY <1>5, ProxyStepType
  <1>6. ASSUME NEW p \in Proxy, AcceptorStep(p)
        PROVE  TypeOK'
    BY <1>6, AcceptorStepType
  <1>7. ASSUME NEW p \in Proxy, Kill(p)
        PROVE  TypeOK'
    BY <1>7, DiesType DEF Kill
  <1>11. ASSUME NEW p \in Proxy, ServerBrokenPipe(p)
         PROVE  TypeOK'
    BY <1>11 DEF ServerBrokenPipe, DropConnections, CloseAllByServer, proxyVars,
                 commandVars
  <1>8. ASSUME NEW p \in Proxy, CommandEnds(p)
        PROVE  TypeOK'
    <2>1. /\ cmd' \in [Proxy -> {"none", "running", "exited", "signalled"}]
          /\ code' \in [Proxy -> Int]
      <3>1. \/ /\ cmd' = [cmd EXCEPT ![p] = "exited"]
               /\ \E c \in Codes : code' = [code EXCEPT ![p] = c]
            \/ /\ cmd' = [cmd EXCEPT ![p] = "signalled"]
               /\ code' = code
        BY <1>8 DEF CommandEnds
      <3>2. CASE /\ cmd' = [cmd EXCEPT ![p] = "exited"]
                 /\ \E c \in Codes : code' = [code EXCEPT ![p] = c]
        <4>1. PICK c \in Codes : code' = [code EXCEPT ![p] = c]
          BY <3>2
        <4>2. c \in Int
          BY CodesAssumption
        <4> QED
          BY <3>2, <4>1, <4>2
      <3>3. CASE /\ cmd' = [cmd EXCEPT ![p] = "signalled"]
                 /\ code' = code
        BY <3>3
      <3> QED
        BY <3>1, <3>2, <3>3
    <2>2. UNCHANGED <<srv, idGen, acc, accId, ledger, settled, conn, c2s, s2c,
                      pc, shape, launcher, parentId, env, id, ret>>
      BY <1>8 DEF CommandEnds, serverVars, pipeVars, proxyVars
    <2> QED
      BY <2>1, <2>2
  <1>9. ASSUME NEW q \in Proxy, NEW p \in Proxy, Launch(q, p)
        PROVE  TypeOK'
    <2>1. /\ CmdEnv(q) \in Seq(Int)
          /\ SelfId(q) \in Int
          /\ <<>> \in Seq(Int)
      BY CmdEnvType, SMTT(30)
    <2>2. env' \in [Proxy -> Seq(Int)]
      <3>1. PICK e \in {CmdEnv(q), <<>>} : env' = [env EXCEPT ![p] = e]
        BY <1>9 DEF Launch
      <3>2. e \in Seq(Int)
        BY <2>1, <3>1
      <3> QED
        BY <3>1, <3>2
    <2>3. shape' \in [Proxy -> {"command", "emptyArg", "message", "refused"}]
      BY <1>9, SMTT(30) DEF Launch, Shapes
    <2> QED
      BY <1>9, <2>1, <2>2, <2>3 DEF Launch, serverVars, pipeVars, commandVars
  <1>10. CASE UNCHANGED vars
    BY <1>10 DEF vars, serverVars, pipeVars, proxyVars, commandVars
  <1> QED
    BY <1>1, <1>2, <1>3, <1>4, <1>5, <1>6, <1>7, <1>8, <1>9, <1>10,
       <1>11 DEF Next, Terminated

\* Every reachable state of the protocol is well typed.
THEOREM TypeCorrect == Spec => []TypeOK
  <1>1. Init => TypeOK
    BY RootAssumption DEF Init, TypeOK
  <1>2. TypeOK /\ [Next]_vars => TypeOK'
    BY NextType
  <1> QED
    BY <1>1, <1>2, PTL DEF Spec

-----------------------------------------------------------------------------
(* The inductive invariant.                                                *)

\* A step leaves everything of proxy r, and its connection, as it was.
SameFor(r) ==
  /\ acc'[r] = acc[r] /\ accId'[r] = accId[r] /\ conn'[r] = conn[r]
  /\ c2s'[r] = c2s[r] /\ s2c'[r] = s2c[r] /\ pc'[r] = pc[r]
  /\ parentId'[r] = parentId[r] /\ env'[r] = env[r] /\ id'[r] = id[r]
  /\ cmd'[r] = cmd[r]

\* The shared state only grows: new ids are beyond the old ones.
Grows ==
  /\ ledger \subseteq ledger'
  /\ idGen' \in Nat /\ idGen <= idGen'
  /\ \A q \in Proxy : accId'[q] = accId[q] \/ (acc[q] = "none" /\ accId'[q] > idGen)
  /\ srv' = "boot" => srv = "boot"

\* What one proxy keeps true is not disturbed by a step of another.
LEMMA Undisturbed ==
  ASSUME TypeOK, IInv, Grows, NEW r \in Proxy, SameFor(r)
  PROVE  AcceptOK(r)' /\ TalkOK(r)' /\ ProgressOK(r)' /\ TreeOK(r)'
  <1>0. AcceptOK(r) /\ TalkOK(r) /\ ProgressOK(r) /\ TreeOK(r)
    BY DEF IInv
  <1>1. \A ev, i : HasId(ev, i) => HasId(ev, i)'
    BY DEF HasId, Grows
  <1>2. AcceptOK(r)'
    <2>1. \A q \in Proxy : accId'[q] = accId'[r] /\ accId'[r] # 0 => q = r
      BY <1>0, SMTT(30) DEF AcceptOK, Grows, SameFor, TypeOK
    <2> QED
      BY <1>0, <2>1 DEF AcceptOK, Grows, SameFor, TypeOK, Gone
  <1>3. TalkOK(r)'
    BY <1>0, <1>1 DEF TalkOK, SameFor
  <1>4. ProgressOK(r)'
    BY <1>0, <1>1 DEF ProgressOK, SameFor
  <1>5. TreeOK(r)'
    BY <1>0, <1>1 DEF TreeOK, SameFor
  <1> QED
    BY <1>2, <1>3, <1>4, <1>5

\* A recorded creation stays the one of its connection: ids and parents of
\* proxies under way do not change.
LEMMA EntriesKept ==
  ASSUME TypeOK, IInv, Grows,
         \A r \in Proxy : pc[r] # "off" => pc'[r] # "off" /\ parentId'[r] = parentId[r]
  PROVE  \A e \in ledger : EntryOK(e)'
  <1> SUFFICES ASSUME NEW e \in ledger, e.ev = "created"
               PROVE  \E p \in Proxy : /\ e.id = accId'[p] /\ e.id # 0
                                        /\ e.val = parentId'[p] /\ pc'[p] # "off"
    BY DEF EntryOK
  <1>1. PICK p \in Proxy : /\ e.id = accId[p] /\ e.id # 0
                            /\ e.val = parentId[p] /\ pc[p] # "off"
    BY DEF IInv, EntryOK
  <1>2. accId'[p] = accId[p]
    <2>1. acc[p] # "none"
      BY <1>1 DEF IInv, AcceptOK
    <2> QED
      BY <2>1 DEF Grows
  <1> QED
    BY <1>1, <1>2

\* The invariant holds after a step of p when the parts of p do.
LEMMA OwnStep ==
  ASSUME TypeOK, IInv, Grows, NEW p \in Proxy,
         \A r \in Proxy \ {p} : SameFor(r),
         pc[p] # "off" => pc'[p] # "off" /\ parentId'[p] = parentId[p],
         AcceptOK(p)', TalkOK(p)', ProgressOK(p)', TreeOK(p)',
         \A e \in ledger' \ ledger : EntryOK(e)'
  PROVE  IInv'
  <1>1. \A r \in Proxy : AcceptOK(r)' /\ TalkOK(r)' /\ ProgressOK(r)' /\ TreeOK(r)'
    BY Undisturbed
  <1>2. \A e \in ledger : EntryOK(e)'
    BY EntriesKept DEF SameFor
  <1>3. \A e \in ledger' : EntryOK(e)'
    BY <1>2
  <1> QED
    BY <1>1, <1>3 DEF IInv

\* A step of proxy p's main, or its death, leaves the server alone.
LEMMA ProxyOwn ==
  ASSUME TypeOK, IInv, NEW p \in Proxy,
         UNCHANGED <<srv, idGen, acc, accId, ledger, parentId, env>>,
         \A r \in Proxy \ {p} :
           /\ conn'[r] = conn[r] /\ c2s'[r] = c2s[r] /\ s2c'[r] = s2c[r]
           /\ pc'[r] = pc[r] /\ id'[r] = id[r] /\ cmd'[r] = cmd[r],
         Live(p), pc'[p] # "off",
         AcceptOK(p)', TalkOK(p)', ProgressOK(p)'
  PROVE  IInv'
  <1>1. Grows
    BY DEF Grows, TypeOK
  <1>2. \A r \in Proxy \ {p} : SameFor(r)
    BY DEF SameFor
  <1>3. TreeOK(p)'
    <2>1. TreeOK(p)
      BY DEF IInv
    <2> QED
      BY <2>1 DEF TreeOK, HasId, Live
  <1>4. ledger' \ ledger = {}
    OBVIOUS
  <1> HIDE DEF TypeOK, IInv
  <1> QED
    BY <1>1, <1>2, <1>3, <1>4, OwnStep

\* ... and, as long as p keeps its pipe, what accepting it established.
LEMMA ProxyTalks ==
  ASSUME TypeOK, IInv, NEW p \in Proxy,
         UNCHANGED <<srv, idGen, acc, accId, ledger, parentId, env, conn>>,
         \A r \in Proxy \ {p} :
           /\ c2s'[r] = c2s[r] /\ s2c'[r] = s2c[r]
           /\ pc'[r] = pc[r] /\ id'[r] = id[r] /\ cmd'[r] = cmd[r],
         pc[p] \notin {"off", "start", "exited", "killed"},
         pc'[p] \notin {"off", "start", "exited", "killed"},
         TalkOK(p)', ProgressOK(p)'
  PROVE  IInv'
  <1>1. AcceptOK(p)
    BY DEF IInv
  <1>2. AcceptOK(p)'
    BY <1>1 DEF AcceptOK, Gone
  <1>3. Live(p)
    BY DEF Live, Gone
  <1> HIDE DEF TypeOK, IInv
  <1> QED
    BY <1>2, <1>3, ProxyOwn

\* The failure path of a proxy: at most the error report is under way.
LEMMA ReportKeeps ==
  ASSUME TypeOK, IInv, NEW p \in Proxy, NEW n \in Int, ReportAndReturn(p, n),
         \/ pc[p] \in {"connected", "created", "decided", "ran"}
         \/ pc[p] \in {"creating", "deciding"} /\ ~CanWrite(p)
  PROVE  IInv'
  <1>1. /\ ret' = [ret EXCEPT ![p] = -1]
        /\ pc' = [pc EXCEPT ![p] = "returning"]
        /\ UNCHANGED <<srv, idGen, acc, accId, ledger, conn, s2c, parentId, env,
                       id, cmd>>
    BY DEF ReportAndReturn, serverVars, commandVars
  <1>2. /\ pc'[p] = "returning"
        /\ \A r \in Proxy \ {p} : pc'[r] = pc[r]
    BY <1>1 DEF TypeOK
  <1>3. TalkOK(p) /\ ProgressOK(p)
    BY DEF IInv
  <1>4. /\ \A r \in Proxy \ {p} : c2s'[r] = c2s[r]
        /\ TalkOK(p)'
    <2>1. CASE CanWrite(p)
      <3>1. c2s[p] = <<>>
        BY <1>3, <2>1 DEF TalkOK
      <3>2. c2s' = [c2s EXCEPT ![p] = Append(c2s[p], Request("REPORT_ERROR", n, id[p]))]
        BY <2>1 DEF ReportAndReturn, Send
      <3>3. /\ c2s'[p] = <<Request("REPORT_ERROR", n, id[p])>>
            /\ \A r \in Proxy \ {p} : c2s'[r] = c2s[r]
        BY <3>1, <3>2 DEF TypeOK
      <3>4. Head(c2s'[p]) = Request("REPORT_ERROR", n, id[p])
        BY <3>3
      <3>5. Request("REPORT_ERROR", n, id[p]).op # "CREATE"
        BY DEF Request
      <3> QED
        BY <1>2, <3>3, <3>4, <3>5 DEF TalkOK
    <2>2. CASE ~CanWrite(p)
      <3>1. c2s' = c2s
        BY <2>2 DEF ReportAndReturn
      <3>2. \/ c2s[p] = <<>>
            \/ c2s[p] = <<Request("CREATE", parentId[p], 0)>>
            \/ \E v \in {Plain, HoldsEmptyString} :
                 c2s[p] = <<Request("MAKE_DECISION", parentId[p], v)>>
        BY <1>3 DEF TalkOK
      <3>3. \/ c2s[p] = <<>>
            \/ /\ c2s[p] = <<Head(c2s[p])>>
               /\ Head(c2s[p]).op = "CREATE" => Head(c2s[p]).parent = parentId[p]
        <4>1. CASE c2s[p] = <<Request("CREATE", parentId[p], 0)>>
          BY <4>1 DEF Request
        <4>2. ASSUME NEW v \in {Plain, HoldsEmptyString},
                     c2s[p] = <<Request("MAKE_DECISION", parentId[p], v)>>
              PROVE  /\ c2s[p] = <<Head(c2s[p])>>
                     /\ Head(c2s[p]).op # "CREATE"
          BY <4>2 DEF Request
        <4> QED
          BY <3>2, <4>1, <4>2
      <3> QED
        BY <1>1, <1>2, <3>1, <3>3 DEF TalkOK
    <2> QED
      BY <2>1, <2>2
  <1>5. ProgressOK(p)'
    BY <1>1, <1>2, <1>3 DEF ProgressOK, HasId
  <1> HIDE DEF TypeOK, IInv
  <1> QED
    BY <1>1, <1>2, <1>4, <1>5, ProxyTalks

\* A proxy that exits or is killed leaves its last message on the pipe.
LEMMA ProxyGoes ==
  ASSUME TypeOK, IInv, NEW p \in Proxy, Live(p),
         NEW s \in {"exited", "killed"},
         pc' = [pc EXCEPT ![p] = s],
         conn' = [conn EXCEPT ![p] = IF CanWrite(p) THEN "shut" ELSE @],
         UNCHANGED <<srv, idGen, acc, accId, ledger, parentId, env, c2s, s2c,
                     id, cmd>>
  PROVE  IInv'
  <1>1. AcceptOK(p) /\ TalkOK(p) /\ ProgressOK(p)
    BY DEF IInv
  <1>2. /\ pc'[p] = s
        /\ conn'[p] = IF CanWrite(p) THEN "shut" ELSE conn[p]
        /\ \A r \in Proxy \ {p} : pc'[r] = pc[r] /\ conn'[r] = conn[r]
    BY DEF TypeOK
  <1>3. AcceptOK(p)'
    <2>1. conn'[p] = "none" => conn[p] = "none"
      BY <1>2
    <2>2. acc[p] = "reading" => conn'[p] \in {"open", "shut"}
      BY <1>1, <1>2 DEF AcceptOK
    <2> QED
      BY <1>1, <1>2, <2>1, <2>2 DEF AcceptOK, Gone, Live
  <1>4. TalkOK(p)'
    <2>1. \/ c2s[p] = <<>>
          \/ c2s[p] = <<Request("CREATE", parentId[p], 0)>>
          \/ \E v \in {Plain, HoldsEmptyString} :
               c2s[p] = <<Request("MAKE_DECISION", parentId[p], v)>>
          \/ /\ c2s[p] = <<Head(c2s[p])>>
             /\ Head(c2s[p]).op = "CREATE" => Head(c2s[p]).parent = parentId[p]
      BY <1>1 DEF TalkOK, TypeOK
    <2>2. CASE c2s[p] = <<Request("CREATE", parentId[p], 0)>>
      <3>1. c2s[p] = <<Head(c2s[p])>> /\ Head(c2s[p]).parent = parentId[p]
        BY <2>2 DEF Request
      <3> QED
        BY <1>2, <3>1 DEF TalkOK
    <2>3. ASSUME NEW v \in {Plain, HoldsEmptyString},
                 c2s[p] = <<Request("MAKE_DECISION", parentId[p], v)>>
          PROVE  TalkOK(p)'
      <3>1. c2s[p] = <<Head(c2s[p])>> /\ Head(c2s[p]).op # "CREATE"
        BY <2>3 DEF Request
      <3> QED
        BY <1>2, <3>1 DEF TalkOK
    <2>4. CASE c2s[p] = <<>>
      BY <1>2, <2>4 DEF TalkOK
    <2>5. CASE /\ c2s[p] = <<Head(c2s[p])>>
               /\ Head(c2s[p]).op = "CREATE" => Head(c2s[p]).parent = parentId[p]
      BY <1>2, <2>5 DEF TalkOK
    <2> QED
      BY <2>1, <2>2, <2>3, <2>4, <2>5
  <1>5. ProgressOK(p)'
    BY <1>1, <1>2 DEF ProgressOK, HasId
  <1> HIDE DEF TypeOK, IInv
  <1> QED
    BY <1>2, <1>3, <1>4, <1>5, ProxyOwn

\* ... in particular when a signal ends it.
LEMMA DiesKeeps ==
  ASSUME TypeOK, IInv, NEW p \in Proxy, Live(p), Dies(p)
  PROVE  IInv'
  <1> HIDE DEF TypeOK, IInv
  <1>1. /\ pc' = [pc EXCEPT ![p] = "killed"]
        /\ conn' = [conn EXCEPT ![p] = IF CanWrite(p) THEN "shut" ELSE @]
        /\ UNCHANGED <<srv, idGen, acc, accId, ledger, parentId, env, c2s, s2c,
                       id, cmd>>
    BY DEF Dies, CloseByProxy, commandVars
  <1> QED
    BY <1>1, ProxyGoes

\* No step of a proxy's main disturbs the invariant.
LEMMA ProxyStepKeeps ==
  ASSUME TypeOK, IInv, NEW p \in Proxy, ProxyStep(p)
  PROVE  IInv'
  <1>0. /\ AcceptOK(p) /\ TalkOK(p) /\ ProgressOK(p)
        /\ parentId[p] \in Int /\ -1 \in Int
    BY DEF IInv, TypeOK
  <1>1. CASE Connect(p)
    <2>1. /\ pc[p] = "start"
          /\ pc' = [pc EXCEPT ![p] = "connected"]
          /\ conn' = [conn EXCEPT ![p] = "pending"] \/ conn' = conn
          /\ UNCHANGED <<srv, idGen, acc, accId, ledger, parentId, env, c2s, s2c,
                         id, cmd>>
      BY <1>1 DEF Connect, serverVars, commandVars
    <2>2. /\ pc'[p] = "connected"
          /\ conn'[p] \in {"pending", "none"}
          /\ conn'[p] = "none" => conn[p] = "none"
          /\ \A r \in Proxy \ {p} : pc'[r] = pc[r] /\ conn'[r] = conn[r]
      BY <1>0, <2>1 DEF TypeOK, AcceptOK
    <2>3. acc[p] = "none"
      BY <1>0, <2>1 DEF AcceptOK
    <2>4. AcceptOK(p)'
      BY <1>0, <2>1, <2>2, <2>3 DEF AcceptOK, Gone
    <2>5. TalkOK(p)'
      BY <1>0, <2>1, <2>2 DEF TalkOK
    <2>6. ProgressOK(p)'
      BY <1>0, <2>1, <2>2 DEF ProgressOK, HasId
    <2>7. Live(p)
      BY <2>1 DEF Live, Gone
    <2> HIDE DEF TypeOK, IInv
    <2> QED
      BY <2>1, <2>2, <2>4, <2>5, <2>6, <2>7, ProxyOwn
  <1>2. CASE Refuse(p)
    BY <1>0, <1>2, ReportKeeps DEF Refuse
  <1>3. CASE Create(p)
    <2>1. /\ pc[p] = "connected"
          /\ pc' = [pc EXCEPT ![p] = "creating"]
          /\ c2s' = [c2s EXCEPT ![p] = Append(c2s[p], Request("CREATE", parentId[p], 0))]
          /\ UNCHANGED <<srv, idGen, acc, accId, ledger, parentId, env, conn, s2c,
                         id, cmd>>
      BY <1>3 DEF Create, Send, serverVars, commandVars
    <2>2. c2s[p] = <<>> /\ s2c[p] = <<>>
      BY <1>0, <2>1 DEF TalkOK
    <2>3. /\ pc'[p] = "creating"
          /\ c2s'[p] = <<Request("CREATE", parentId[p], 0)>>
          /\ \A r \in Proxy \ {p} : pc'[r] = pc[r] /\ c2s'[r] = c2s[r]
      BY <2>1, <2>2 DEF TypeOK
    <2>4. TalkOK(p)'
      BY <2>1, <2>2, <2>3 DEF TalkOK
    <2>5. ProgressOK(p)'
      BY <1>0, <2>1, <2>3 DEF ProgressOK, HasId
    <2> HIDE DEF TypeOK, IInv
    <2> QED
      BY <2>1, <2>3, <2>4, <2>5, ProxyTalks
  <1>4. CASE WriteFails(p)
    BY <1>0, <1>4, ReportKeeps DEF WriteFails
  <1>5. CASE ReadFails(p)
    <2>1. ~CanWrite(p)
      BY <1>5 DEF ReadFails, CanWrite
    <2> QED
      BY <1>0, <1>5, <2>1, ReportKeeps DEF ReadFails
  <1>6. CASE ReceiveId(p)
    <2>1. /\ pc[p] = "creating"
          /\ s2c[p] # <<>>
          /\ id' = [id EXCEPT ![p] = Head(s2c[p]).val]
          /\ s2c' = [s2c EXCEPT ![p] = Tail(s2c[p])]
          /\ pc' = [pc EXCEPT ![p] = "created"]
          /\ UNCHANGED <<srv, idGen, acc, accId, ledger, parentId, env, conn, c2s,
                         cmd>>
      BY <1>6 DEF ReceiveId, serverVars, commandVars
    <2>2. /\ c2s[p] = <<>>
          /\ s2c[p] = <<Reply("ID", accId[p])>>
          /\ accId[p] # 0
          /\ HasId("created", accId[p])
      BY <1>0, <2>1 DEF TalkOK
    <2>3. Head(s2c[p]).val = accId[p] /\ Tail(s2c[p]) = <<>>
      BY <2>2 DEF Reply
    <2>4. /\ pc'[p] = "created" /\ s2c'[p] = <<>> /\ id'[p] = accId[p]
          /\ \A r \in Proxy \ {p} : pc'[r] = pc[r] /\ s2c'[r] = s2c[r] /\ id'[r] = id[r]
      BY <2>1, <2>3 DEF TypeOK
    <2>5. TalkOK(p)'
      BY <2>1, <2>2, <2>4 DEF TalkOK
    <2>6. accId[p] # -1
      BY DEF TypeOK
    <2>7. ProgressOK(p)'
      BY <1>0, <2>1, <2>2, <2>4, <2>6 DEF ProgressOK, HasId
    <2> HIDE DEF TypeOK, IInv
    <2> QED
      BY <2>1, <2>4, <2>5, <2>7, ProxyTalks
  <1>7. CASE HookMessage(p)
    BY <1>0, <1>7, ReportKeeps DEF HookMessage
  <1>8. CASE LocateFails(p)
    BY <1>0, <1>8, ReportKeeps DEF LocateFails
  <1>9. CASE MakeDecision(p)
    <2> DEFINE v == IF shape[p] = "emptyArg" THEN HoldsEmptyString ELSE Plain
    <2>1. /\ pc[p] = "created"
          /\ pc' = [pc EXCEPT ![p] = "deciding"]
          /\ c2s' = [c2s EXCEPT ![p] = Append(c2s[p], Request("MAKE_DECISION", parentId[p], v))]
          /\ UNCHANGED <<srv, idGen, acc, accId, ledger, parentId, env, conn, s2c,
                         id, cmd>>
      BY <1>9 DEF MakeDecision, Send, serverVars, commandVars
    <2>2. c2s[p] = <<>> /\ s2c[p] = <<>>
      BY <1>0, <2>1 DEF TalkOK
    <2>3. v \in {Plain, HoldsEmptyString}
      OBVIOUS
    <2> HIDE DEF v
    <2>4. /\ pc'[p] = "deciding"
          /\ c2s'[p] = <<Request("MAKE_DECISION", parentId[p], v)>>
          /\ \A r \in Proxy \ {p} : pc'[r] = pc[r] /\ c2s'[r] = c2s[r]
      BY <2>1, <2>2 DEF TypeOK
    <2>5. TalkOK(p)'
      BY <2>1, <2>2, <2>3, <2>4 DEF TalkOK
    <2>6. ProgressOK(p)'
      BY <1>0, <2>1, <2>4 DEF ProgressOK, HasId
    <2> HIDE DEF TypeOK, IInv
    <2> QED
      BY <2>1, <2>4, <2>5, <2>6, ProxyTalks
  <1>10. CASE ReceiveAction(p)
    <2>1. /\ pc[p] = "deciding"
          /\ s2c[p] # <<>>
          /\ s2c' = [s2c EXCEPT ![p] = Tail(s2c[p])]
          /\ pc' = [pc EXCEPT ![p] = "decided"]
          /\ UNCHANGED <<srv, idGen, acc, accId, ledger, parentId, env, conn, c2s,
                         id, cmd>>
      BY <1>10 DEF ReceiveAction, serverVars, commandVars
    <2>2. /\ c2s[p] = <<>>
          /\ s2c[p] = <<Reply("ACTION", 0)>>
          /\ HasId("decision", accId[p])
      BY <1>0, <2>1 DEF TalkOK
    <2>3. Tail(s2c[p]) = <<>>
      BY <2>2
    <2>4. /\ pc'[p] = "decided" /\ s2c'[p] = <<>>
          /\ \A r \in Proxy \ {p} : pc'[r] = pc[r] /\ s2c'[r] = s2c[r]
      BY <2>1, <2>3 DEF TypeOK
    <2>5. TalkOK(p)'
      BY <2>1, <2>2, <2>4 DEF TalkOK
    <2>6. ProgressOK(p)'
      BY <1>0, <2>1, <2>2, <2>4 DEF ProgressOK, HasId
    <2> HIDE DEF TypeOK, IInv
    <2> QED
      BY <2>1, <2>4, <2>5, <2>6, ProxyTalks
  <1>11. CASE Spawn(p)
    <2>1. /\ pc[p] = "decided"
          /\ \/ cmd' = [cmd EXCEPT ![p] = "running"] /\ pc' = [pc EXCEPT ![p] = "waiting"]
             \/ cmd' = cmd /\ pc' = [pc EXCEPT ![p] = "ran"]
          /\ UNCHANGED <<srv, idGen, acc, accId, ledger, parentId, env, conn, c2s,
                         s2c, id>>
      BY <1>11 DEF Spawn, serverVars, pipeVars
    <2>2. /\ pc'[p] \in {"waiting", "ran"}
          /\ \A r \in Proxy \ {p} : pc'[r] = pc[r] /\ cmd'[r] = cmd[r]
      BY <2>1, SMTT(30) DEF TypeOK
    <2>3. TalkOK(p)'
      BY <1>0, <2>1, <2>2 DEF TalkOK
    <2>4. ProgressOK(p)'
      BY <1>0, <2>1, <2>2 DEF ProgressOK, HasId
    <2> HIDE DEF TypeOK, IInv
    <2> QED
      BY <2>1, <2>2, <2>3, <2>4, ProxyTalks
  <1>12. CASE Wait(p)
    <2>1. /\ pc[p] = "waiting"
          /\ pc' = [pc EXCEPT ![p] = "ran"]
          /\ UNCHANGED <<srv, idGen, acc, accId, ledger, parentId, env, conn, c2s,
                         s2c, id, cmd>>
      BY <1>12 DEF Wait, serverVars, pipeVars, commandVars
    <2>2. pc'[p] = "ran" /\ \A r \in Proxy \ {p} : pc'[r] = pc[r]
      BY <2>1 DEF TypeOK
    <2>3. TalkOK(p)'
      BY <1>0, <2>1, <2>2 DEF TalkOK
    <2>4. ProgressOK(p)'
      BY <1>0, <2>1, <2>2 DEF ProgressOK, HasId
    <2> HIDE DEF TypeOK, IInv
    <2> QED
      BY <2>1, <2>2, <2>3, <2>4, ProxyTalks
  <1>13. CASE Finish(p)
    <2>1. /\ pc[p] = "ran"
          /\ pc' = [pc EXCEPT ![p] = "returning"]
          /\ c2s' = [c2s EXCEPT ![p] = Append(c2s[p], Request("FINISH", parentId[p], ret[p]))]
          /\ UNCHANGED <<srv, idGen, acc, accId, ledger, parentId, env, conn, s2c,
                         id, cmd>>
      BY <1>13 DEF Finish, Send, serverVars, commandVars
    <2>2. c2s[p] = <<>>
      BY <1>0, <2>1 DEF TalkOK
    <2>3. /\ pc'[p] = "returning"
          /\ c2s'[p] = <<Request("FINISH", parentId[p], ret[p])>>
          /\ \A r \in Proxy \ {p} : pc'[r] = pc[r] /\ c2s'[r] = c2s[r]
      BY <2>1, <2>2 DEF TypeOK
    <2>4. Head(c2s'[p]).op # "CREATE" /\ c2s'[p] = <<Head(c2s'[p])>>
      BY <2>3 DEF Request
    <2>5. TalkOK(p)'
      BY <2>3, <2>4 DEF TalkOK
    <2>6. ProgressOK(p)'
      BY <1>0, <2>1, <2>3 DEF ProgressOK, HasId
    <2> HIDE DEF TypeOK, IInv
    <2> QED
      BY <2>1, <2>3, <2>5, <2>6, ProxyTalks
  <1>14. CASE Exit(p)
    <2>1. /\ pc[p] = "returning"
          /\ pc' = [pc EXCEPT ![p] = "exited"]
          /\ conn' = [conn EXCEPT ![p] = IF CanWrite(p) THEN "shut" ELSE @]
          /\ UNCHANGED <<srv, idGen, acc, accId, ledger, parentId, env, c2s, s2c,
                         id, cmd>>
      BY <1>14 DEF Exit, CloseByProxy, commandVars
    <2> QED
      BY <2>1, ProxyGoes DEF Live, Gone
  <1>15. CASE BrokenPipe(p)
    <2>1. Dies(p) /\ Live(p)
      BY <1>15 DEF BrokenPipe, Live, Gone
    <2> QED
      BY <2>1, DiesKeeps
  <1> QED
    BY <1>1, <1>2, <1>3, <1>4, <1>5, <1>6, <1>7, <1>8, <1>9, <1>10, <1>11,
       <1>12, <1>13, <1>14, <1>15 DEF ProxyStep

\* A step of the coroutine of p's connection leaves proxies and commands alone.
LEMMA ServerOwn ==
  ASSUME TypeOK, IInv, NEW p \in Proxy, Grows,
         UNCHANGED <<pc, parentId, env, id, cmd>>,
         \A r \in Proxy \ {p} :
           /\ acc'[r] = acc[r] /\ accId'[r] = accId[r] /\ conn'[r] = conn[r]
           /\ c2s'[r] = c2s[r] /\ s2c'[r] = s2c[r],
         AcceptOK(p)', TalkOK(p)', ProgressOK(p)', TreeOK(p)',
         \A e \in ledger' \ ledger : EntryOK(e)'
  PROVE  IInv'
  <1>1. \A r \in Proxy \ {p} : SameFor(r)
    BY DEF SameFor
  <1>2. pc[p] # "off" => pc'[p] # "off" /\ parentId'[p] = parentId[p]
    OBVIOUS
  <1> HIDE DEF TypeOK, IInv, Grows
  <1> QED
    BY <1>1, <1>2, OwnStep

\* The coroutine takes one message and perhaps answers it: the id stays.
LEMMA ServerTalks ==
  ASSUME TypeOK, IInv, NEW p \in Proxy, ledger \subseteq ledger',
         UNCHANGED <<srv, idGen, accId, pc, parentId, env, id, cmd>>,
         \A r \in Proxy \ {p} :
           /\ acc'[r] = acc[r] /\ conn'[r] = conn[r]
           /\ c2s'[r] = c2s[r] /\ s2c'[r] = s2c[r],
         acc[p] = "reading",
         \/ acc'[p] = "reading" /\ conn'[p] = conn[p]
         \/ acc'[p] = "over" /\ conn'[p] \in {conn[p], "reset"},
         TalkOK(p)',
         \A e \in ledger' \ ledger : EntryOK(e)'
  PROVE  IInv'
  <1>0. AcceptOK(p) /\ ProgressOK(p) /\ TreeOK(p)
    BY DEF IInv
  <1>1. Grows
    BY DEF Grows, TypeOK
  <1>2. \A ev, i : HasId(ev, i) => HasId(ev, i)'
    BY DEF HasId
  <1>3. AcceptOK(p)'
    BY <1>0 DEF AcceptOK, Gone
  <1>4. ProgressOK(p)'
    BY <1>0, <1>2 DEF ProgressOK
  <1>5. TreeOK(p)'
    BY <1>0, <1>2 DEF TreeOK
  <1> HIDE DEF TypeOK, IInv
  <1> QED
    BY <1>1, <1>3, <1>4, <1>5, ServerOwn

\* A connection taken from the backlog belongs to a proxy without an id, and
\* the next id is beyond those of its parent and of every other connection.
LEMMA Backlog ==
  ASSUME TypeOK, IInv, NEW p \in Proxy, InBacklog(p)
  PROVE  /\ acc[p] = "none" /\ accId[p] = 0 /\ id[p] = -1 /\ cmd[p] = "none"
         /\ pc[p] \notin {"off", "start", "created", "deciding", "decided",
                          "waiting", "ran"}
         /\ pc[p] = "creating" => /\ c2s[p] = <<Request("CREATE", parentId[p], 0)>>
                                  /\ s2c[p] = <<>>
         /\ \A q \in Proxy : accId[q] < idGen + 1
         /\ parentId[p] < idGen + 1
  <1>0. AcceptOK(p) /\ TalkOK(p) /\ ProgressOK(p) /\ TreeOK(p)
    BY DEF IInv
  <1>1. acc[p] = "none" /\ accId[p] = 0 /\ conn[p] # "none"
    BY <1>0 DEF InBacklog, AcceptOK
  <1>2. id[p] = -1 /\ cmd[p] = "none"
    BY <1>0, <1>1 DEF ProgressOK
  <1>3. pc[p] \notin {"off", "start", "created", "deciding", "decided",
                      "waiting", "ran"}
    BY <1>0, <1>1, <1>2 DEF AcceptOK, ProgressOK
  <1>4. pc[p] = "creating" => /\ c2s[p] = <<Request("CREATE", parentId[p], 0)>>
                              /\ s2c[p] = <<>>
    BY <1>0, <1>1 DEF TalkOK
  <1>5. \A q \in Proxy : accId[q] < idGen + 1
    BY SMTT(30) DEF IInv, AcceptOK, TypeOK
  <1>6. parentId[p] < idGen + 1
    <2>1. CASE p = Root
      BY <1>0, <2>1 DEF TreeOK, TypeOK
    <2>2. CASE p # Root
      <3>1. PICK e \in ledger : e.ev = "created" /\ e.id = parentId[p]
        BY <1>0, <1>3, <2>2 DEF TreeOK, HasId
      <3>2. PICK q \in Proxy : e.id = accId[q]
        BY <3>1 DEF IInv, EntryOK
      <3> QED
        BY <1>5, <3>1, <3>2
    <2> QED
      BY <2>1, <2>2
  <1> QED
    BY <1>1, <1>2, <1>3, <1>4, <1>5, <1>6

\* Taking an id, or none, for a connection from the backlog.
LEMMA TakesId ==
  ASSUME TypeOK, IInv, NEW p \in Proxy, InBacklog(p), srv # "boot",
         UNCHANGED <<srv, ledger, c2s, s2c, pc, parentId, env, id, cmd>>,
         \/ idGen' = idGen + 1 /\ accId' = [accId EXCEPT ![p] = idGen + 1]
         \/ UNCHANGED <<idGen, accId>>,
         \A r \in Proxy \ {p} : acc'[r] = acc[r] /\ conn'[r] = conn[r],
         conn'[p] # "none",
         conn'[p] = "shut" => conn[p] = "shut",
         \/ acc'[p] = "over"
         \/ acc'[p] = "reading" /\ accId'[p] # 0 /\ conn'[p] \in {"open", "shut"}
  PROVE  IInv'
  <1>0. AcceptOK(p) /\ TalkOK(p) /\ ProgressOK(p) /\ TreeOK(p)
    BY DEF IInv
  <1> HIDE DEF IInv
  <1>1. /\ acc[p] = "none" /\ accId[p] = 0 /\ id[p] = -1 /\ cmd[p] = "none"
        /\ pc[p] \notin {"off", "start", "created", "deciding", "decided",
                         "waiting", "ran"}
        /\ pc[p] = "creating" => /\ c2s[p] = <<Request("CREATE", parentId[p], 0)>>
                                 /\ s2c[p] = <<>>
        /\ \A q \in Proxy : accId[q] < idGen + 1
        /\ parentId[p] < idGen + 1
    BY Backlog
  <1>2. /\ idGen' \in Nat /\ idGen <= idGen'
        /\ accId'[p] = 0 \/ (accId'[p] = idGen + 1 /\ idGen' = idGen + 1)
        /\ \A r \in Proxy \ {p} : accId'[r] = accId[r]
        /\ \A q \in Proxy : accId[q] \in Nat
        /\ idGen \in Nat
    BY <1>1 DEF TypeOK
  <1>3. Grows
    BY <1>1, <1>2 DEF Grows
  <1>4. AcceptOK(p)'
    <2>1. \A q \in Proxy : accId'[q] = accId'[p] /\ accId'[p] # 0 => q = p
      BY <1>1, <1>2
    <2>2. accId'[p] \in 0..idGen'
      BY <1>2
    <2>3. acc'[p] # "none"
      OBVIOUS
    <2> QED
      BY <1>0, <1>1, <2>1, <2>2, <2>3 DEF AcceptOK, Gone
  <1>5. TalkOK(p)'
    BY <1>0, <1>1 DEF TalkOK
  <1>6. ProgressOK(p)'
    BY <1>1 DEF ProgressOK
  <1>7. TreeOK(p)'
    <2>1. accId'[p] # 0 => parentId[p] < accId'[p]
      BY <1>1, <1>2
    <2> QED
      BY <1>0, <2>1 DEF TreeOK, HasId
  <1>8. ledger' \ ledger = {}
    OBVIOUS
  <1> HIDE DEF TypeOK
  <1> QED
    BY <1>2, <1>3, <1>4, <1>5, <1>6, <1>7, <1>8, ServerOwn

\* What a coroutine finds at the head of a pipe fits its proxy's progress.
LEMMA HeadOfPipe ==
  ASSUME TypeOK, IInv, NEW p \in Proxy, NEW op, Reading(p, op)
  PROVE  /\ srv = "up" /\ acc[p] = "reading" /\ accId[p] # 0
         /\ Tail(c2s[p]) = <<>>
         /\ pc[p] \in {"creating", "deciding", "returning", "exited", "killed"}
         /\ pc[p] = "creating" => op = "CREATE" /\ s2c[p] = <<>>
         /\ pc[p] = "deciding" => op = "MAKE_DECISION" /\ s2c[p] = <<>>
         /\ op = "CREATE" => Head(c2s[p]).parent = parentId[p]
         /\ conn[p] # "open" => pc[p] \in {"exited", "killed"}
  <1>0. AcceptOK(p) /\ TalkOK(p)
    BY DEF IInv
  <1>1. /\ srv = "up" /\ acc[p] = "reading" /\ c2s[p] # <<>> /\ Head(c2s[p]).op = op
    BY DEF Reading
  <1>2. accId[p] # 0 /\ (conn[p] # "open" => pc[p] \in {"exited", "killed"})
    BY <1>0, <1>1 DEF AcceptOK, Gone
  <1>3. pc[p] \in {"creating", "deciding", "returning", "exited", "killed"}
    BY <1>0, <1>1 DEF TalkOK, TypeOK
  <1>4. CASE pc[p] = "creating"
    <2>1. c2s[p] = <<Request("CREATE", parentId[p], 0)>> /\ s2c[p] = <<>>
      BY <1>0, <1>1, <1>4 DEF TalkOK
    <2>2. Head(c2s[p]) = Request("CREATE", parentId[p], 0) /\ Tail(c2s[p]) = <<>>
      BY <2>1
    <2> QED
      BY <1>1, <1>2, <1>4, <2>1, <2>2 DEF Request
  <1>5. CASE pc[p] = "deciding"
    <2>1. PICK v \in {Plain, HoldsEmptyString} :
            c2s[p] = <<Request("MAKE_DECISION", parentId[p], v)>> /\ s2c[p] = <<>>
      BY <1>0, <1>1, <1>5 DEF TalkOK
    <2>2. Head(c2s[p]) = Request("MAKE_DECISION", parentId[p], v) /\ Tail(c2s[p]) = <<>>
      BY <2>1
    <2> QED
      BY <1>1, <1>2, <1>5, <2>1, <2>2 DEF Request
  <1>6. CASE pc[p] \in {"returning", "exited", "killed"}
    <2>1. /\ c2s[p] = <<Head(c2s[p])>>
          /\ Head(c2s[p]).op = "CREATE" => Head(c2s[p]).parent = parentId[p]
      BY <1>0, <1>1, <1>6 DEF TalkOK
    <2>2. Tail(c2s[p]) = <<>>
      <3> DEFINE m == Head(c2s[p])
      <3>1. c2s[p] = <<m>>
        BY <2>1
      <3> HIDE DEF m
      <3> QED
        BY <3>1
    <2> QED
      BY <1>1, <1>2, <1>6, <2>1, <2>2
  <1> QED
    BY <1>3, <1>4, <1>5, <1>6

\* No step of the event loop for one connection disturbs the invariant.
LEMMA AcceptorStepKeeps ==
  ASSUME TypeOK, IInv, NEW p \in Proxy, AcceptorStep(p)
  PROVE  IInv'
  <1>0. AcceptOK(p) /\ TalkOK(p)
    BY DEF IInv
  <1> HIDE DEF IInv
  <1>1. CASE Accept(p)
    <2>1. /\ srv = "up" /\ InBacklog(p) /\ conn[p] \in {"pending", "shut"}
          /\ idGen' = idGen + 1
          /\ accId' = [accId EXCEPT ![p] = idGen + 1]
          /\ acc' = [acc EXCEPT ![p] = "reading"]
          /\ conn' = [conn EXCEPT ![p] = IF conn[p] = "pending" THEN "open" ELSE conn[p]]
          /\ UNCHANGED <<srv, ledger, c2s, s2c, pc, parentId, env, id, cmd>>
      BY <1>1 DEF Accept, InBacklog, proxyVars, commandVars
    <2>2. /\ acc'[p] = "reading" /\ accId'[p] # 0
          /\ conn'[p] \in {"open", "shut"}
          /\ conn'[p] = "shut" => conn[p] = "shut"
          /\ \A r \in Proxy \ {p} : acc'[r] = acc[r] /\ conn'[r] = conn[r]
      BY <2>1 DEF TypeOK
    <2> HIDE DEF TypeOK
    <2> QED
      BY <2>1, <2>2, TakesId
  <1>2. CASE AcceptFails(p)
    <2>1. /\ srv = "up" /\ InBacklog(p) /\ conn[p] \in {"pending", "shut"}
          /\ \/ idGen' = idGen + 1 /\ accId' = [accId EXCEPT ![p] = idGen + 1]
             \/ UNCHANGED <<idGen, accId>>
          /\ acc' = [acc EXCEPT ![p] = "over"]
          /\ conn' = [conn EXCEPT ![p] = IF conn[p] = "shut" THEN conn[p] ELSE "reset"]
          /\ UNCHANGED <<srv, ledger, c2s, s2c, pc, parentId, env, id, cmd>>
      BY <1>2 DEF AcceptFails, InBacklog, CloseByServer, proxyVars, commandVars
    <2>2. /\ acc'[p] = "over" /\ conn'[p] # "none"
          /\ conn'[p] = "shut" => conn[p] = "shut"
          /\ \A r \in Proxy \ {p} : acc'[r] = acc[r] /\ conn'[r] = conn[r]
      BY <2>1 DEF TypeOK
    <2> HIDE DEF TypeOK
    <2> QED
      BY <2>1, <2>2, TakesId
  <1>3. CASE ServeCreate(p)
    <2> DEFINE e == Entry("created", accId[p], Head(c2s[p]).parent)
               m == Reply("ID", accId[p])
    <2>1. /\ Reading(p, "CREATE")
          /\ c2s' = [c2s EXCEPT ![p] = Tail(c2s[p])]
          /\ ledger' = ledger \cup {e}
          /\ UNCHANGED <<srv, idGen, accId, conn, pc, parentId, env, id, cmd>>
      BY <1>3 DEF ServeCreate, Record, proxyVars, commandVars
    <2>2. Answer(p, m)
      BY <1>3 DEF ServeCreate
    <2>3. /\ srv = "up" /\ acc[p] = "reading" /\ accId[p] # 0 /\ Tail(c2s[p]) = <<>>
          /\ pc[p] \in {"creating", "returning", "exited", "killed"}
          /\ pc[p] = "creating" => s2c[p] = <<>>
          /\ Head(c2s[p]).parent = parentId[p]
          /\ conn[p] # "open" => pc[p] \in {"exited", "killed"}
      BY <2>1, HeadOfPipe
    <2>4. c2s'[p] = <<>> /\ \A r \in Proxy \ {p} : c2s'[r] = c2s[r]
      BY <2>1, <2>3 DEF TypeOK
    <2>5. e.ev = "created" /\ e.id = accId[p] /\ e.val = parentId[p] /\ e \in ledger'
      BY <2>1, <2>3 DEF Entry
    <2>6. \A f \in ledger' \ ledger : EntryOK(f)'
      BY <2>1, <2>3, <2>5 DEF EntryOK
    <2>7. HasId("created", accId[p])'
      BY <2>1, <2>5 DEF HasId
    <2> HIDE DEF e, m
    <2>8. /\ \A r \in Proxy \ {p} : acc'[r] = acc[r] /\ s2c'[r] = s2c[r]
          /\ acc'[p] \in {"reading", "over"}
          /\ conn[p] = "open" => s2c'[p] = Append(s2c[p], m)
      BY <2>2, <2>3 DEF Answer, TypeOK
    <2>9. TalkOK(p)'
      <3>1. pc[p] = "creating" => s2c'[p] = <<m>>
        BY <2>3, <2>8
      <3> QED
        BY <2>1, <2>3, <2>4, <2>7, <3>1 DEF TalkOK, m
    <2> HIDE DEF TypeOK
    <2> QED
      BY <2>1, <2>3, <2>4, <2>6, <2>8, <2>9, ServerTalks
  <1>4. CASE ServeDecision(p)
    <2> DEFINE e == Entry("decision", accId[p], 0)
               m == Reply("ACTION", 0)
    <2>1. /\ Reading(p, "MAKE_DECISION")
          /\ c2s' = [c2s EXCEPT ![p] = Tail(c2s[p])]
          /\ ledger' = ledger \cup {e}
          /\ UNCHANGED <<srv, idGen, accId, conn, pc, parentId, env, id, cmd>>
      BY <1>4 DEF ServeDecision, Record, proxyVars, commandVars
    <2>2. Answer(p, m)
      BY <1>4 DEF ServeDecision
    <2>3. /\ srv = "up" /\ acc[p] = "reading" /\ accId[p] # 0 /\ Tail(c2s[p]) = <<>>
          /\ pc[p] \in {"deciding", "returning", "exited", "killed"}
          /\ pc[p] = "deciding" => s2c[p] = <<>>
          /\ conn[p] # "open" => pc[p] \in {"exited", "killed"}
      BY <2>1, HeadOfPipe
    <2>4. c2s'[p] = <<>> /\ \A r \in Proxy \ {p} : c2s'[r] = c2s[r]
      BY <2>1, <2>3 DEF TypeOK
    <2>5. e.ev = "decision" /\ e.id = accId[p] /\ e \in ledger'
      BY <2>1 DEF Entry
    <2>6. \A f \in ledger' \ ledger : EntryOK(f)'
      BY <2>1, <2>5 DEF EntryOK
    <2>7. HasId("decision", accId[p])'
      BY <2>1, <2>5 DEF HasId
    <2> HIDE DEF e, m
    <2>8. /\ \A r \in Proxy \ {p} : acc'[r] = acc[r] /\ s2c'[r] = s2c[r]
          /\ acc'[p] \in {"reading", "over"}
          /\ conn[p] = "open" => s2c'[p] = Append(s2c[p], m)
      BY <2>2, <2>3 DEF Answer, TypeOK
    <2>9. TalkOK(p)'
      <3>1. pc[p] = "deciding" => s2c'[p] = <<m>>
        BY <2>3, <2>8
      <3> QED
        BY <2>1, <2>3, <2>4, <2>7, <3>1 DEF TalkOK, m
    <2> HIDE DEF TypeOK
    <2> QED
      BY <2>1, <2>3, <2>4, <2>6, <2>8, <2>9, ServerTalks
  <1>5. CASE DecisionUnreadable(p)
    <2>1. /\ Reading(p, "MAKE_DECISION")
          /\ c2s' = [c2s EXCEPT ![p] = Tail(c2s[p])]
          /\ acc' = [acc EXCEPT ![p] = "over"]
          /\ conn' = [conn EXCEPT ![p] = IF conn[p] = "shut" THEN conn[p] ELSE "reset"]
          /\ UNCHANGED <<srv, idGen, accId, ledger, s2c, pc, parentId, env, id, cmd>>
      BY <1>5 DEF DecisionUnreadable, CloseByServer, proxyVars, commandVars
    <2>2. /\ acc[p] = "reading" /\ Tail(c2s[p]) = <<>>
          /\ pc[p] \in {"deciding", "returning", "exited", "killed"}
          /\ pc[p] = "deciding" => s2c[p] = <<>>
      BY <2>1, HeadOfPipe
    <2>3. /\ c2s'[p] = <<>> /\ acc'[p] = "over" /\ conn'[p] \in {conn[p], "reset"}
          /\ \A r \in Proxy \ {p} :
               c2s'[r] = c2s[r] /\ acc'[r] = acc[r] /\ conn'[r] = conn[r]
      BY <2>1, <2>2 DEF TypeOK
    <2>4. TalkOK(p)'
      BY <2>1, <2>2, <2>3 DEF TalkOK
    <2>5. ledger \subseteq ledger' /\ ledger' \ ledger = {}
      BY <2>1
    <2> HIDE DEF TypeOK
    <2> QED
      BY <2>1, <2>2, <2>3, <2>4, <2>5, ServerTalks
  <1>6. ASSUME NEW op \in {"FINISH", "REPORT_ERROR"}, Reading(p, op),
               NEW ev \in {"finish", "error"}, NEW i, NEW v, Record(ev, i, v),
               c2s' = [c2s EXCEPT ![p] = Tail(c2s[p])],
               UNCHANGED <<srv, idGen, acc, accId, conn, s2c, pc, parentId, env,
                           id, cmd>>
        PROVE  IInv'
    <2>1. /\ acc[p] = "reading" /\ Tail(c2s[p]) = <<>>
          /\ pc[p] \in {"returning", "exited", "killed"}
      BY <1>6, HeadOfPipe
    <2>2. c2s'[p] = <<>> /\ \A r \in Proxy \ {p} : c2s'[r] = c2s[r]
      BY <1>6, <2>1 DEF TypeOK
    <2>3. TalkOK(p)'
      BY <1>6, <2>1, <2>2 DEF TalkOK
    <2>4. ledger' = ledger \cup {Entry(ev, i, v)} /\ Entry(ev, i, v).ev # "created"
      BY <1>6 DEF Record, Entry
    <2>5. ledger \subseteq ledger' /\ \A f \in ledger' \ ledger : EntryOK(f)'
      BY <2>4 DEF EntryOK
    <2> HIDE DEF TypeOK
    <2> QED
      BY <1>6, <2>1, <2>2, <2>3, <2>5, ServerTalks
  <1>7. CASE ServeFinish(p)
    <2>1. /\ Reading(p, "FINISH")
          /\ Record("finish", accId[p], Head(c2s[p]).val)
          /\ c2s' = [c2s EXCEPT ![p] = Tail(c2s[p])]
          /\ UNCHANGED <<srv, idGen, acc, accId, conn, s2c, pc, parentId, env,
                         id, cmd>>
      BY <1>7 DEF ServeFinish, proxyVars, commandVars
    <2> QED
      BY <1>6, <2>1
  <1>8. CASE ServeError(p)
    <2>1. /\ Reading(p, "REPORT_ERROR")
          /\ Record("error", Head(c2s[p]).val, Head(c2s[p]).parent)
          /\ c2s' = [c2s EXCEPT ![p] = Tail(c2s[p])]
          /\ UNCHANGED <<srv, idGen, acc, accId, conn, s2c, pc, parentId, env,
                         id, cmd>>
      BY <1>8 DEF ServeError, proxyVars, commandVars
    <2> QED
      BY <1>6, <2>1
  <1>9. CASE Disconnect(p)
    <2>1. /\ acc[p] = "reading"
          /\ acc' = [acc EXCEPT ![p] = "over"]
          /\ UNCHANGED <<srv, idGen, accId, ledger, conn, c2s, s2c, pc, parentId,
                         env, id, cmd>>
      BY <1>9 DEF Disconnect, pipeVars, proxyVars, commandVars
    <2>2. acc'[p] = "over" /\ \A r \in Proxy \ {p} : acc'[r] = acc[r]
      BY <2>1 DEF TypeOK
    <2>3. TalkOK(p)'
      BY <1>0, <2>1 DEF TalkOK, HasId
    <2>4. ledger \subseteq ledger' /\ ledger' \ ledger = {}
      BY <2>1
    <2> HIDE DEF TypeOK
    <2> QED
      BY <2>1, <2>2, <2>3, <2>4, ServerTalks
  <1> QED
    BY <1>1, <1>2, <1>3, <1>4, <1>5, <1>7, <1>8, <1>9 DEF AcceptorStep

\* What every end of loop and of the server does: the coroutines that read are
\* destroyed, some of the pipes that could be written to are reset, or all.
Dropped ==
  /\ acc' = [r \in Proxy |-> IF acc[r] = "reading" THEN "destroyed" ELSE acc[r]]
  /\ \A r \in Proxy : conn'[r] = conn[r] \/ (CanWrite(r) /\ conn'[r] = "reset")
  /\ UNCHANGED <<idGen, accId, ledger, settled, c2s, s2c, proxyVars, commandVars>>

\* A server that is gone drops its coroutines and no pipe can be written to.
LEMMA ConnectionsDropped ==
  ASSUME DropConnections
  PROVE  Dropped /\ \A r \in Proxy : ~CanWrite(r)'
  BY DEF DropConnections, CloseAllByServer, Dropped, CanWrite

\* So does the teardown, but for the open pipes of a release build that had
\* coroutines to free.
LEMMA TeardownDrops ==
  ASSUME TypeOK, Teardown
  PROVE  /\ Dropped /\ LoopOver'
         /\ \A r \in Proxy : CanWrite(r)' => srv' = "freed" /\ conn[r] = "open"
  <1>1. CASE DropConnections /\ srv' \in {"ended", "aborted"}
    BY <1>1, ConnectionsDropped DEF LoopOver
  <1>2. CASE FreeCoroutines /\ srv' = "freed"
    <2>1. \A r \in Proxy : conn'[r] = IF conn[r] = "pending" THEN "reset" ELSE conn[r]
      BY <1>2 DEF FreeCoroutines
    <2>2. Dropped
      BY <1>2, <2>1 DEF FreeCoroutines, Dropped, CanWrite
    <2>3. \A r \in Proxy : CanWrite(r)' => conn[r] = "open"
      BY <2>1 DEF CanWrite
    <2> QED
      BY <1>2, <2>2, <2>3 DEF LoopOver
  <1> QED
    BY <1>1, <1>2 DEF Teardown

\* The end of the server drops coroutines and pipes and changes nothing else.
LEMMA DropKeeps ==
  ASSUME TypeOK, IInv, srv # "boot", srv' # "boot", Dropped
  PROVE  IInv'
  <1>1. /\ acc' = [r \in Proxy |-> IF acc[r] = "reading" THEN "destroyed" ELSE acc[r]]
        /\ \A r \in Proxy : conn'[r] = conn[r] \/ (CanWrite(r) /\ conn'[r] = "reset")
        /\ UNCHANGED <<idGen, accId, ledger, c2s, s2c, pc, parentId, env, id, cmd>>
    BY DEF Dropped, proxyVars, commandVars
  <1>2. ASSUME NEW r \in Proxy
        PROVE  AcceptOK(r)' /\ TalkOK(r)' /\ ProgressOK(r)' /\ TreeOK(r)'
    <2>0. AcceptOK(r) /\ TalkOK(r) /\ ProgressOK(r) /\ TreeOK(r)
      BY DEF IInv
    <2>1. /\ acc'[r] # "reading"
          /\ acc'[r] = "none" => acc[r] = "none"
          /\ acc[r] = "none" => acc'[r] = "none"
          /\ conn'[r] = "none" => conn[r] = "none"
          /\ conn[r] = "none" => conn'[r] = "none"
          /\ conn'[r] = "shut" => conn[r] = "shut"
      BY <1>1 DEF CanWrite
    <2>2. AcceptOK(r)'
      BY <1>1, <2>0, <2>1 DEF AcceptOK, Gone
    <2>3. TalkOK(r)'
      BY <1>1, <2>0 DEF TalkOK, HasId
    <2>4. ProgressOK(r)'
      BY <1>1, <2>0 DEF ProgressOK, HasId
    <2>5. TreeOK(r)'
      BY <1>1, <2>0 DEF TreeOK, HasId
    <2> QED
      BY <2>2, <2>3, <2>4, <2>5
  <1>3. \A e \in ledger' : EntryOK(e)'
    BY <1>1 DEF IInv, EntryOK
  <1> QED
    BY <1>2, <1>3 DEF IInv

\* A proxy is put in place of a process of q's command: its parent, and every
\* id of its environment, has been recorded.
LEMMA LaunchKeeps ==
  ASSUME TypeOK, IInv, NEW q \in Proxy, NEW p \in Proxy, Launch(q, p)
  PROVE  IInv'
  <1>0. /\ AcceptOK(p) /\ TalkOK(p) /\ ProgressOK(p) /\ TreeOK(p)
        /\ AcceptOK(q) /\ ProgressOK(q) /\ TreeOK(q)
        /\ env[q] \in Seq(Int) /\ id[q] \in Int
    BY DEF IInv, TypeOK
  <1> HIDE DEF IInv
  <1>1. /\ pc[p] = "off" /\ p # Root /\ MayLaunch(q)
        /\ pc' = [pc EXCEPT ![p] = "start"]
        /\ parentId' = [parentId EXCEPT ![p] = SelfId(q)]
        /\ UNCHANGED <<srv, idGen, acc, accId, ledger, conn, c2s, s2c, id, cmd>>
    BY DEF Launch, serverVars, pipeVars, commandVars
  <1>2. HasId("created", id[q]) /\ srv # "boot"
    <2>1. cmd[q] # "none"
      BY <1>1 DEF MayLaunch
    <2>2. id[q] # -1 /\ HasId("created", id[q])
      BY <1>0, <2>1 DEF ProgressOK
    <2>3. pc[q] # "off"
      BY <1>0, <2>2 DEF ProgressOK
    <2> QED
      BY <1>0, <2>2, <2>3 DEF AcceptOK
  <1>3. /\ CmdEnv(q) \in Seq(Int)
        /\ \A i \in 1..Len(CmdEnv(q)) : HasId("created", CmdEnv(q)[i])
        /\ HasId("created", SelfId(q))
    <2>1. /\ CmdEnv(q) \in Seq(Int)
          /\ Len(CmdEnv(q)) = Len(env[q]) + 1
          /\ \A i \in 1..Len(env[q]) : CmdEnv(q)[i] = env[q][i]
          /\ CmdEnv(q)[Len(env[q]) + 1] = id[q]
      BY <1>0 DEF CmdEnv
    <2>2. \A i \in 1..Len(CmdEnv(q)) : HasId("created", CmdEnv(q)[i])
      BY <1>0, <1>2, <2>1, SMTT(30) DEF TreeOK
    <2>3. Len(env[q]) \in Nat
      BY <1>0
    <2>4. SelfId(q) = CmdEnv(q)[1] /\ 1 \in 1..Len(CmdEnv(q))
      BY <2>1, <2>3 DEF SelfId
    <2> QED
      BY <2>1, <2>2, <2>4
  <1>4. PICK e \in {CmdEnv(q), <<>>} : env' = [env EXCEPT ![p] = e]
    BY DEF Launch
  <1>5. /\ pc'[p] = "start" /\ parentId'[p] = SelfId(q) /\ env'[p] = e
        /\ \A r \in Proxy \ {p} :
             pc'[r] = pc[r] /\ parentId'[r] = parentId[r] /\ env'[r] = env[r]
    BY <1>1, <1>4 DEF TypeOK
  <1>6. Grows
    BY <1>1 DEF Grows, TypeOK
  <1>7. \A r \in Proxy \ {p} : SameFor(r)
    BY <1>1, <1>5 DEF SameFor
  <1>8. AcceptOK(p)'
    BY <1>0, <1>1, <1>2, <1>5 DEF AcceptOK, Gone
  <1>9. TalkOK(p)'
    BY <1>0, <1>1, <1>5 DEF TalkOK
  <1>10. ProgressOK(p)'
    BY <1>0, <1>1, <1>5 DEF ProgressOK, HasId
  <1>11. TreeOK(p)'
    <2>1. \A ev, i : HasId(ev, i) => HasId(ev, i)'
      BY <1>1 DEF HasId
    <2>2. (\A i \in 1..Len(env[p]) : HasId("created", env[p][i]))'
      <3>1. CASE e = CmdEnv(q)
        BY <1>3, <1>5, <2>1, <3>1
      <3>2. CASE e = <<>>
        BY <1>5, <3>2
      <3> QED
        BY <3>1, <3>2
    <2>3. accId'[p] = 0
      BY <1>0, <1>1 DEF AcceptOK
    <2>4. HasId("created", parentId[p])'
      BY <1>3, <1>5, <2>1
    <2> QED
      BY <1>1, <2>2, <2>3, <2>4 DEF TreeOK
  <1>12. ledger' \ ledger = {}
    BY <1>1
  <1> HIDE DEF TypeOK
  <1> QED
    BY <1>1, <1>6, <1>7, <1>8, <1>9, <1>10, <1>11, <1>12, OwnStep

\* The loop starts the root proxy, or nothing.
LEMMA BootKeeps ==
  ASSUME TypeOK, IInv, Boot \/ BootFails
  PROVE  IInv'
  <1>0. /\ AcceptOK(Root) /\ TalkOK(Root) /\ ProgressOK(Root) /\ TreeOK(Root)
        /\ Root \in Proxy
    BY RootAssumption DEF IInv
  <1> HIDE DEF IInv
  <1>1. /\ srv = "boot" /\ srv' # "boot"
        /\ pc' = [pc EXCEPT ![Root] = "start"] \/ pc' = pc
        /\ UNCHANGED <<idGen, acc, accId, ledger, conn, c2s, s2c, parentId, env,
                       id, cmd>>
    BY DEF Boot, BootFails, pipeVars, proxyVars, commandVars
  <1>2. pc[Root] = "off" /\ conn[Root] = "none"
    BY <1>0, <1>1 DEF AcceptOK
  <1>3. /\ pc'[Root] \in {"off", "start"}
        /\ \A r \in Proxy \ {Root} : pc'[r] = pc[r]
    BY <1>0, <1>1, <1>2 DEF TypeOK
  <1>4. Grows
    BY <1>1 DEF Grows, TypeOK
  <1>5. \A r \in Proxy \ {Root} : SameFor(r)
    BY <1>1, <1>3 DEF SameFor
  <1>6. AcceptOK(Root)'
    BY <1>0, <1>1, <1>2, <1>3 DEF AcceptOK
  <1>7. TalkOK(Root)'
    BY <1>0, <1>1, <1>2, <1>3 DEF TalkOK
  <1>8. ProgressOK(Root)'
    BY <1>0, <1>1, <1>2, <1>3 DEF ProgressOK, HasId
  <1>9. TreeOK(Root)'
    BY <1>0, <1>1 DEF TreeOK, HasId
  <1>10. ledger' \ ledger = {}
    BY <1>1
  <1> HIDE DEF TypeOK
  <1> QED
    BY <1>0, <1>2, <1>4, <1>5, <1>6, <1>7, <1>8, <1>9, <1>10, OwnStep

\* The end of a command changes only the command.
LEMMA CommandEndsKeeps ==
  ASSUME TypeOK, IInv, NEW p \in Proxy, CommandEnds(p)
  PROVE  IInv'
  <1>0. AcceptOK(p) /\ TalkOK(p) /\ ProgressOK(p) /\ TreeOK(p)
    BY DEF IInv
  <1> HIDE DEF IInv
  <1>1. /\ cmd[p] = "running"
        /\ \/ cmd' = [cmd EXCEPT ![p] = "exited"]
           \/ cmd' = [cmd EXCEPT ![p] = "signalled"]
        /\ UNCHANGED <<srv, idGen, acc, accId, ledger, conn, c2s, s2c, pc,
                       parentId, env, id>>
    BY DEF CommandEnds, serverVars, pipeVars, proxyVars
  <1>2. \A r \in Proxy \ {p} : cmd'[r] = cmd[r]
    BY <1>1, SMTT(30) DEF TypeOK
  <1>3. Grows
    BY <1>1 DEF Grows, TypeOK
  <1>4. \A r \in Proxy \ {p} : SameFor(r)
    BY <1>1, <1>2 DEF SameFor
  <1>5. AcceptOK(p)'
    BY <1>0, <1>1 DEF AcceptOK, Gone
  <1>6. TalkOK(p)' /\ ProgressOK(p)' /\ TreeOK(p)'
    BY <1>0, <1>1 DEF TalkOK, ProgressOK, TreeOK, HasId
  <1>7. ledger' \ ledger = {}
    BY <1>1
  <1> HIDE DEF TypeOK
  <1> QED
    BY <1>1, <1>3, <1>4, <1>5, <1>6, <1>7, OwnStep

\* Initially nothing is under way.
LEMMA InitIInv == Init => IInv
  <1> SUFFICES ASSUME Init
               PROVE  IInv
    OBVIOUS
  <1>1. ASSUME NEW p \in Proxy
        PROVE  AcceptOK(p) /\ TalkOK(p) /\ ProgressOK(p) /\ TreeOK(p)
    <2>1. /\ srv = "boot" /\ idGen = 0 /\ acc[p] = "none" /\ accId[p] = 0
          /\ conn[p] = "none" /\ c2s[p] = <<>> /\ s2c[p] = <<>> /\ pc[p] = "off"
          /\ parentId[p] = 0 /\ env[p] = <<>> /\ id[p] = -1 /\ cmd[p] = "none"
          /\ \A q \in Proxy : accId[q] = 0
      BY DEF Init
    <2> QED
      BY <2>1 DEF AcceptOK, TalkOK, ProgressOK, TreeOK
  <1>2. \A e \in ledger : EntryOK(e)
    BY DEF Init
  <1> QED
    BY <1>1, <1>2 DEF IInv

\* Every step keeps the invariant.
LEMMA NextIInv == TypeOK /\ IInv /\ [Next]_vars => IInv'
  <1> SUFFICES ASSUME TypeOK, IInv, [Next]_vars
               PROVE  IInv'
    OBVIOUS
  <1> HIDE DEF TypeOK, IInv
  <1>1. CASE Boot \/ BootFails
    BY <1>1, BootKeeps
  <1>2. CASE ServerEnds
    BY <1>2, TeardownDrops, DropKeeps DEF ServerEnds, LoopOver
  <1>10. CASE ServerCrashes \/ FreedCrashes
    BY <1>10, ConnectionsDropped, DropKeeps DEF ServerCrashes, FreedCrashes
  <1>3. ASSUME NEW p \in Proxy, ProxyStep(p)
        PROVE  IInv'
    BY <1>3, ProxyStepKeeps
  <1>4. ASSUME NEW p \in Proxy, AcceptorStep(p)
        PROVE  IInv'
    BY <1>4, AcceptorStepKeeps
  <1>5. ASSUME NEW p \in Proxy, Kill(p)
        PROVE  IInv'
    BY <1>5, DiesKeeps DEF Kill
  <1>9. ASSUME NEW p \in Proxy, ServerBrokenPipe(p)
        PROVE  IInv'
    BY <1>9, ConnectionsDropped, DropKeeps DEF ServerBrokenPipe, Reading
  <1>6. ASSUME NEW p \in Proxy, CommandEnds(p)
        PROVE  IInv'
    BY <1>6, CommandEndsKeeps
  <1>7. ASSUME NEW q \in Proxy, NEW p \in Proxy, Launch(q, p)
        PROVE  IInv'
    BY <1>7, LaunchKeeps
  <1>8. CASE UNCHANGED vars
    <2>1. UNCHANGED <<srv, idGen, acc, accId, ledger, conn, c2s, s2c, pc, parentId,
                      env, id, cmd>>
      BY <1>8 DEF vars, serverVars, pipeVars, proxyVars, commandVars
    <2>2. ASSUME NEW p \in Proxy
          PROVE  AcceptOK(p)' /\ TalkOK(p)' /\ ProgressOK(p)' /\ TreeOK(p)'
      <3>0. AcceptOK(p) /\ TalkOK(p) /\ ProgressOK(p) /\ TreeOK(p)
        BY DEF IInv
      <3>1. AcceptOK(p)'
        BY <2>1, <3>0 DEF AcceptOK, Gone
      <3>2. TalkOK(p)'
        BY <2>1, <3>0 DEF TalkOK, HasId
      <3>3. ProgressOK(p)' /\ TreeOK(p)'
        BY <2>1, <3>0 DEF ProgressOK, TreeOK, HasId
      <3> QED
        BY <3>1, <3>2, <3>3
    <2>3. \A e \in ledger' : EntryOK(e)'
      BY <2>1 DEF EntryOK, IInv
    <2> QED
      BY <2>2, <2>3 DEF IInv
  <1> QED
    BY <1>1, <1>2, <1>3, <1>4, <1>5, <1>6, <1>7, <1>8, <1>9, <1>10
       DEF Next, Terminated

\* Pipes, ids, progress, environments and ledger agree in every reachable
\* state, for any number of proxies and every combination of faults.
THEOREM Agreement == Spec => []IInv
  BY InitIInv, NextIInv, TypeCorrect, PTL DEF Spec

\* Ids are never mixed up (accept's id_generator and rpc_handler::create).
THEOREM OwnIds == Spec => []IdsAreOwn
  <1>1. TypeOK /\ IInv => IdsAreOwn
    <2> SUFFICES ASSUME TypeOK, IInv, NEW p \in Proxy, id[p] # -1
                 PROVE  /\ id[p] = accId[p]
                        /\ id[p] \in 1..idGen
                        /\ \A q \in Proxy : id[q] = id[p] => q = p
      BY DEF IdsAreOwn
    <2>1. \A q \in Proxy : AcceptOK(q) /\ ProgressOK(q)
      BY DEF IInv
    <2>2. id[p] = accId[p] /\ id[p] # 0
      BY <2>1 DEF ProgressOK
    <2>3. id[p] \in 1..idGen
      BY <2>1, <2>2 DEF AcceptOK, TypeOK
    <2>4. \A q \in Proxy : id[q] = id[p] => accId[q] = accId[p]
      BY <2>1, <2>2 DEF ProgressOK
    <2> QED
      BY <2>1, <2>2, <2>3, <2>4 DEF AcceptOK
  <1> QED
    BY <1>1, TypeCorrect, Agreement, PTL

\* No command runs before the server decided about it (run in
\* catter-proxy/main.cc after make_decision).
THEOREM DecidedFirst == Spec => []RunsOnlyDecided
  <1>1. IInv => RunsOnlyDecided
    <2> SUFFICES ASSUME IInv, NEW p \in Proxy, cmd[p] # "none"
                 PROVE  \E e, f \in ledger :
                          /\ e.ev = "created" /\ e.id = accId[p]
                          /\ f.ev = "decision" /\ f.id = accId[p]
      BY DEF RunsOnlyDecided
    <2>1. HasId("created", accId[p]) /\ HasId("decision", accId[p])
      BY DEF IInv, ProgressOK
    <2> QED
      BY <2>1 DEF HasId
  <1> QED
    BY <1>1, Agreement, PTL

\* The tree of commands the server records is a tree (the CREATE case of
\* accept and the hook's `-p' argument).
THEOREM RecordedTree == Spec => []ParentIsOlder
  <1>1. TypeOK /\ IInv => ParentIsOlder
    <2> SUFFICES ASSUME TypeOK, IInv, NEW e \in ledger, e.ev = "created"
                 PROVE  \/ e.val = 0 /\ e.id = accId[Root]
                        \/ /\ e.val \in 1..(e.id - 1)
                           /\ \E f \in ledger : f.ev = "created" /\ f.id = e.val
      BY DEF ParentIsOlder
    <2>1. PICK p \in Proxy : /\ e.id = accId[p] /\ e.id # 0
                              /\ e.val = parentId[p] /\ pc[p] # "off"
      BY DEF IInv, EntryOK
    <2>2. TreeOK(p)
      BY DEF IInv
    <2>3. CASE p = Root
      BY <2>1, <2>2, <2>3 DEF TreeOK
    <2>4. CASE p # Root
      <3>1. PICK f \in ledger : f.ev = "created" /\ f.id = parentId[p]
        BY <2>1, <2>2, <2>4 DEF TreeOK, HasId
      <3>2. PICK q \in Proxy : f.id = accId[q] /\ f.id # 0
        BY <3>1 DEF IInv, EntryOK
      <3>3. accId[q] \in Nat /\ accId[p] \in Nat /\ parentId[p] < accId[p]
        BY <2>1, <2>2 DEF TreeOK, TypeOK
      <3> QED
        BY <2>1, <3>1, <3>2, <3>3
    <2> QED
      BY <2>3, <2>4
  <1> QED
    BY <1>1, TypeCorrect, Agreement, PTL

-----------------------------------------------------------------------------
(* A build whose commands wait for what they start.                        *)

\* No command leaves a process behind, and of the failures of the environment
\* only those happen that CommandsRun speaks of, or that stop no command.
Orderly == ~Background /\ Faults \subseteq {"boot", "accept", "wait", "crash", "misuse"}

\* Why a command may not be run: its connection was refused, or the server
\* crashed.
Excused(p) == (acc[p] = "over" /\ ~Created(p)) \/ srv = "crashed"

\* A proxy gets through its main, or is excused.
ThroughOK(p) ==
  /\ cmd[p] = "running" => pc[p] = "waiting"
  /\ pc[p] = "waiting" => cmd[p] \in {"running", "exited"}
  /\ pc[p] = "ran" => cmd[p] = "exited"
  /\ pc[p] \in {"returning", "exited", "killed"} /\ shape[p] = "command" =>
       cmd[p] = "exited" \/ Excused(p)

\* A live proxy has its pipe, unless it is excused: the server does not end
\* before it, and reads its request.
PipeOK(p) ==
  /\ LoopOver => ~Live(p)
  /\ Live(p) /\ pc[p] # "start" /\ conn[p] = "none" => srv = "crashed"
  /\ Live(p) /\ shape[p] = "command" /\ conn[p] = "reset" => Excused(p)
  /\ shape[p] = "command" /\ c2s[p] # <<>> /\ Head(c2s[p]).op = "MAKE_DECISION" =>
       Head(c2s[p]).val = Plain

\* A live proxy was launched by a command that still runs, and whose own
\* connection was accepted before.
LaunchOK(p) ==
  p # Root /\ Live(p) =>
    /\ cmd[launcher[p]] = "running"
    /\ accId[p] # 0 => accId[launcher[p]] < accId[p]

RunOK(p) == ThroughOK(p) /\ PipeOK(p) /\ LaunchOK(p)
RunInv == \A p \in Proxy : RunOK(p)

\* A command that was started has an id, which it keeps.
LEMMA StartedHasId ==
  ASSUME TypeOK, IInv, NEW p \in Proxy, cmd[p] # "none"
  PROVE  accId[p] # 0 /\ acc[p] # "none"
  BY DEF IInv, ProgressOK, AcceptOK

\* Once the root proxy has gone nobody is left: whoever is, was launched by a
\* command with a smaller id that is still there.
LEMMA NobodyLeft ==
  ASSUME TypeOK, IInv, RunInv, Gone(Root)
  PROVE  \A p \in Proxy : ~Live(p)
  <1> DEFINE R == OpToRel(<, Nat)
             left == {q \in Proxy : Live(q) /\ accId[q] # 0}
             ids == {accId[q] : q \in left}
  <1>1. SUFFICES ASSUME NEW p \in Proxy, Live(p)
                 PROVE  FALSE
    OBVIOUS
  <1>2. ASSUME NEW q \in Proxy, Live(q)
        PROVE  /\ launcher[q] \in left
               /\ accId[q] # 0 => accId[launcher[q]] < accId[q]
    <2>1. q # Root
      BY <1>2 DEF Live
    <2>2. /\ launcher[q] \in Proxy /\ cmd[launcher[q]] = "running"
          /\ accId[q] # 0 => accId[launcher[q]] < accId[q]
      BY <1>2, <2>1 DEF RunInv, RunOK, LaunchOK, TypeOK
    <2>3. pc[launcher[q]] = "waiting" /\ accId[launcher[q]] # 0
      BY <2>2, StartedHasId DEF RunInv, RunOK, ThroughOK
    <2> QED
      BY <2>2, <2>3 DEF Live, Gone
  <1>3. accId[launcher[p]] \in ids /\ ids \subseteq Nat
    BY <1>1, <1>2, SMTT(30) DEF TypeOK
  <1>4. \E n \in ids : \A m \in ids : ~(<<m, n>> \in R)
    <2>1. IsWellFoundedOn(R, Nat)
      BY NatLessThanWellFounded
    <2> HIDE DEF R, ids
    <2> QED
      BY <1>3, <2>1, WFMin
  <1>5. PICK n \in ids : \A m \in ids : ~(<<m, n>> \in R)
    BY <1>4
  <1>6. PICK q \in left : accId[q] = n
    BY <1>5
  <1>7. launcher[q] \in left /\ accId[launcher[q]] < n
    BY <1>2, <1>6
  <1>8. accId[launcher[q]] \in ids
    BY <1>7
  <1> QED
    BY <1>3, <1>5, <1>7, <1>8 DEF OpToRel

\* What the protocol's state only grows by, and who is excused stays so.
Onward ==
  /\ \A q \in Proxy : accId'[q] = accId[q] \/ (acc[q] = "none" /\ accId'[q] > idGen)
  /\ \A q \in Proxy : Excused(q) => Excused(q)'

\* A step of p alone keeps the invariant when what is said of p holds after it.
LEMMA RunsOn ==
  ASSUME TypeOK, IInv, RunInv, Onward, NEW p \in Proxy,
         \A r \in Proxy \ {p} :
           /\ acc'[r] = acc[r] /\ accId'[r] = accId[r] /\ conn'[r] = conn[r]
           /\ c2s'[r] = c2s[r] /\ pc'[r] = pc[r] /\ cmd'[r] = cmd[r]
           /\ shape'[r] = shape[r] /\ launcher'[r] = launcher[r],
         srv' = srv,
         cmd[p] = "running" => cmd'[p] = "running"
             \/ \A r \in Proxy : launcher[r] = p /\ r # Root => Gone(r),
         RunOK(p)'
  PROVE  RunInv'
  <1> SUFFICES ASSUME NEW r \in Proxy, r # p
               PROVE  RunOK(r)'
    BY DEF RunInv
  <1>0. RunOK(r)
    BY DEF RunInv
  <1>1. ThroughOK(r)'
    BY <1>0 DEF RunOK, ThroughOK, Onward
  <1>2. PipeOK(r)'
    BY <1>0 DEF RunOK, PipeOK, LoopOver, Onward, Live, Gone
  <1>3. LaunchOK(r)'
    <2> SUFFICES ASSUME r # Root, Live(r)'
                 PROVE  /\ cmd'[launcher'[r]] = "running"
                        /\ accId'[r] # 0 => accId'[launcher'[r]] < accId'[r]
      BY DEF LaunchOK
    <2> DEFINE q == launcher[r]
    <2>1. Live(r) /\ launcher'[r] = q /\ q \in Proxy
      BY DEF Live, Gone, TypeOK
    <2>2. /\ cmd[q] = "running"
          /\ accId[r] # 0 => accId[q] < accId[r]
      BY <1>0, <2>1 DEF RunOK, LaunchOK
    <2>3. accId'[q] = accId[q]
      BY <2>1, <2>2, StartedHasId DEF Onward
    <2>4. cmd'[q] = "running"
      BY <2>1, <2>2 DEF Live
    <2> QED
      BY <2>1, <2>2, <2>3, <2>4
  <1> QED
    BY <1>1, <1>2, <1>3 DEF RunOK

\* Nothing recorded is about the id of a connection that was not accepted, and
\* ids are beyond those taken before.
LEMMA NoneCreated ==
  ASSUME TypeOK, IInv, NEW i \in Nat, i = 0 \/ i > idGen
  PROVE  ~HasId("created", i)
  <1> SUFFICES ASSUME NEW e \in ledger, e.ev = "created", e.id = i
               PROVE  FALSE
    BY DEF HasId
  <1>1. PICK p \in Proxy : e.id = accId[p] /\ e.id # 0
    BY DEF IInv, EntryOK
  <1>2. accId[p] \in 0..idGen
    BY DEF IInv, AcceptOK
  <1> QED
    BY <1>1, <1>2 DEF TypeOK

\* A step that takes no id and records no creation goes onward.
LEMMA GoesOnward ==
  ASSUME TypeOK, IInv,
         \A q \in Proxy : accId'[q] = accId[q],
         \A q \in Proxy : acc[q] = "over" => acc'[q] = "over",
         \A e \in ledger' \ ledger : e.ev # "created",
         srv = "crashed" => srv' = "crashed"
  PROVE  Onward
  <1>1. ASSUME NEW q \in Proxy, Excused(q)
        PROVE  Excused(q)'
    <2>1. Created(q)' => Created(q)
      BY DEF Created
    <2> QED
      BY <1>1, <2>1 DEF Excused
  <1> QED
    BY <1>1 DEF Onward

\* The steps of a proxy's main go onward, and the commands' do.
LEMMA ProxyOnward ==
  ASSUME TypeOK, IInv, UNCHANGED <<srv, acc, accId, ledger>>
  PROVE  Onward
  BY GoesOnward

\* The failure path of a proxy that is excused.
LEMMA ReportRuns ==
  ASSUME TypeOK, IInv, RunInv, NEW p \in Proxy, NEW n, ReportAndReturn(p, n),
         Live(p), pc[p] # "start", cmd[p] # "running", shape[p] = "command" => Excused(p)
  PROVE  RunInv'
  <1>1. /\ ret' = [ret EXCEPT ![p] = -1]
        /\ pc' = [pc EXCEPT ![p] = "returning"]
        /\ UNCHANGED <<srv, idGen, acc, accId, ledger, conn, shape, launcher, cmd>>
        /\ \/ c2s' = [c2s EXCEPT ![p] = Append(@, Request("REPORT_ERROR", n, id[p]))] /\ CanWrite(p)
           \/ c2s' = c2s
    BY DEF ReportAndReturn, Send, serverVars, commandVars
  <1>2. /\ pc'[p] = "returning"
        /\ \A r \in Proxy \ {p} : pc'[r] = pc[r] /\ c2s'[r] = c2s[r]
    BY <1>1 DEF TypeOK
  <1>3. Onward
    BY <1>1, ProxyOnward
  <1>4. RunOK(p)
    BY DEF RunInv
  <1>5. Excused(p)' <=> Excused(p)
    BY <1>1 DEF Excused, Created
  <1>6. ThroughOK(p)'
    BY <1>1, <1>2, <1>4, <1>5 DEF RunOK, ThroughOK
  <1>7. shape'[p] = "command" /\ c2s'[p] # <<>> /\ Head(c2s'[p]).op = "MAKE_DECISION" =>
          Head(c2s'[p]).val = Plain
    <2>1. c2s[p] \in Seq(Requests)
      BY DEF TypeOK
    <2>2. CASE c2s' = c2s
      BY <1>1, <1>4, <2>2 DEF RunOK, PipeOK, LoopOver
    <2>3. CASE c2s'[p] = Append(c2s[p], Request("REPORT_ERROR", n, id[p]))
      <3>1. Head(c2s'[p]) = IF c2s[p] = <<>> THEN Request("REPORT_ERROR", n, id[p]) ELSE Head(c2s[p])
        BY <2>1, <2>3
      <3>2. Request("REPORT_ERROR", n, id[p]).op # "MAKE_DECISION"
        BY DEF Request
      <3> QED
        BY <1>1, <1>4, <3>1, <3>2 DEF RunOK, PipeOK, LoopOver
    <2> QED
      BY <1>1, <2>2, <2>3 DEF TypeOK
  <1>8. PipeOK(p)'
    <2>1. Live(p)' /\ srv' = srv /\ conn' = conn /\ shape' = shape
      BY <1>1, <1>2 DEF Live, Gone
    <2>2. PipeOK(p)
      BY <1>4 DEF RunOK
    <2> QED
      BY <1>5, <1>7, <2>1, <2>2 DEF PipeOK, LoopOver
  <1>9. LaunchOK(p)'
    BY <1>1, <1>2, <1>4 DEF RunOK, LaunchOK, Live, Gone
  <1>10. RunOK(p)'
    BY <1>6, <1>8, <1>9 DEF RunOK
  <1> HIDE DEF TypeOK, IInv, RunInv
  <1> QED
    BY <1>1, <1>2, <1>3, <1>10, RunsOn

\* A live proxy that cannot write is excused.
LEMMA BrokenIsExcused ==
  ASSUME TypeOK, IInv, RunInv, NEW p \in Proxy, Live(p), pc[p] # "start",
         ~CanWrite(p), shape[p] = "command"
  PROVE  Excused(p)
  <1>1. conn[p] # "shut"
    BY DEF IInv, AcceptOK, Live
  <1>2. conn[p] \in {"none", "reset"}
    BY <1>1 DEF CanWrite, TypeOK
  <1> QED
    BY <1>2 DEF RunInv, RunOK, PipeOK, LoopOver, Excused

\* A proxy that goes leaves everything as it is, and was excused or has run
\* its command.
LEMMA GoesRuns ==
  ASSUME TypeOK, IInv, RunInv, NEW p \in Proxy, Live(p), cmd[p] # "running",
         NEW s \in {"exited", "killed"},
         pc' = [pc EXCEPT ![p] = s],
         conn' = [conn EXCEPT ![p] = IF CanWrite(p) THEN "shut" ELSE @],
         UNCHANGED <<srv, idGen, acc, accId, ledger, c2s, shape, launcher, cmd>>,
         shape[p] = "command" => cmd[p] = "exited" \/ Excused(p)
  PROVE  RunInv'
  <1>1. /\ pc'[p] = s
        /\ \A r \in Proxy \ {p} : pc'[r] = pc[r] /\ conn'[r] = conn[r]
    BY DEF TypeOK
  <1>2. Onward
    BY ProxyOnward
  <1>3. RunOK(p)
    BY DEF RunInv
  <1>4. Excused(p)' <=> Excused(p)
    BY DEF Excused, Created
  <1>5. RunOK(p)'
    BY <1>1, <1>3, <1>4 DEF RunOK, ThroughOK, PipeOK, LoopOver, LaunchOK, Live, Gone
  <1> HIDE DEF TypeOK, IInv, RunInv
  <1> QED
    BY <1>1, <1>2, <1>5, RunsOn

\* No step of a proxy's main disturbs the invariant.
LEMMA ProxyStepRuns ==
  ASSUME TypeOK, IInv, RunInv, Orderly, NEW p \in Proxy, ProxyStep(p)
  PROVE  RunInv'
  <1>0. /\ RunOK(p) /\ ThroughOK(p) /\ PipeOK(p) /\ LaunchOK(p)
        /\ AcceptOK(p) /\ TalkOK(p) /\ ProgressOK(p)
    BY DEF RunInv, RunOK, IInv
  <1>00. cmd[p] = "running" => pc[p] = "waiting"
    BY <1>0 DEF ThroughOK
  <1>f. {"connect", "locate", "spawn", "signal", "kill"} \cap Faults = {}
    BY DEF Orderly
  <1>1. CASE Connect(p)
    <2>1. /\ pc[p] = "start" /\ pc' = [pc EXCEPT ![p] = "connected"]
          /\ \/ srv = "up" /\ conn' = [conn EXCEPT ![p] = "pending"]
             \/ srv # "up" /\ conn' = conn
          /\ UNCHANGED <<srv, acc, accId, ledger, c2s, shape, launcher, cmd>>
      BY <1>1, <1>f DEF Connect, serverVars, commandVars
    <2>2. /\ pc'[p] = "connected" /\ Live(p) /\ Live(p)'
          /\ conn'[p] \in {"pending", "none"}
          /\ \A r \in Proxy \ {p} : pc'[r] = pc[r] /\ conn'[r] = conn[r]
          /\ c2s[p] = <<>>
      BY <1>0, <2>1 DEF TypeOK, AcceptOK, TalkOK, Live, Gone
    <2>3. conn'[p] = "none" => srv = "crashed"
      <3>1. /\ srv \in {"boot", "up", "ended", "aborted", "freed", "crashed"}
            /\ conn[p] = "none"
        BY <1>0, <2>1 DEF TypeOK, AcceptOK
      <3>2. srv # "boot" /\ srv \notin {"ended", "aborted", "freed"}
        BY <1>0, <2>1, <2>2 DEF AcceptOK, PipeOK, LoopOver
      <3> QED
        BY <2>1, <3>1, <3>2 DEF TypeOK
    <2>4. Onward
      BY <2>1, ProxyOnward
    <2>5. ThroughOK(p)' /\ LaunchOK(p)'
      BY <1>0, <2>1, <2>2 DEF ThroughOK, LaunchOK
    <2>6. PipeOK(p)'
      BY <1>0, <2>1, <2>2, <2>3 DEF PipeOK, LoopOver
    <2> HIDE DEF TypeOK, IInv, RunInv
    <2> QED
      BY <1>00, <2>1, <2>2, <2>4, <2>5, <2>6, RunsOn DEF RunOK
  <1>2. CASE Refuse(p)
    <2>1. ReportAndReturn(p, -1) /\ pc[p] = "connected" /\ shape[p] = "refused"
      BY <1>2 DEF Refuse
    <2> QED
      BY <1>00, <2>1, ReportRuns DEF Live, Gone
  <1>4. CASE WriteFails(p)
    <2>1. ReportAndReturn(p, parentId[p]) /\ pc[p] \in {"connected", "created", "ran"}
          /\ ~CanWrite(p)
      BY <1>4 DEF WriteFails
    <2>2. Live(p)
      BY <2>1 DEF Live, Gone
    <2> QED
      BY <1>00, <2>1, <2>2, ReportRuns, BrokenIsExcused
  <1>5. CASE ReadFails(p)
    <2>1. ReportAndReturn(p, parentId[p]) /\ pc[p] \in {"creating", "deciding"}
          /\ ~CanWrite(p)
      BY <1>5 DEF ReadFails, CanWrite
    <2>2. Live(p)
      BY <2>1 DEF Live, Gone
    <2> QED
      BY <1>00, <2>1, <2>2, ReportRuns, BrokenIsExcused
  <1>7. CASE HookMessage(p)
    <2>1. ReportAndReturn(p, parentId[p]) /\ pc[p] = "created" /\ shape[p] = "message"
      BY <1>7 DEF HookMessage
    <2> QED
      BY <1>00, <2>1, ReportRuns DEF Live, Gone
  <1>8. CASE LocateFails(p)
    BY <1>8, <1>f DEF LocateFails
  <1>14. CASE Exit(p)
    <2>1. /\ pc[p] = "returning" /\ pc' = [pc EXCEPT ![p] = "exited"]
          /\ conn' = [conn EXCEPT ![p] = IF CanWrite(p) THEN "shut" ELSE @]
          /\ UNCHANGED <<srv, idGen, acc, accId, ledger, c2s, shape, launcher, cmd>>
      BY <1>14 DEF Exit, CloseByProxy, commandVars
    <2>2. Live(p) /\ cmd[p] # "running"
          /\ (shape[p] = "command" => cmd[p] = "exited" \/ Excused(p))
      BY <1>0, <2>1 DEF Live, Gone, ThroughOK
    <2> QED
      BY <2>1, <2>2, GoesRuns
  <1>15. CASE BrokenPipe(p)
    <2>1. /\ conn[p] = "reset" /\ pc[p] \in {"connected", "created", "ran", "creating", "deciding"}
          /\ pc' = [pc EXCEPT ![p] = "killed"]
          /\ conn' = [conn EXCEPT ![p] = IF CanWrite(p) THEN "shut" ELSE @]
          /\ UNCHANGED <<srv, idGen, acc, accId, ledger, c2s, shape, launcher, cmd>>
      BY <1>15, <1>f DEF BrokenPipe, Dies, CloseByProxy, commandVars
    <2>2. Live(p) /\ ~CanWrite(p)
      BY <2>1 DEF Live, Gone, CanWrite
    <2>3. shape[p] = "command" => Excused(p)
      BY <2>1, <2>2, BrokenIsExcused
    <2> QED
      BY <1>00, <2>1, <2>2, <2>3, GoesRuns
  <1>16. CASE Create(p) \/ ReceiveId(p) \/ MakeDecision(p) \/ ReceiveAction(p)
              \/ Spawn(p) \/ Wait(p) \/ Finish(p)
    <2>0. UNCHANGED <<srv, acc, accId, ledger, conn, shape, launcher>>
      BY <1>16 DEF Create, ReceiveId, MakeDecision, ReceiveAction, Spawn, Wait, Finish,
                   serverVars, pipeVars
    <2>1. \A r \in Proxy \ {p} : pc'[r] = pc[r] /\ c2s'[r] = c2s[r] /\ cmd'[r] = cmd[r]
      BY <1>16, <1>f, SMTT(30) DEF Create, ReceiveId, MakeDecision, ReceiveAction, Spawn, Wait, Finish,
                   Send, TypeOK, pipeVars, commandVars
    <2>2. /\ pc[p] \notin {"off", "start", "exited", "killed"}
          /\ pc'[p] \in {"creating", "created", "deciding", "decided", "waiting", "ran", "returning"}
      BY <1>16, <1>f DEF Create, ReceiveId, MakeDecision, ReceiveAction, Spawn, Wait, Finish,
                   TypeOK
    <2>3. Live(p) /\ Live(p)'
      BY <2>2 DEF Live, Gone
    <2>4. cmd[p] = "running" => cmd'[p] = "running"
      BY <1>16, <1>f DEF Create, ReceiveId, MakeDecision, ReceiveAction, Spawn, Wait, Finish,
                   TypeOK, commandVars
    <2>5. ThroughOK(p)'
      <3>1. \/ /\ pc'[p] = "waiting" /\ cmd'[p] = "running"
            \/ /\ pc'[p] = "ran" /\ cmd'[p] = "exited"
            \/ /\ pc'[p] = "returning" /\ cmd'[p] = "exited"
            \/ /\ pc'[p] \in {"creating", "created", "deciding", "decided"}
               /\ cmd'[p] # "running"
        <4>1. CASE Spawn(p)
          BY <4>1, <1>f DEF Spawn, TypeOK
        <4>2. CASE Wait(p)
          BY <4>2, <1>0 DEF Wait, TypeOK, ThroughOK, commandVars
        <4>3. CASE Finish(p)
          BY <4>3, <1>0 DEF Finish, TypeOK, ThroughOK, commandVars
        <4>4. CASE Create(p) \/ ReceiveId(p) \/ MakeDecision(p) \/ ReceiveAction(p)
          BY <4>4, <1>00 DEF Create, ReceiveId, MakeDecision, ReceiveAction, TypeOK, commandVars
        <4> QED
          BY <1>16, <4>1, <4>2, <4>3, <4>4
      <3> QED
        BY <3>1 DEF ThroughOK
    <2>6. shape'[p] = "command" /\ c2s'[p] # <<>> /\ Head(c2s'[p]).op = "MAKE_DECISION" =>
            Head(c2s'[p]).val = Plain
      <3>1. CASE c2s' = c2s
        BY <1>0, <2>0, <3>1 DEF PipeOK, LoopOver
      <3>2. ASSUME NEW m, c2s' = [c2s EXCEPT ![p] = Append(@, m)], c2s[p] = <<>>,
                   m.op = "MAKE_DECISION" /\ shape[p] = "command" => m.val = Plain
            PROVE  shape'[p] = "command" /\ c2s'[p] # <<>> /\ Head(c2s'[p]).op = "MAKE_DECISION" =>
                     Head(c2s'[p]).val = Plain
        <4>1. c2s'[p] = <<m>> /\ Head(c2s'[p]) = m
          BY <3>2 DEF TypeOK
        <4> QED
          BY <2>0, <3>2, <4>1
      <3>3. CASE Create(p)
        <4> DEFINE m == Request("CREATE", parentId[p], 0)
        <4>1. c2s' = [c2s EXCEPT ![p] = Append(@, m)] /\ c2s[p] = <<>>
          BY <1>0, <3>3 DEF Create, Send, TalkOK
        <4>2. m.op = "CREATE"
          BY DEF Request
        <4> QED
          BY <3>2, <4>1, <4>2
      <3>4. CASE MakeDecision(p)
        <4> DEFINE m == Request("MAKE_DECISION", parentId[p],
                                IF shape[p] = "emptyArg" THEN HoldsEmptyString ELSE Plain)
        <4>1. c2s' = [c2s EXCEPT ![p] = Append(@, m)] /\ c2s[p] = <<>>
          BY <1>0, <3>4 DEF MakeDecision, Send, TalkOK
        <4>2. shape[p] = "command" => m.val = Plain
          BY DEF Request
        <4> QED
          BY <3>2, <4>1, <4>2
      <3>5. CASE Finish(p)
        <4> DEFINE m == Request("FINISH", parentId[p], ret[p])
        <4>1. c2s' = [c2s EXCEPT ![p] = Append(@, m)] /\ c2s[p] = <<>>
          BY <1>0, <3>5 DEF Finish, Send, TalkOK
        <4>2. m.op = "FINISH"
          BY DEF Request
        <4> QED
          BY <3>2, <4>1, <4>2
      <3>6. CASE ReceiveId(p) \/ ReceiveAction(p) \/ Spawn(p) \/ Wait(p)
        BY <3>1, <3>6 DEF ReceiveId, ReceiveAction, Spawn, Wait, pipeVars
      <3> QED
        BY <1>16, <3>3, <3>4, <3>5, <3>6
    <2>7. PipeOK(p)'
      <3>1. Excused(p)' <=> Excused(p)
        BY <2>0 DEF Excused, Created
      <3> QED
        BY <1>0, <2>0, <2>2, <2>3, <2>6, <3>1 DEF PipeOK, LoopOver
    <2>8. LaunchOK(p)'
      <3>1. p # Root => cmd[launcher[p]] = "running"
                         /\ (accId[p] # 0 => accId[launcher[p]] < accId[p])
        BY <1>0, <2>3 DEF LaunchOK
      <3>2. launcher[p] \in Proxy
        BY DEF TypeOK
      <3> QED
        BY <2>0, <2>1, <2>4, <3>1, <3>2 DEF LaunchOK
    <2>9. Onward
      BY <2>0, ProxyOnward
    <2> HIDE DEF TypeOK, IInv, RunInv
    <2> QED
      BY <2>0, <2>1, <2>4, <2>5, <2>7, <2>8, <2>9, RunsOn DEF RunOK
  <1> QED
    BY <1>1, <1>2, <1>4, <1>5, <1>7, <1>8, <1>14, <1>15, <1>16 DEF ProxyStep

\* A connection is taken from the backlog, accepted or refused.
LEMMA TakesRuns ==
  ASSUME TypeOK, IInv, RunInv, NEW p \in Proxy,
         acc[p] = "none", srv' = "up", srv = "up", ledger' = ledger,
         \/ idGen' = idGen + 1 /\ accId' = [accId EXCEPT ![p] = idGen + 1]
         \/ accId' = accId,
         NEW a \in {"reading", "over"}, acc' = [acc EXCEPT ![p] = a],
         \A r \in Proxy \ {p} : conn'[r] = conn[r],
         conn[p] # "none", conn'[p] # "none", conn'[p] = "reset" => a = "over",
         UNCHANGED <<c2s, pc, shape, launcher, cmd>>
  PROVE  RunInv'
  <1>0. /\ RunOK(p) /\ ThroughOK(p) /\ PipeOK(p) /\ LaunchOK(p)
        /\ accId[p] = 0 /\ idGen \in Nat
    BY DEF RunInv, RunOK, IInv, AcceptOK, TypeOK
  <1>1. /\ acc'[p] = a
        /\ \A r \in Proxy \ {p} : acc'[r] = acc[r] /\ accId'[r] = accId[r]
        /\ accId'[p] = 0 \/ accId'[p] = idGen + 1
    BY <1>0 DEF TypeOK
  <1>2. ~Created(p)'
    <2>1. accId'[p] \in Nat /\ (accId'[p] = 0 \/ accId'[p] > idGen)
      BY <1>0, <1>1
    <2>2. ~HasId("created", accId'[p])
      BY <2>1, NoneCreated
    <2> QED
      BY <2>2 DEF HasId, Created
  <1>3. a = "over" => Excused(p)'
    BY <1>1, <1>2 DEF Excused
  <1>4. Onward
    <2>1. ASSUME NEW q \in Proxy, Excused(q)
          PROVE  Excused(q)'
      <3>1. q # p /\ acc'[q] = acc[q] /\ accId'[q] = accId[q]
        BY <1>1, <2>1 DEF Excused
      <3> QED
        BY <2>1, <3>1 DEF Excused, Created
    <2>2. \A q \in Proxy : accId'[q] = accId[q] \/ (acc[q] = "none" /\ accId'[q] > idGen)
      BY <1>0, <1>1
    <2> QED
      BY <2>1, <2>2 DEF Onward
  <1>5. ThroughOK(p)'
    <2>1. ~Excused(p)
      BY DEF Excused
    <2> QED
      BY <1>0, <2>1 DEF ThroughOK
  <1>6. PipeOK(p)'
    BY <1>0, <1>3 DEF PipeOK, LoopOver, Live, Gone
  <1>7. LaunchOK(p)'
    <2> SUFFICES ASSUME p # Root, Live(p)
                 PROVE  /\ cmd[launcher[p]] = "running"
                        /\ accId'[p] # 0 => accId'[launcher[p]] < accId'[p]
      BY DEF LaunchOK, Live, Gone
    <2>1. cmd[launcher[p]] = "running" /\ launcher[p] \in Proxy
      BY <1>0 DEF LaunchOK, TypeOK
    <2>2. accId[launcher[p]] # 0
      BY <2>1, StartedHasId
    <2>3. launcher[p] # p /\ accId[launcher[p]] \in 0..idGen
      BY <1>0, <2>1, <2>2 DEF IInv, AcceptOK
    <2>4. accId'[launcher[p]] = accId[launcher[p]]
      BY <1>1, <2>1, <2>3
    <2> QED
      BY <1>0, <1>1, <2>1, <2>3, <2>4
  <1> HIDE DEF TypeOK, IInv, RunInv
  <1>8. RunOK(p)'
    BY <1>5, <1>6, <1>7 DEF RunOK
  <1> QED
    BY <1>1, <1>4, <1>8, RunsOn

\* A request is read from the pipe of p, and answered or recorded.
LEMMA ReadsRuns ==
  ASSUME TypeOK, IInv, RunInv, NEW p \in Proxy,
         acc[p] = "reading",
         c2s' = c2s \/ (c2s' = [c2s EXCEPT ![p] = Tail(@)] /\ c2s[p] # <<>>),
         acc' = acc \/ acc' = [acc EXCEPT ![p] = "over"],
         \A e \in ledger' \ ledger : e.id = accId[p] \/ e.ev # "created",
         conn' = conn,
         UNCHANGED <<srv, idGen, accId, pc, shape, launcher, cmd>>
  PROVE  RunInv'
  <1>0. /\ RunOK(p) /\ ThroughOK(p) /\ PipeOK(p) /\ LaunchOK(p) /\ TalkOK(p)
        /\ accId[p] # 0 /\ conn[p] \in {"open", "shut"}
    BY DEF RunInv, RunOK, IInv, AcceptOK
  <1>1. /\ \A r \in Proxy \ {p} : acc'[r] = acc[r] /\ c2s'[r] = c2s[r]
        /\ c2s'[p] = c2s[p] \/ (c2s[p] # <<>> /\ c2s'[p] = Tail(c2s[p]))
    BY DEF TypeOK
  <1>2. ~Excused(p) \/ srv = "crashed"
    BY DEF Excused
  <1>3. Onward
    <2>1. ASSUME NEW q \in Proxy, Excused(q)
          PROVE  Excused(q)'
      <3>1. CASE srv = "crashed"
        BY <3>1 DEF Excused
      <3>2. CASE srv # "crashed"
        <4>1. acc[q] = "over" /\ ~Created(q) /\ q # p
          BY <2>1, <3>2 DEF Excused
        <4>2. accId[q] # accId[p]
          BY <1>0, <4>1 DEF IInv, AcceptOK
        <4>3. ~Created(q)'
          BY <4>1, <4>2 DEF Created
        <4> QED
          BY <1>1, <4>1, <4>3 DEF Excused
      <3> QED
        BY <3>1, <3>2
    <2> QED
      BY <2>1 DEF Onward
  <1>4. c2s'[p] = c2s[p] \/ c2s'[p] = <<>>
    <2>1. c2s[p] = <<>> \/ c2s[p] = <<Head(c2s[p])>>
      <3>1. ASSUME NEW m, c2s[p] = <<m>>
            PROVE  c2s[p] = <<Head(c2s[p])>>
        BY <3>1
      <3>2. pc[p] \in {"off", "start", "connected", "created", "decided", "waiting", "ran",
                       "creating", "deciding", "returning", "exited", "killed"}
        BY DEF TypeOK
      <3> QED
        BY <1>0, <3>1, <3>2 DEF TalkOK
    <2>2. ASSUME NEW m, c2s[p] = <<m>>
          PROVE  Tail(c2s[p]) = <<>>
      BY <2>2
    <2>3. Tail(c2s[p]) = <<>> \/ c2s[p] = <<>>
      BY <2>1, <2>2
    <2> QED
      BY <1>1, <2>3
  <1>5. ThroughOK(p)'
    BY <1>0, <1>2, <1>3 DEF ThroughOK, Onward
  <1>6. PipeOK(p)'
    BY <1>0, <1>3, <1>4 DEF PipeOK, LoopOver, Live, Gone, Onward
  <1>7. LaunchOK(p)'
    BY <1>0 DEF LaunchOK, Live, Gone
  <1> HIDE DEF TypeOK, IInv, RunInv
  <1>8. RunOK(p)'
    BY <1>5, <1>6, <1>7 DEF RunOK
  <1> QED
    BY <1>1, <1>3, <1>8, RunsOn

\* No step of the coroutine that serves p disturbs the invariant.
LEMMA AcceptorStepRuns ==
  ASSUME TypeOK, IInv, RunInv, NEW p \in Proxy, AcceptorStep(p)
  PROVE  RunInv'
  <1>1. CASE Accept(p)
    <2>1. /\ acc[p] = "none" /\ conn[p] \in {"pending", "shut"} /\ srv = "up" /\ srv' = srv
          /\ idGen' = idGen + 1 /\ accId' = [accId EXCEPT ![p] = idGen + 1]
          /\ acc' = [acc EXCEPT ![p] = "reading"]
          /\ conn' = [conn EXCEPT ![p] = IF @ = "pending" THEN "open" ELSE @]
          /\ UNCHANGED <<ledger, c2s, pc, shape, launcher, cmd>>
      BY <1>1 DEF Accept, InBacklog, proxyVars, commandVars
    <2>2. /\ conn'[p] \in {"open", "shut"}
          /\ \A r \in Proxy \ {p} : conn'[r] = conn[r]
      BY <2>1 DEF TypeOK
    <2> HIDE DEF TypeOK, IInv, RunInv
    <2> QED
      BY <2>1, <2>2, TakesRuns
  <1>2. CASE AcceptFails(p)
    <2>1. /\ acc[p] = "none" /\ conn[p] \in {"pending", "shut"} /\ srv = "up" /\ srv' = srv
          /\ \/ idGen' = idGen + 1 /\ accId' = [accId EXCEPT ![p] = idGen + 1]
             \/ accId' = accId
          /\ acc' = [acc EXCEPT ![p] = "over"]
          /\ conn' = [conn EXCEPT ![p] = IF @ = "shut" THEN @ ELSE "reset"]
          /\ UNCHANGED <<ledger, c2s, pc, shape, launcher, cmd>>
      BY <1>2 DEF AcceptFails, InBacklog, CloseByServer, proxyVars, commandVars
    <2>2. /\ conn'[p] \in {"reset", "shut"}
          /\ \A r \in Proxy \ {p} : conn'[r] = conn[r]
      BY <2>1 DEF TypeOK
    <2> HIDE DEF TypeOK, IInv, RunInv
    <2> QED
      BY <2>1, <2>2, TakesRuns
  <1>3. CASE ServeCreate(p) \/ ServeDecision(p) \/ ServeFinish(p) \/ ServeError(p)
    <2>1. /\ acc[p] = "reading" /\ c2s[p] # <<>>
          /\ c2s' = [c2s EXCEPT ![p] = Tail(@)]
          /\ acc' = acc \/ acc' = [acc EXCEPT ![p] = "over"]
          /\ conn' = conn
          /\ UNCHANGED <<srv, idGen, accId, pc, shape, launcher, cmd>>
      BY <1>3 DEF ServeCreate, ServeDecision, ServeFinish, ServeError, Reading, Answer,
                  proxyVars, commandVars
    <2>2. \A e \in ledger' \ ledger : e.id = accId[p] \/ e.ev # "created"
      BY <1>3 DEF ServeCreate, ServeDecision, ServeFinish, ServeError, Record, Entry
    <2> HIDE DEF TypeOK, IInv, RunInv
    <2> QED
      BY <2>1, <2>2, ReadsRuns
  <1>4. CASE Disconnect(p)
    <2>1. /\ acc[p] = "reading" /\ acc' = [acc EXCEPT ![p] = "over"]
          /\ UNCHANGED <<srv, idGen, accId, ledger, c2s, conn, pc, shape, launcher, cmd>>
      BY <1>4 DEF Disconnect, pipeVars, proxyVars, commandVars
    <2>2. \A e \in ledger' \ ledger : e.id = accId[p] \/ e.ev # "created"
      BY <2>1
    <2> HIDE DEF TypeOK, IInv, RunInv
    <2> QED
      BY <2>1, <2>2, ReadsRuns
  <1>5. CASE DecisionUnreadable(p)
    <2>1. /\ acc[p] = "reading" /\ c2s[p] # <<>>
          /\ Head(c2s[p]).op = "MAKE_DECISION" /\ Head(c2s[p]).val = HoldsEmptyString
          /\ c2s' = [c2s EXCEPT ![p] = Tail(@)]
          /\ acc' = [acc EXCEPT ![p] = "over"]
          /\ conn' = [conn EXCEPT ![p] = IF @ = "shut" THEN @ ELSE "reset"]
          /\ UNCHANGED <<srv, idGen, accId, ledger, pc, shape, launcher, cmd>>
      BY <1>5 DEF DecisionUnreadable, Reading, CloseByServer, proxyVars, commandVars
    <2>2. /\ RunOK(p) /\ ThroughOK(p) /\ PipeOK(p) /\ LaunchOK(p)
      BY DEF RunInv, RunOK
    <2>3. shape[p] # "command"
      BY <2>1, <2>2 DEF PipeOK, LoopOver, Plain, HoldsEmptyString
    <2>4. /\ \A r \in Proxy \ {p} : acc'[r] = acc[r] /\ c2s'[r] = c2s[r] /\ conn'[r] = conn[r]
          /\ conn'[p] \in {"reset", "shut"}
      BY <2>1 DEF TypeOK
    <2>5. Onward
      <3>1. \A q \in Proxy : acc[q] = "over" => acc'[q] = "over"
        BY <2>1 DEF TypeOK
      <3> QED
        BY <2>1, <3>1, GoesOnward
    <2>6. RunOK(p)'
      BY <2>1, <2>2, <2>3, <2>4 DEF RunOK, ThroughOK, PipeOK, LoopOver, LaunchOK, Live, Gone
    <2> HIDE DEF TypeOK, IInv, RunInv
    <2> QED
      BY <2>1, <2>4, <2>5, <2>6, RunsOn
  <1> QED
    BY <1>1, <1>2, <1>3, <1>4, <1>5 DEF AcceptorStep

\* When loop is over nobody is left, and when the server is gone before,
\* everybody is excused.
LEMMA DropRuns ==
  ASSUME TypeOK, IInv, RunInv, Dropped, srv # "crashed",
         srv' = "crashed" \/ (LoopOver' /\ Gone(Root))
  PROVE  RunInv'
  <1> SUFFICES ASSUME NEW p \in Proxy
               PROVE  RunOK(p)'
    BY DEF RunInv
  <1>1. UNCHANGED <<accId, ledger, c2s, pc, shape, launcher, cmd>>
    BY DEF Dropped, proxyVars, commandVars
  <1>2. ThroughOK(p) /\ PipeOK(p) /\ LaunchOK(p)
    BY DEF RunInv, RunOK
  <1>3. acc[p] = "over" => acc'[p] = "over"
    BY DEF Dropped, TypeOK
  <1>4. Excused(p) => Excused(p)'
    BY <1>1, <1>3 DEF Excused, Created
  <1>5. ThroughOK(p)' /\ LaunchOK(p)'
    BY <1>1, <1>2, <1>4 DEF ThroughOK, LaunchOK, Live, Gone
  <1>6. PipeOK(p)'
    <2>1. CASE srv' = "crashed"
      BY <1>1, <1>2, <2>1 DEF PipeOK, Excused, LoopOver
    <2>2. CASE LoopOver' /\ Gone(Root)
      <3>1. ~Live(p)
        BY <2>2, NobodyLeft
      <3> QED
        BY <1>1, <1>2, <2>2, <3>1 DEF PipeOK, LoopOver, Live, Gone
    <2> QED
      BY <2>1, <2>2
  <1> QED
    BY <1>5, <1>6 DEF RunOK

\* The root proxy is started, in the command's name.
LEMMA BootRuns ==
  ASSUME TypeOK, IInv, RunInv, Boot \/ BootFails
  PROVE  RunInv'
  <1> SUFFICES ASSUME NEW p \in Proxy
               PROVE  RunOK(p)'
    BY DEF RunInv
  <1>1. /\ srv = "boot" /\ srv' \in {"up", "ended"}
        /\ UNCHANGED <<acc, accId, ledger, conn, c2s, launcher, cmd>>
    BY DEF Boot, BootFails, pipeVars, proxyVars, commandVars
  <1>2. \A q \in Proxy : pc[q] = "off" /\ conn[q] = "none" /\ cmd[q] # "running" /\ c2s[q] = <<>>
    <2> SUFFICES ASSUME NEW q \in Proxy
                 PROVE  pc[q] = "off" /\ conn[q] = "none" /\ cmd[q] # "running" /\ c2s[q] = <<>>
      OBVIOUS
    <2>1. pc[q] = "off" /\ conn[q] = "none" /\ c2s[q] = <<>>
      BY <1>1 DEF IInv, AcceptOK, TalkOK
    <2> QED
      BY <2>1 DEF RunInv, RunOK, ThroughOK
  <1>3. \/ srv' = "ended" /\ pc' = pc
        \/ srv' = "up" /\ pc' = [pc EXCEPT ![Root] = "start"]
    BY DEF Boot, BootFails, proxyVars
  <1>4. /\ pc'[p] = "off" \/ (p = Root /\ pc'[p] = "start" /\ srv' = "up")
    BY <1>2, <1>3 DEF TypeOK
  <1>5. /\ cmd'[p] # "running" /\ c2s'[p] = <<>> /\ conn'[p] = "none"
        /\ p # Root => ~Live(p)'
    BY <1>1, <1>2, <1>4 DEF Live
  <1> QED
    BY <1>3, <1>4, <1>5 DEF RunOK, ThroughOK, PipeOK, LaunchOK, Live, LoopOver

\* A process of a command that runs becomes a proxy.
LEMMA LaunchRuns ==
  ASSUME TypeOK, IInv, RunInv, ~Background, NEW q \in Proxy, NEW p \in Proxy, Launch(q, p)
  PROVE  RunInv'
  <1>1. /\ cmd[q] = "running" /\ pc[p] = "off" /\ p # Root
        /\ pc' = [pc EXCEPT ![p] = "start"]
        /\ launcher' = [launcher EXCEPT ![p] = q]
        /\ \E s \in Shapes : shape' = [shape EXCEPT ![p] = s]
        /\ UNCHANGED <<srv, acc, accId, ledger, conn, c2s, cmd>>
    BY DEF Launch, MayLaunch, serverVars, pipeVars, commandVars
  <1>2. /\ pc'[p] = "start" /\ launcher'[p] = q
        /\ \A r \in Proxy \ {p} : pc'[r] = pc[r] /\ launcher'[r] = launcher[r] /\ shape'[r] = shape[r]
    BY <1>1 DEF TypeOK
  <1>3. /\ RunOK(p) /\ ThroughOK(p) /\ conn[p] = "none" /\ c2s[p] = <<>> /\ accId[p] = 0
    BY <1>1 DEF RunInv, RunOK, IInv, AcceptOK, TalkOK
  <1>4. Live(q) /\ ~LoopOver
    <2>1. pc[q] = "waiting" /\ PipeOK(q)
      BY <1>1 DEF RunInv, RunOK, ThroughOK
    <2> QED
      BY <2>1 DEF PipeOK, LoopOver, Live, Gone
  <1>5. cmd[p] # "running"
    BY <1>1, <1>3 DEF ThroughOK
  <1>6. ThroughOK(p)'
    BY <1>1, <1>2, <1>5 DEF ThroughOK
  <1>7. PipeOK(p)'
    BY <1>1, <1>2, <1>3, <1>4 DEF PipeOK, LoopOver
  <1>8. LaunchOK(p)'
    BY <1>1, <1>2, <1>3 DEF LaunchOK
  <1>9. Onward
    BY <1>1, ProxyOnward
  <1> HIDE DEF TypeOK, IInv, RunInv
  <1> QED
    BY <1>1, <1>2, <1>4, <1>5, <1>6, <1>7, <1>8, <1>9, RunsOn DEF RunOK

\* A command ends of its own accord when what it started has gone.
LEMMA CommandEndsRuns ==
  ASSUME TypeOK, IInv, RunInv, Orderly, NEW p \in Proxy, CommandEnds(p)
  PROVE  RunInv'
  <1>1. /\ cmd[p] = "running" /\ cmd' = [cmd EXCEPT ![p] = "exited"]
        /\ \A r \in Proxy : launcher[r] = p /\ r # Root => Gone(r)
        /\ UNCHANGED <<srv, acc, accId, ledger, conn, c2s, pc, shape, launcher>>
    BY DEF CommandEnds, Orderly, serverVars, pipeVars, proxyVars
  <1>2. cmd'[p] = "exited" /\ \A r \in Proxy \ {p} : cmd'[r] = cmd[r]
    BY <1>1 DEF TypeOK
  <1>3. ThroughOK(p) /\ PipeOK(p) /\ LaunchOK(p)
    BY DEF RunInv, RunOK
  <1>4. Onward
    BY <1>1, ProxyOnward
  <1>5. Excused(p)' <=> Excused(p)
    BY <1>1 DEF Excused, Created
  <1>6. ThroughOK(p)'
    BY <1>1, <1>2, <1>3 DEF ThroughOK
  <1>7. PipeOK(p)'
    BY <1>1, <1>3, <1>5 DEF PipeOK, Live, Gone, LoopOver
  <1>8. LaunchOK(p)'
    <2> SUFFICES ASSUME p # Root, Live(p)
                 PROVE  cmd'[launcher[p]] = "running"
      BY <1>1, <1>3 DEF LaunchOK, Live, Gone
    <2>1. launcher[p] \in Proxy /\ launcher[p] # p /\ cmd[launcher[p]] = "running"
      BY <1>1, <1>3 DEF LaunchOK, TypeOK, Live
    <2> QED
      BY <1>2, <2>1
  <1> HIDE DEF TypeOK, IInv, RunInv
  <1> QED
    BY <1>1, <1>2, <1>4, <1>6, <1>7, <1>8, RunsOn DEF RunOK

\* No step of the system disturbs the invariant.
LEMMA NextRuns ==
  ASSUME TypeOK, IInv, RunInv, Orderly, [Next]_vars
  PROVE  RunInv'
  <1> USE DEF Orderly
  <1>1. CASE UNCHANGED vars
    BY <1>1 DEF vars, serverVars, pipeVars, proxyVars, commandVars, RunInv, RunOK,
                ThroughOK, PipeOK, LaunchOK, Live, Gone, Excused, Created, LoopOver
  <1> HIDE DEF TypeOK, IInv, RunInv, Orderly
  <1>2. CASE Boot \/ BootFails
    BY <1>2, BootRuns
  <1>3. CASE ServerEnds
    BY <1>3, TeardownDrops, DropRuns DEF ServerEnds
  <1>10. CASE ServerCrashes \/ FreedCrashes
    BY <1>10, ConnectionsDropped, DropRuns DEF ServerCrashes, FreedCrashes
  <1>4. ASSUME NEW p \in Proxy, ServerBrokenPipe(p)
        PROVE  RunInv'
    BY <1>4, ConnectionsDropped, DropRuns DEF ServerBrokenPipe, Reading
  <1>5. ASSUME NEW p \in Proxy, ProxyStep(p) \/ AcceptorStep(p) \/ CommandEnds(p)
        PROVE  RunInv'
    BY <1>5, ProxyStepRuns, AcceptorStepRuns, CommandEndsRuns
  <1>6. ASSUME NEW p \in Proxy, Kill(p)
        PROVE  RunInv'
    BY <1>6 DEF Kill, Orderly
  <1>7. ASSUME NEW q \in Proxy, NEW p \in Proxy, Launch(q, p)
        PROVE  RunInv'
    BY <1>7, LaunchRuns DEF Orderly
  <1>8. CASE Terminated
    BY <1>1, <1>8 DEF Terminated
  <1> QED
    BY <1>1, <1>2, <1>3, <1>4, <1>5, <1>6, <1>7, <1>8, <1>10 DEF Next

LEMMA InitRuns == Init => RunInv
  BY DEF Init, RunInv, RunOK, ThroughOK, PipeOK, LoopOver, LaunchOK, Live, Gone

\* CommandsRun: in a build whose commands wait for what they start, and whose
\* own system calls succeed, only a refused connection or a crash of the
\* server keeps a command from being run.
THEOREM OnlyTheRefusedAreNotRun ==
  ASSUME Orderly
  PROVE  Spec => []CommandsRun
  <1>1. RunInv => CommandsRun
    BY DEF RunInv, RunOK, ThroughOK, Excused, CommandsRun, Gone
  <1>2. Spec => []TypeOK
    BY TypeCorrect
  <1>3. Spec => []IInv
    BY Agreement
  <1>4. TypeOK /\ IInv /\ RunInv /\ [Next]_vars => RunInv'
    BY NextRuns
  <1> QED
    BY <1>1, <1>2, <1>3, <1>4, InitRuns, PTL DEF Spec
=============================================================================
