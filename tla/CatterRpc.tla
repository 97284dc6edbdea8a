------------------------------ MODULE CatterRpc ------------------------------
(***************************************************************************)
(* The catter session protocol: the server (src/catter/main.cc), the       *)
(* catter-proxy processes (src/catter-proxy) and the commands they run     *)
(* under the preloaded hook (src/catter-hook/linux-mac).                   *)
(*                                                                         *)
(* The server listens on a pipe, spawns the root proxy and starts one      *)
(* `accept` coroutine per connection.  A proxy connects, is given a        *)
(* command id (CREATE), asks what to do with its command (MAKE_DECISION),  *)
(* runs it, reports the exit code (FINISH) and exits with that code; every *)
(* failure is reported with REPORT_ERROR and exits with -1.  A process of  *)
(* a command under the hook that execs another program becomes a further   *)
(* proxy, whose `-p' argument is the command id found in the environment.  *)
(***************************************************************************)
EXTENDS Integers, Sequences, FiniteSets

CONSTANTS
  Proxy,        \* the proxy processes a behaviour may create
  Root,         \* the proxy the server itself spawns
  Codes,        \* exit statuses of the commands
  Background,   \* commands may leave processes behind when they end
  Faults,       \* the failures of the environment that may happen
  Builds        \* the builds of the server: assertions are on in "debug"

FaultKinds ==
  {"boot", "connect", "accept", "locate", "spawn", "signal", "wait",
   "kill", "crash", "misuse"}

ASSUME RootAssumption == Root \in Proxy
ASSUME CodesAssumption == Codes \subseteq 0..255
ASSUME BackgroundAssumption == Background \in BOOLEAN
ASSUME FaultsAssumption == Faults \subseteq FaultKinds
ASSUME BuildsAssumption == Builds \subseteq {"debug", "release"} /\ Builds # {}

VARIABLES
  \* the server
  srv,       \* "boot", "up", how loop left its coroutines ("ended",
             \* "aborted" or "freed", see Teardown) or "crashed"
  idGen,     \* the static id_generator
  acc,       \* the accept coroutine of each connection
  accId,     \* the `id' local of that coroutine, 0 before it exists
  ledger,    \* what the server has printed about the commands
  settled,   \* the proxies already gone when the root proxy went
  \* the pipe of each proxy
  conn, c2s, s2c,
  \* the proxies
  pc, shape, launcher, parentId, env, id, ret,
  \* the commands they run
  cmd, code

serverVars == <<srv, idGen, acc, accId, ledger, settled>>
pipeVars == <<conn, c2s, s2c>>
proxyVars == <<pc, shape, launcher, parentId, env, id, ret>>
commandVars == <<cmd, code>>
vars == <<serverVars, pipeVars, proxyVars, commandVars>>

-----------------------------------------------------------------------------
(* Messages.  A request carries the fields its handler reads.              *)

Request(op, parent, val) == [op |-> op, parent |-> parent, val |-> val]
Requests ==
  [op : {"CREATE", "MAKE_DECISION", "FINISH", "REPORT_ERROR"},
   parent : Int, val : Int]
Reply(op, val) == [op |-> op, val |-> val]
Replies == [op : {"ID", "ACTION"}, val : Int]

\* val of a MAKE_DECISION request: does the command hold an empty string?
Plain == 0
HoldsEmptyString == 1

Entry(ev, i, val) == [ev |-> ev, id |-> i, val |-> val]
Entries ==
  [ev : {"created", "decision", "finish", "error"}, id : Int, val : Int]

\* The argument vectors a proxy is started with: "command" is
\* `-p id -- cmd...', "emptyArg" the same with an empty argument in cmd,
\* "message" a text of the hook in place of `--' or no command after it,
\* "refused" fewer than four arguments, no `-p' or a parent id that is no number.
Shapes == {"command", "emptyArg", "message"}
            \cup (IF "misuse" \in Faults THEN {"refused"} ELSE {})

-----------------------------------------------------------------------------
(* The pipe.  "pending" waits in the listen backlog, "shut" was closed by  *)
(* the proxy, "reset" by the server.                                       *)

CanWrite(p) == conn[p] \in {"pending", "open"}
InBacklog(p) == acc[p] = "none" /\ conn[p] \in {"pending", "shut"}
CloseByProxy(p) ==
  conn' = [conn EXCEPT ![p] = IF CanWrite(p) THEN "shut" ELSE @]
CloseByServer(p) ==
  conn' = [conn EXCEPT ![p] = IF @ = "shut" THEN @ ELSE "reset"]
CloseAllByServer ==
  conn' = [p \in Proxy |-> IF CanWrite(p) THEN "reset" ELSE conn[p]]

Gone(p) == pc[p] \in {"exited", "killed"}
Live(p) == pc[p] # "off" /\ ~Gone(p)

Send(p, m) == c2s' = [c2s EXCEPT ![p] = Append(@, m)]

-----------------------------------------------------------------------------
(* The proxy: main and rpc_handler.                                        *)

\* rpc_handler's constructor: the result of the connect is not looked at.
Connect(p) ==
  /\ pc[p] = "start"
  /\ \/ /\ srv = "up"
        /\ conn' = [conn EXCEPT ![p] = "pending"]
     \/ /\ srv # "up" \/ "connect" \in Faults
        /\ UNCHANGED conn
  /\ pc' = [pc EXCEPT ![p] = "connected"]
  /\ UNCHANGED <<serverVars, c2s, s2c, shape, launcher, parentId, env, id,
                 ret, commandVars>>

\* report_error swallows the failure of its own write.
ReportAndReturn(p, parent) ==
  /\ IF CanWrite(p)
       THEN Send(p, Request("REPORT_ERROR", parent, id[p]))
       ELSE UNCHANGED c2s
  /\ ret' = [ret EXCEPT ![p] = -1]
  /\ pc' = [pc EXCEPT ![p] = "returning"]
  /\ UNCHANGED <<serverVars, conn, s2c, shape, launcher, parentId, env, id,
                 commandVars>>

\* Arguments main turns down before it asks for an id: the handler's
\* parent_id is still -1.
Refuse(p) ==
  /\ pc[p] = "connected"
  /\ shape[p] = "refused"
  /\ ReportAndReturn(p, -1)

Create(p) ==
  /\ pc[p] = "connected"
  /\ shape[p] # "refused"
  /\ CanWrite(p)
  /\ Send(p, Request("CREATE", parentId[p], 0))
  /\ pc' = [pc EXCEPT ![p] = "creating"]
  /\ UNCHANGED <<serverVars, conn, s2c, shape, launcher, parentId, env, id,
                 ret, commandVars>>

\* A write on a pipe that is not connected, or whose server is gone, throws.
WriteFails(p) ==
  /\ \/ pc[p] = "connected" /\ shape[p] # "refused"
     \/ pc[p] = "created" /\ shape[p] # "message"
     \/ pc[p] = "ran"
  /\ ~CanWrite(p)
  /\ ReportAndReturn(p, parentId[p])

\* Mutant: an empty pipe is taken for its end.
ReadFailsEarly(p) ==
  /\ pc[p] \in {"creating", "deciding"}
  /\ s2c[p] = <<>>
  /\ ReportAndReturn(p, parentId[p])

\* read throws on end of file and on errors; what was sent is read first.
ReadFails(p) ==
  /\ pc[p] \in {"creating", "deciding"}
  /\ s2c[p] = <<>>
  /\ conn[p] = "reset"
  /\ ReportAndReturn(p, parentId[p])

ReceiveId(p) ==
  /\ pc[p] = "creating"
  /\ s2c[p] # <<>>
  /\ id' = [id EXCEPT ![p] = Head(s2c[p]).val]
  /\ s2c' = [s2c EXCEPT ![p] = Tail(@)]
  /\ pc' = [pc EXCEPT ![p] = "created"]
  /\ UNCHANGED <<serverVars, conn, c2s, shape, launcher, parentId, env, ret,
                 commandVars>>

\* A message of the hook is passed on; build_raw_cmd throws on no command.
HookMessage(p) ==
  /\ pc[p] = "created"
  /\ shape[p] = "message"
  /\ ReportAndReturn(p, parentId[p])

\* locate_exe throws before the decision is asked for, or on the command
\* the server sent back; hook::run throws when the hook library is missing.
LocateFails(p) ==
  /\ "locate" \in Faults
  /\ \/ pc[p] = "created" /\ shape[p] # "message"
     \/ pc[p] = "decided"
  /\ ReportAndReturn(p, parentId[p])

\* Mutant: the answer is not waited for.
MakeDecisionBlind(p) ==
  /\ pc[p] = "created"
  /\ shape[p] # "message"
  /\ CanWrite(p)
  /\ Send(p, Request("MAKE_DECISION", parentId[p], Plain))
  /\ pc' = [pc EXCEPT ![p] = "decided"]
  /\ UNCHANGED <<serverVars, conn, s2c, shape, launcher, parentId, env, id,
                 ret, commandVars>>

MakeDecision(p) ==
  /\ pc[p] = "created"
  /\ shape[p] # "message"
  /\ CanWrite(p)
  /\ Send(p, Request("MAKE_DECISION", parentId[p],
                     IF shape[p] = "emptyArg" THEN HoldsEmptyString ELSE Plain))
  /\ pc' = [pc EXCEPT ![p] = "deciding"]
  /\ UNCHANGED <<serverVars, conn, s2c, shape, launcher, parentId, env, id,
                 ret, commandVars>>

ReceiveAction(p) ==
  /\ pc[p] = "deciding"
  /\ s2c[p] # <<>>
  /\ s2c' = [s2c EXCEPT ![p] = Tail(@)]
  /\ pc' = [pc EXCEPT ![p] = "decided"]
  /\ UNCHANGED <<serverVars, conn, c2s, shape, launcher, parentId, env, id,
                 ret, commandVars>>

\* Mutant: the command is started and not waited for.
SpawnDetached(p) ==
  /\ pc[p] = "decided"
  /\ cmd' = [cmd EXCEPT ![p] = "running"]
  /\ pc' = [pc EXCEPT ![p] = "ran"]
  /\ UNCHANGED <<serverVars, pipeVars, shape, launcher, parentId, env, id, ret,
                 code>>

\* run, for the INJECT answer: run_command spawns the command ...
Spawn(p) ==
  /\ pc[p] = "decided"
  /\ \/ /\ cmd' = [cmd EXCEPT ![p] = "running"]
        /\ pc' = [pc EXCEPT ![p] = "waiting"]
        /\ UNCHANGED ret
     \/ /\ "spawn" \in Faults
        /\ ret' = [ret EXCEPT ![p] = -1]
        /\ pc' = [pc EXCEPT ![p] = "ran"]
        /\ UNCHANGED cmd
  /\ UNCHANGED <<serverVars, pipeVars, shape, launcher, parentId, env, id,
                 code>>

\* ... and waits for it: the status of an exit, 0 for a signal.
RunResult(p) == IF cmd[p] = "exited" THEN code[p] ELSE 0

\* Mutant: the status is not taken from the command.
WaitForgets(p) ==
  /\ pc[p] = "waiting"
  /\ cmd[p] \in {"exited", "signalled"}
  /\ pc' = [pc EXCEPT ![p] = "ran"]
  /\ UNCHANGED <<serverVars, pipeVars, shape, launcher, parentId, env, id, ret,
                 commandVars>>

Wait(p) ==
  /\ pc[p] = "waiting"
  /\ cmd[p] \in {"exited", "signalled"}
  /\ \/ ret' = [ret EXCEPT ![p] = RunResult(p)]
     \/ "wait" \in Faults /\ ret' = [ret EXCEPT ![p] = -1]
  /\ pc' = [pc EXCEPT ![p] = "ran"]
  /\ UNCHANGED <<serverVars, pipeVars, shape, launcher, parentId, env, id,
                 commandVars>>

\* Mutant: a command that fails is reported as an error as well.
FinishAndReport(p) ==
  /\ pc[p] = "ran"
  /\ CanWrite(p)
  /\ c2s' = [c2s EXCEPT ![p] =
               @ \o <<Request("FINISH", parentId[p], ret[p]),
                      Request("REPORT_ERROR", parentId[p], id[p])>>]
  /\ pc' = [pc EXCEPT ![p] = "returning"]
  /\ UNCHANGED <<serverVars, conn, s2c, shape, launcher, parentId, env, id,
                 ret, commandVars>>

\* Mutant: main returns 0 once the finish is written.
FinishReturnsZero(p) ==
  /\ pc[p] = "ran"
  /\ CanWrite(p)
  /\ Send(p, Request("FINISH", parentId[p], ret[p]))
  /\ ret' = [ret EXCEPT ![p] = 0]
  /\ pc' = [pc EXCEPT ![p] = "returning"]
  /\ UNCHANGED <<serverVars, conn, s2c, shape, launcher, parentId, env, id,
                 commandVars>>

Finish(p) ==
  /\ pc[p] = "ran"
  /\ CanWrite(p)
  /\ Send(p, Request("FINISH", parentId[p], ret[p]))
  /\ pc' = [pc EXCEPT ![p] = "returning"]
  /\ UNCHANGED <<serverVars, conn, s2c, shape, launcher, parentId, env, id,
                 ret, commandVars>>

\* The proxies that went before the root: the loop has their end of file
\* ready in the poll that reports the root's exit.
Settle(p) ==
  settled' = IF p = Root THEN {Root} \cup {q \in Proxy : Gone(q)} ELSE settled

\* main returns and the handler's destructor closes the pipe.
Exit(p) ==
  /\ pc[p] = "returning"
  /\ pc' = [pc EXCEPT ![p] = "exited"]
  /\ CloseByProxy(p)
  /\ Settle(p)
  /\ UNCHANGED <<srv, idGen, acc, accId, ledger, c2s, s2c, shape, launcher,
                 parentId, env, id, ret, commandVars>>

\* A proxy killed by a signal; its command runs on.
Dies(p) ==
  /\ pc' = [pc EXCEPT ![p] = "killed"]
  /\ CloseByProxy(p)
  /\ Settle(p)
  /\ UNCHANGED <<srv, idGen, acc, accId, ledger, c2s, s2c, shape, launcher,
                 parentId, env, id, ret, commandVars>>

Kill(p) == "kill" \in Faults /\ Live(p) /\ Dies(p)

\* Nothing in catter handles SIGPIPE: where the platform raises it (Linux), a
\* write on the pipe of a server that is gone, that of report_error after a
\* failed read included, ends the proxy.
BrokenPipe(p) ==
  /\ conn[p] = "reset"
  /\ \/ pc[p] \in {"connected", "created", "ran"}
     \/ pc[p] \in {"creating", "deciding"} /\ s2c[p] = <<>>
     \/ pc[p] = "decided" /\ "locate" \in Faults
  /\ Dies(p)

-----------------------------------------------------------------------------
(* The commands and the hook inside them.                                  *)

\* hook::run appends CATTER_COMMAND_ID to the environment of the proxy.
CmdEnv(p) == Append(env[p], id[p])

\* Mutant: the environment before the proxy's own id is added.
SelfIdOfProxy(p) == IF env[p] = <<>> THEN 0 ELSE Head(env[p])

\* get_env_value returns the first entry with the key.
SelfId(p) == Head(CmdEnv(p))

MayLaunch(p) ==
  \/ cmd[p] = "running"
  \/ Background /\ cmd[p] \in {"exited", "signalled"}

\* A process of q's command execs a program: the hook starts proxy p in its
\* place with the environment the program was to get, which may be a new one.
Launch(q, p) ==
  /\ MayLaunch(q)
  /\ pc[p] = "off"
  /\ p # Root
  /\ pc' = [pc EXCEPT ![p] = "start"]
  /\ \E s \in Shapes : shape' = [shape EXCEPT ![p] = s]
  /\ launcher' = [launcher EXCEPT ![p] = q]
  /\ parentId' = [parentId EXCEPT ![p] = SelfId(q)]
  /\ \E e \in {CmdEnv(q), <<>>} : env' = [env EXCEPT ![p] = e]
  /\ UNCHANGED <<serverVars, pipeVars, id, ret, commandVars>>

CommandEnds(p) ==
  /\ cmd[p] = "running"
  /\ Background \/ \A q \in Proxy : launcher[q] = p /\ q # Root => Gone(q)
  /\ \/ /\ cmd' = [cmd EXCEPT ![p] = "exited"]
        /\ \E c \in Codes : code' = [code EXCEPT ![p] = c]
     \/ /\ "signal" \in Faults
        /\ cmd' = [cmd EXCEPT ![p] = "signalled"]
        /\ UNCHANGED code
  /\ UNCHANGED <<serverVars, pipeVars, proxyVars>>

-----------------------------------------------------------------------------
(* The server: loop and accept.                                            *)

\* loop binds, listens and spawns the root proxy with parent id 0.
Boot ==
  /\ srv = "boot"
  /\ srv' = "up"
  /\ pc' = [pc EXCEPT ![Root] = "start"]
  /\ \E s \in Shapes \ {"refused"} : shape' = [shape EXCEPT ![Root] = s]
  /\ UNCHANGED <<idGen, acc, accId, ledger, settled, pipeVars, launcher,
                 parentId, env, id, ret, commandVars>>

\* The socket file of an earlier server is still there, or listen or spawn
\* fails: nothing runs.
BootFails ==
  /\ "boot" \in Faults
  /\ srv = "boot"
  /\ srv' = "ended"
  /\ UNCHANGED <<idGen, acc, accId, ledger, settled, pipeVars, proxyVars,
                 commandVars>>

\* Mutant: the generator counts down.
AcceptDown(p) ==
  /\ srv = "up"
  /\ InBacklog(p)
  /\ idGen' = idGen - 1
  /\ accId' = [accId EXCEPT ![p] = idGen - 1]
  /\ acc' = [acc EXCEPT ![p] = "reading"]
  /\ conn' = [conn EXCEPT ![p] = IF @ = "pending" THEN "open" ELSE @]
  /\ UNCHANGED <<srv, ledger, settled, c2s, s2c, proxyVars, commandVars>>

\* listen_cb starts an accept coroutine, which takes the next id.
Accept(p) ==
  /\ srv = "up"
  /\ InBacklog(p)
  /\ idGen' = idGen + 1
  /\ accId' = [accId EXCEPT ![p] = idGen + 1]
  /\ acc' = [acc EXCEPT ![p] = "reading"]
  /\ conn' = [conn EXCEPT ![p] = IF @ = "pending" THEN "open" ELSE @]
  /\ UNCHANGED <<srv, ledger, settled, c2s, s2c, proxyVars, commandVars>>

\* uv_accept fails after the id was taken; listen_cb is called with an
\* error and no coroutine is started.
AcceptFails(p) ==
  /\ "accept" \in Faults
  /\ srv = "up"
  /\ InBacklog(p)
  /\ \/ /\ idGen' = idGen + 1
        /\ accId' = [accId EXCEPT ![p] = idGen + 1]
     \/ UNCHANGED <<idGen, accId>>
  /\ acc' = [acc EXCEPT ![p] = "over"]
  /\ CloseByServer(p)
  /\ UNCHANGED <<srv, ledger, settled, c2s, s2c, proxyVars, commandVars>>

Reading(p, op) ==
  /\ srv = "up"
  /\ acc[p] = "reading"
  /\ c2s[p] # <<>>
  /\ Head(c2s[p]).op = op

\* The reply is written at once; on a pipe the proxy has closed the write
\* fails, which ends the coroutine.
Answer(p, m) ==
  IF conn[p] = "open"
    THEN /\ s2c' = [s2c EXCEPT ![p] = Append(@, m)]
         /\ UNCHANGED acc
    ELSE /\ acc' = [acc EXCEPT ![p] = "over"]
         /\ UNCHANGED s2c

Record(ev, i, val) == ledger' = ledger \cup {Entry(ev, i, val)}

\* Mutant: the answer is the generator as it is now, not the coroutine's id.
ServeCreateLatest(p) ==
  /\ Reading(p, "CREATE")
  /\ c2s' = [c2s EXCEPT ![p] = Tail(@)]
  /\ Record("created", accId[p], Head(c2s[p]).parent)
  /\ Answer(p, Reply("ID", idGen))
  /\ UNCHANGED <<srv, idGen, accId, settled, conn, proxyVars, commandVars>>

ServeCreate(p) ==
  /\ Reading(p, "CREATE")
  /\ c2s' = [c2s EXCEPT ![p] = Tail(@)]
  /\ Record("created", accId[p], Head(c2s[p]).parent)
  /\ Answer(p, Reply("ID", accId[p]))
  /\ UNCHANGED <<srv, idGen, accId, settled, conn, proxyVars, commandVars>>

\* Every decision is INJECT, with the command as it came.
ServeDecision(p) ==
  /\ Reading(p, "MAKE_DECISION")
  /\ Head(c2s[p]).val = Plain
  /\ c2s' = [c2s EXCEPT ![p] = Tail(@)]
  /\ Record("decision", accId[p], 0)
  /\ Answer(p, Reply("ACTION", 0))
  /\ UNCHANGED <<srv, idGen, accId, settled, conn, proxyVars, commandVars>>

\* Mutant: the coroutine ends and its pipe is not closed.
DecisionUnreadableKeepsPipe(p) ==
  /\ Reading(p, "MAKE_DECISION")
  /\ Head(c2s[p]).val = HoldsEmptyString
  /\ c2s' = [c2s EXCEPT ![p] = Tail(@)]
  /\ acc' = [acc EXCEPT ![p] = "over"]
  /\ UNCHANGED <<srv, idGen, accId, ledger, settled, conn, s2c, proxyVars,
                 commandVars>>

\* Reading an empty string asks the pipe for zero bytes, which it answers
\* with ENOBUFS: the reader throws and the coroutine ends.
DecisionUnreadable(p) ==
  /\ Reading(p, "MAKE_DECISION")
  /\ Head(c2s[p]).val = HoldsEmptyString
  /\ c2s' = [c2s EXCEPT ![p] = Tail(@)]
  /\ acc' = [acc EXCEPT ![p] = "over"]
  /\ CloseByServer(p)
  /\ UNCHANGED <<srv, idGen, accId, ledger, settled, s2c, proxyVars,
                 commandVars>>

ServeFinish(p) ==
  /\ Reading(p, "FINISH")
  /\ c2s' = [c2s EXCEPT ![p] = Tail(@)]
  /\ Record("finish", accId[p], Head(c2s[p]).val)
  /\ UNCHANGED <<srv, idGen, acc, accId, settled, conn, s2c, proxyVars,
                 commandVars>>

\* The id and the parent id of an error are the ones the message carries.
ServeError(p) ==
  /\ Reading(p, "REPORT_ERROR")
  /\ c2s' = [c2s EXCEPT ![p] = Tail(@)]
  /\ Record("error", Head(c2s[p]).val, Head(c2s[p]).parent)
  /\ UNCHANGED <<srv, idGen, acc, accId, settled, conn, s2c, proxyVars,
                 commandVars>>

Disconnect(p) ==
  /\ srv = "up"
  /\ acc[p] = "reading"
  /\ c2s[p] = <<>>
  /\ conn[p] = "shut"
  /\ acc' = [acc EXCEPT ![p] = "over"]
  /\ UNCHANGED <<srv, idGen, accId, ledger, settled, pipeVars, proxyVars,
                 commandVars>>

Created(p) == \E e \in ledger : e.ev = "created" /\ e.id = accId[p]

\* The server process is gone, or has nothing open but the listening pipe
\* that it closes: what is not yet accepted is reset, and every open pipe.
DropConnections ==
  /\ acc' = [p \in Proxy |-> IF acc[p] = "reading" THEN "destroyed" ELSE acc[p]]
  /\ CloseAllByServer
  /\ UNCHANGED <<idGen, accId, ledger, settled, c2s, s2c, proxyVars,
                 commandVars>>

\* The coroutines and their uv_pipe_t are freed and no pipe is closed but the
\* listening one.
FreeCoroutines ==
  /\ acc' = [p \in Proxy |-> IF acc[p] = "reading" THEN "destroyed" ELSE acc[p]]
  /\ conn' = [p \in Proxy |-> IF conn[p] = "pending" THEN "reset" ELSE conn[p]]
  /\ UNCHANGED <<idGen, accId, ledger, settled, c2s, s2c, proxyVars,
                 commandVars>>

Unfinished == {p \in Proxy : acc[p] = "reading"}

\* loop has the root's exit, prints who is not done and returns, which destroys
\* the accept coroutines and closes none of their pipes.  The destructor of
\* one that is not done aborts a debug build; a release build frees it, and
\* uv_run does not return while the pipe it freed is active.  The close of a
\* pipe whose coroutine is over may still be under way (ServerLoop).
Teardown ==
  \/ /\ Unfinished = {}
     /\ srv' = "ended"
     /\ DropConnections
  \/ /\ \/ "debug" \in Builds /\ Unfinished # {}
        \/ \E p \in Proxy : acc[p] = "over"
     /\ srv' = "aborted"
     /\ DropConnections
  \/ /\ "release" \in Builds /\ Unfinished # {}
     /\ srv' = "freed"
     /\ FreeCoroutines

\* Mutant: the loop does not see the pipes before the signal.
ServerEndsAtOnce ==
  /\ srv = "up"
  /\ Gone(Root)
  /\ Teardown

\* Mutant: only a normal exit of the root proxy ends the loop.
ServerEndsOnExit ==
  /\ srv = "up"
  /\ pc[Root] = "exited"
  /\ ~InBacklog(Root)
  /\ \A p \in settled : pc[p] = "exited" /\ Created(p) => acc[p] # "reading"
  /\ Teardown

\* The exit of the root proxy ends loop.  libuv reports a signal after the
\* pipes of the same poll, so the root's connection was accepted, and the
\* ones already served whose proxy exited first have read the few fields of
\* its last report and their end of file.  A proxy that was killed may leave
\* a longer request half read.
ServerEnds ==
  /\ srv = "up"
  /\ Gone(Root)
  /\ ~InBacklog(Root)
  /\ \A p \in settled : pc[p] = "exited" /\ Created(p) => acc[p] # "reading"
  /\ Teardown

\* loop has returned, the process with it or not.
LoopOver == srv \in {"ended", "aborted", "freed"}

\* A callback for a pipe that was freed: the process dies of it.
FreedCrashes ==
  /\ srv = "freed"
  /\ srv' = "crashed"
  /\ DropConnections

ServerCrashes ==
  /\ "crash" \in Faults
  /\ srv = "up"
  /\ srv' = "crashed"
  /\ DropConnections

\* SIGPIPE again: an answer to a proxy that is gone may end the server, before
\* the line it has just printed is out of stdout's buffer.
ServerBrokenPipe(p) ==
  /\ \/ Reading(p, "CREATE")
     \/ Reading(p, "MAKE_DECISION") /\ Head(c2s[p]).val = Plain
  /\ conn[p] = "shut"
  /\ srv' = "crashed"
  /\ DropConnections

-----------------------------------------------------------------------------
Init ==
  /\ srv = "boot"
  /\ idGen = 0
  /\ acc = [p \in Proxy |-> "none"]
  /\ accId = [p \in Proxy |-> 0]
  /\ ledger = {}
  /\ settled = {}
  /\ conn = [p \in Proxy |-> "none"]
  /\ c2s = [p \in Proxy |-> <<>>]
  /\ s2c = [p \in Proxy |-> <<>>]
  /\ pc = [p \in Proxy |-> "off"]
  /\ shape = [p \in Proxy |-> "command"]
  /\ launcher = [p \in Proxy |-> p]
  /\ parentId = [p \in Proxy |-> 0]
  /\ env = [p \in Proxy |-> <<>>]
  /\ id = [p \in Proxy |-> -1]
  /\ ret = [p \in Proxy |-> 0]
  /\ cmd = [p \in Proxy |-> "none"]
  /\ code = [p \in Proxy |-> 0]

\* What a proxy does of its own accord, in the order of its main.
ProxyStep(p) ==
  \/ Connect(p) \/ Refuse(p) \/ Create(p) \/ WriteFails(p) \/ ReadFails(p)
  \/ ReceiveId(p) \/ HookMessage(p) \/ LocateFails(p) \/ MakeDecision(p)
  \/ ReceiveAction(p) \/ Spawn(p) \/ Wait(p) \/ Finish(p) \/ Exit(p)
  \/ BrokenPipe(p)

\* What the event loop does for one connection.
AcceptorStep(p) ==
  \/ Accept(p) \/ AcceptFails(p) \/ ServeCreate(p) \/ ServeDecision(p)
  \/ DecisionUnreadable(p) \/ ServeFinish(p) \/ ServeError(p)
  \/ Disconnect(p)

\* Everything has come to rest.
Terminated ==
  /\ srv \in {"ended", "aborted", "crashed"}
  /\ \A p \in Proxy : ~Live(p) /\ cmd[p] # "running"
  /\ UNCHANGED vars

Next ==
  \/ Boot \/ BootFails \/ ServerEnds \/ ServerCrashes \/ FreedCrashes
  \/ \E p \in Proxy : ProxyStep(p) \/ AcceptorStep(p) \/ ServerBrokenPipe(p)
                      \/ Kill(p) \/ CommandEnds(p)
  \/ \E q, p \in Proxy : Launch(q, p)
  \/ Terminated

Spec == Init /\ [][Next]_vars

\* Processes that can run do run, libuv serves a pipe that is ready, and the
\* commands of the build end; nothing forces a fault or a further command.
Fairness ==
  /\ WF_vars(Boot)
  /\ WF_vars(ServerEnds)
  /\ \A p \in Proxy : WF_vars(ProxyStep(p))
  /\ \A p \in Proxy : WF_vars(AcceptorStep(p))
  /\ \A p \in Proxy : WF_vars(CommandEnds(p))

FairSpec == Spec /\ Fairness

-----------------------------------------------------------------------------
(* Properties.                                                             *)

\* The type invariant.
TypeOK ==
  /\ srv \in {"boot", "up", "ended", "aborted", "freed", "crashed"}
  /\ idGen \in Nat
  /\ acc \in [Proxy -> {"none", "reading", "over", "destroyed"}]
  /\ accId \in [Proxy -> Nat]
  /\ ledger \subseteq Entries
  /\ settled \subseteq Proxy
  /\ conn \in [Proxy -> {"none", "pending", "open", "shut", "reset"}]
  /\ c2s \in [Proxy -> Seq(Requests)]
  /\ s2c \in [Proxy -> Seq(Replies)]
  /\ pc \in [Proxy -> {"off", "start", "connected", "creating", "created",
                       "deciding", "decided", "waiting", "ran", "returning",
                       "exited", "killed"}]
  /\ shape \in [Proxy -> {"command", "emptyArg", "message", "refused"}]
  /\ launcher \in [Proxy -> Proxy]
  /\ parentId \in [Proxy -> Int]
  /\ env \in [Proxy -> Seq(Int)]
  /\ id \in [Proxy -> Int]
  /\ ret \in [Proxy -> Int]
  /\ cmd \in [Proxy -> {"none", "running", "exited", "signalled"}]
  /\ code \in [Proxy -> Int]

\* The id a proxy received over its pipe is the id the server's coroutine for
\* that pipe took, and no two proxies were given the same one: accepts,
\* replies, failed accepts and deaths in any order never mix up ids.
IdsAreOwn ==
  \A p \in Proxy : id[p] # -1 =>
    /\ id[p] = accId[p]
    /\ id[p] \in 1..idGen
    /\ \A q \in Proxy : id[q] = id[p] => q = p

\* No command runs unless the server has recorded both the creation of its
\* id and a decision about it.
RunsOnlyDecided ==
  \A p \in Proxy : cmd[p] # "none" =>
    \E e, f \in ledger :
      /\ e.ev = "created" /\ e.id = accId[p]
      /\ f.ev = "decision" /\ f.id = accId[p]

\* The parent the server records for a command is 0, for the root only, or
\* the id of a command recorded before it: the recorded tree has no cycle
\* and no dangling parent, whatever order the connections are served in.
ParentIsOlder ==
  \A e \in ledger : e.ev = "created" =>
    \/ e.val = 0 /\ e.id = accId[Root]
    \/ /\ e.val \in 1..(e.id - 1)
       /\ \E f \in ledger : f.ev = "created" /\ f.id = e.val

\* A finish the server records is about a command that was started or could
\* not be, and carries what it came to: its exit status, 0 if a signal ended
\* it, or -1 when spawning or waiting failed.
FinishIsTrue ==
  \A e \in ledger : e.ev = "finish" =>
    \E p \in Proxy :
      /\ accId[p] = e.id
      /\ \/ cmd[p] \in {"exited", "signalled"} /\ e.val = RunResult(p)
         \/ e.val = -1 /\ Faults \cap {"spawn", "wait"} # {}

\* The server never hears two verdicts about one command: one finish, or one
\* error, never both.
OneVerdict ==
  \A e, f \in ledger :
    /\ e.ev \in {"finish", "error"} /\ f.ev \in {"finish", "error"}
    /\ e.id = f.id /\ e.id # -1
    => e = f

\* A proxy that kept its pipe to the end exits with the exit status of its
\* command, and 255 of -1 only when it started none or the wait failed.
ExitCodeTransparent ==
  \A p \in Proxy : pc[p] = "exited" /\ conn[p] = "shut" =>
    \/ cmd[p] = "none" /\ ret[p] = -1
    \/ cmd[p] \in {"exited", "signalled"} /\ ret[p] = RunResult(p)
    \/ "wait" \in Faults /\ ret[p] = -1

\* When loop has the root proxy's exit the server has recorded the finish of
\* every command whose proxy exited before the root: however the teardown of
\* the coroutines goes on, no report of a foreground command was unread.
LedgerComplete ==
  LoopOver =>
    \A p \in settled :
      pc[p] = "exited" /\ cmd[p] # "none" /\ conn[p] = "shut" =>
        Entry("finish", accId[p], ret[p]) \in ledger

\* The only commands that are not run are those the server cannot read, those
\* whose connection it failed to accept, and what was under way when it
\* crashed: a build without background processes loses no command to the
\* order in which its proxies are served, or to the server's end.
CommandsRun ==
  \A p \in Proxy : Gone(p) /\ shape[p] = "command" =>
    cmd[p] = "exited" \/ (acc[p] = "over" /\ ~Created(p)) \/ srv = "crashed"

\* The proxies whose pipe a release build freed without closing it.
Abandoned(p) == srv = "freed" /\ acc[p] = "destroyed"

\* Every proxy ends, whatever becomes of the server, unless the teardown freed
\* its pipe and the server lives on: no other reply is waited for for ever.
ProxiesEnd == \A p \in Proxy : Live(p) ~> Gone(p) \/ Abandoned(p)

\* Once the root proxy has gone the server ends, by returning or by its
\* assertion, unless a release build freed a pipe that it had not closed.
ServerStops ==
  srv = "up" ~> \/ srv \in {"ended", "aborted", "crashed"}
                \/ \E p \in Proxy : Abandoned(p)

\* The parent of a command is the command whose process started it.
ParentIsLauncher ==
  \A p \in Proxy \ {Root} : pc[p] # "off" => parentId[p] = id[launcher[p]]

\* The exit code a proxy reports for a command that a signal ended is not
\* the one of success.
SignalIsNoSuccess ==
  \A p \in Proxy : pc[p] = "ran" /\ cmd[p] = "signalled" => ret[p] # 0

-----------------------------------------------------------------------------
(* The inductive invariant behind IdsAreOwn, RunsOnlyDecided and           *)
(* ParentIsOlder: what is on a pipe, in the ledger and in the environments *)
(* fits what its proxy is doing.                                           *)

HasId(ev, i) == \E e \in ledger : e.ev = ev /\ e.id = i

\* Ids are taken once, by the coroutine of one connection, and a coroutine
\* reads only from a pipe that its proxy or nobody has closed.
AcceptOK(p) ==
  /\ accId[p] \in 0..idGen
  /\ acc[p] = "none" => accId[p] = 0
  /\ acc[p] = "reading" => accId[p] # 0 /\ conn[p] \in {"open", "shut"}
  /\ conn[p] = "none" => acc[p] = "none"
  /\ conn[p] = "shut" => Gone(p)
  /\ pc[p] \in {"off", "start"} => conn[p] = "none"
  /\ srv = "boot" => pc[p] = "off"
  /\ \A q \in Proxy : accId[q] = accId[p] /\ accId[p] # 0 => q = p

\* At most one message is under way on a pipe, and it is the one its proxy
\* has just sent or is waiting for.
TalkOK(p) ==
  /\ pc[p] \in {"off", "start", "connected", "created", "decided",
                "waiting", "ran"} => c2s[p] = <<>> /\ s2c[p] = <<>>
  /\ pc[p] = "creating" =>
       \/ c2s[p] = <<Request("CREATE", parentId[p], 0)>> /\ s2c[p] = <<>>
       \/ /\ c2s[p] = <<>>
          /\ s2c[p] = <<Reply("ID", accId[p])>>
          /\ accId[p] # 0
          /\ HasId("created", accId[p])
  /\ pc[p] = "deciding" =>
       \/ /\ \E v \in {Plain, HoldsEmptyString} :
               c2s[p] = <<Request("MAKE_DECISION", parentId[p], v)>>
          /\ s2c[p] = <<>>
       \/ /\ c2s[p] = <<>>
          /\ s2c[p] = <<Reply("ACTION", 0)>>
          /\ HasId("decision", accId[p])
       \/ c2s[p] = <<>> /\ s2c[p] = <<>>
  /\ pc[p] \in {"returning", "exited", "killed"} =>
       \/ c2s[p] = <<>>
       \/ /\ c2s[p] = <<Head(c2s[p])>>
          /\ Head(c2s[p]).op = "CREATE" => Head(c2s[p]).parent = parentId[p]

\* A proxy that got past CREATE holds the id of its own connection, one past
\* MAKE_DECISION, and its command, has been decided.
ProgressOK(p) ==
  /\ id[p] = -1 \/ (id[p] = accId[p] /\ id[p] # 0 /\ HasId("created", accId[p]))
  /\ pc[p] \in {"off", "start", "connected", "creating"} => id[p] = -1
  /\ pc[p] \in {"created", "deciding", "decided", "waiting", "ran"} => id[p] # -1
  /\ pc[p] \in {"decided", "waiting", "ran"} \/ cmd[p] # "none" =>
       id[p] # -1 /\ HasId("decision", accId[p])

\* Environments hold ids recorded before, and so does every parent but the
\* root's; the id of a connection is taken after the parent's.
TreeOK(p) ==
  /\ \A i \in 1..Len(env[p]) : HasId("created", env[p][i])
  /\ p = Root => parentId[p] = 0
  /\ p # Root /\ pc[p] # "off" => HasId("created", parentId[p])
  /\ accId[p] # 0 => parentId[p] < accId[p]

\* A recorded creation is about the connection that took its id, and names
\* the parent its proxy was started with.
EntryOK(e) ==
  e.ev = "created" =>
    \E p \in Proxy : /\ e.id = accId[p] /\ e.id # 0
                      /\ e.val = parentId[p] /\ pc[p] # "off"

\* What every step of proxies, server and commands keeps true: ids, pipes,
\* progress, environments and ledger agree, as the five parts above say.
IInv ==
  /\ \A p \in Proxy : AcceptOK(p) /\ TalkOK(p) /\ ProgressOK(p) /\ TreeOK(p)
  /\ \A e \in ledger : EntryOK(e)

-----------------------------------------------------------------------------
(* The promise of CommandLifecycle, read off the ledger and the commands.  *)

HasEntry(ev, p) == \E e \in ledger : e.ev = ev /\ e.id = accId[p] /\ acc[p] # "none"

Phase(p) ==
  CASE HasEntry("finish", p) -> "reported"
    [] ~HasEntry("finish", p) /\ cmd[p] \in {"exited", "signalled"} -> "over"
    [] ~HasEntry("finish", p) /\ cmd[p] = "running" -> "running"
    [] cmd[p] = "none" /\ ~HasEntry("finish", p) /\ HasEntry("decision", p) -> "decided"
    [] cmd[p] = "none" /\ ~HasEntry("finish", p) /\ ~HasEntry("decision", p)
         /\ HasEntry("created", p) -> "registered"
    [] OTHER -> "new"

RecordedParent(p) ==
  IF HasEntry("created", p)
    THEN (CHOOSE e \in ledger : e.ev = "created" /\ e.id = accId[p]).val
    ELSE 0

Lifecycle == INSTANCE CommandLifecycle WITH
  Command <- Proxy,
  phase <- [p \in Proxy |-> Phase(p)],
  number <- [p \in Proxy |-> IF HasEntry("created", p) THEN accId[p] ELSE 0],
  parent <- [p \in Proxy |-> RecordedParent(p)]

\* Seen from outside, the protocol only ever takes commands through the
\* lifecycle, one step at a time and none backwards, faults included.
KeepsLifecycle == Lifecycle!Spec
=============================================================================
