----------------------------- MODULE ServerLoop -----------------------------
(***************************************************************************)
(* The life of the server's coroutines and libuv handles: `loop' and       *)
(* `accept' of src/catter/main.cc on top of the awaiters and the Lazy      *)
(* coroutine type of src/common/uv/uv.h and src/common/util/lazy.h.        *)
(*                                                                         *)
(* A request is read field by field, and libuv reads a pipe so often and   *)
(* no oftener in one poll: a command carries its whole environment, and    *)
(* takes several.  An answer is awaited: the coroutine reads on when the   *)
(* callback of its write has come.                                         *)
(*                                                                         *)
(* A uv::async::Lazy is done only when its body has returned AND its       *)
(* cleaner has closed every handle the body created; a close takes effect  *)
(* in a callback at the end of the loop iteration.  `loop' waits for the   *)
(* root proxy's exit and then destroys every accept coroutine, each of     *)
(* which asserts in its destructor that it is done.                        *)
(*                                                                         *)
(* An iteration of libuv's loop (external) calls back for the writes that  *)
(* are done, polls, calls back for the pipes that are ready, calls back    *)
(* for a signal last, and then runs the close callbacks, the handle closed *)
(* last first.                                                             *)
(***************************************************************************)
EXTENDS Integers, Sequences, FiniteSets

CONSTANTS
  Conn,           \* the connections of the proxies
  RootConn,       \* the one of the root proxy
  Background,     \* the ones that may outlive the root proxy
  Abrupt,         \* the ones whose proxy may be killed
  PerPoll,        \* how often libuv reads a pipe in one poll: 32
  CreateReads,    \* the reads of a CREATE request,
  DecisionReads,  \* ... of a MAKE_DECISION request with its command
  ReportReads     \* ... and of the FINISH or REPORT_ERROR that comes last

ASSUME RootConnAssumption == RootConn \in Conn
ASSUME BackgroundAssumption == Background \subseteq Conn \ {RootConn}
ASSUME AbruptAssumption == Abrupt \subseteq Conn
\* A report takes five reads at most, and the end of file is read after it.
ASSUME ReadsAssumption ==
  /\ PerPoll \in Nat
  /\ CreateReads \in Nat \ {0}
  /\ DecisionReads \in Nat \ {0}
  /\ ReportReads \in 1..(PerPoll - 1)

Listen == "listen"
Sigchld == "sigchld"
Process == "process"
Server == "server"
Handles == Conn \cup {Process, Server}

ASSUME NamesAssumption == Conn \cap {Listen, Sigchld, Process, Server} = {}

VARIABLES
  \* the other ends of the pipes, and the root proxy
  peer,
  sent,      \* the last request it sent: none, CREATE, MAKE_DECISION, a report
  asks,      \* has it sent a request that is to be answered?
  unread,    \* the reads that its last request still takes
  root,
  early,     \* the accepted connections whose proxy exited before the root
  \* the coroutines
  co,        \* accept, per connection
  spawnCo,   \* spawn of the root proxy
  loopCo,    \* loop
  \* the event loop
  phase, batch, closing, run

peerVars == <<peer, sent, asks, unread, root, early>>
coVars == <<co, spawnCo, loopCo>>
uvVars == <<phase, batch, closing, run>>
vars == <<peerVars, coVars, uvVars>>

Init ==
  /\ peer = [c \in Conn |-> "absent"]
  /\ sent = [c \in Conn |-> 0]
  /\ asks = [c \in Conn |-> FALSE]
  /\ unread = [c \in Conn |-> 0]
  /\ root = "running"
  /\ early = {}
  /\ co = [c \in Conn |-> "none"]
  /\ spawnCo = "waiting"
  /\ loopCo = "waiting"
  /\ phase = "idle"
  /\ batch = {}
  /\ closing = <<>>
  /\ run = <<>>

-----------------------------------------------------------------------------
(* The proxies.                                                            *)

Serving == loopCo = "waiting"

PeerConnects(c) ==
  /\ Serving
  /\ peer[c] = "absent"
  /\ root = "running" \/ c \in Background
  /\ peer' = [peer EXCEPT ![c] = "up"]
  /\ UNCHANGED <<sent, asks, unread, root, early, coVars, uvVars>>

Report == 3
Reads(r) ==
  CASE r = 1 -> CreateReads
    [] r = 2 -> DecisionReads
    [] r = Report -> ReportReads

\* A proxy sends its next request when the one before is answered, or an
\* error in its place, which is its last.
PeerSends(c) ==
  /\ peer[c] = "up"
  /\ ~asks[c]
  /\ sent[c] # Report
  /\ \E r \in {sent[c] + 1, Report} :
       /\ sent' = [sent EXCEPT ![c] = r]
       /\ asks' = [asks EXCEPT ![c] = r # Report]
       /\ unread' = [unread EXCEPT ![c] = Reads(r)]
  /\ UNCHANGED <<peer, root, early, coVars, uvVars>>

PeerExits(c) ==
  /\ peer[c] = "up"
  /\ sent[c] = Report
  /\ peer' = [peer EXCEPT ![c] = "exited"]
  /\ UNCHANGED <<sent, asks, unread, root, early, coVars, uvVars>>

\* A killed proxy closes its pipe where it is, in the middle of a request too.
PeerKilled(c) ==
  /\ c \in Abrupt
  /\ peer[c] = "up"
  /\ peer' = [peer EXCEPT ![c] = "killed"]
  /\ \/ UNCHANGED <<asks, unread>>
     \/ \E n \in 0..(unread[c] - 1) :
          /\ unread' = [unread EXCEPT ![c] = n]
          /\ asks' = [asks EXCEPT ![c] = FALSE]
  /\ UNCHANGED <<sent, root, early, coVars, uvVars>>

\* The root proxy closes its own pipe, and waits for the commands that do
\* not run in the background, before it exits.
RootExits ==
  /\ root = "running"
  /\ \A c \in Conn \ Background : peer[c] # "up"
  /\ root' = "exited"
  /\ early' = {c \in Conn : peer[c] = "exited" /\ co[c] # "none"}
  /\ UNCHANGED <<peer, sent, asks, unread, coVars, uvVars>>

-----------------------------------------------------------------------------
(* One iteration of the event loop.                                        *)

InBacklog(c) == co[c] = "none" /\ peer[c] # "absent"
Gone(c) == peer[c] \in {"exited", "killed"}
Readable(c) == co[c] = "reading" /\ (unread[c] > 0 \/ Gone(c))

\* The answer is not yet taken whole, and its proxy can go on taking it.
Stuck(c) == peer[c] = "up" /\ unread[c] = 0

Ready ==
  {c \in Conn : Readable(c)}
    \cup (IF Serving /\ \E c \in Conn : InBacklog(c) THEN {Listen} ELSE {})
    \cup (IF root = "exited" /\ spawnCo = "waiting" THEN {Sigchld} ELSE {})

\* Mutant: one event at a time, the signal as early as any other.
PollOne ==
  /\ phase = "idle"
  /\ \A c \in Conn : co[c] = "writing" => Stuck(c)
  /\ Ready # {} \/ closing # <<>>
  /\ IF Ready = {} THEN batch' = {} ELSE \E r \in Ready : batch' = {r}
  /\ phase' = "callbacks"
  /\ UNCHANGED <<peerVars, coVars, closing, run>>

\* The poll takes what is ready now; it does not block when handles close.
\* The callbacks of the writes that are done, or have failed, come before it.
Poll ==
  /\ phase = "idle"
  /\ \A c \in Conn : co[c] = "writing" => Stuck(c)
  /\ Ready # {} \/ closing # <<>>
  /\ batch' = Ready
  /\ phase' = "callbacks"
  /\ UNCHANGED <<peerVars, coVars, closing, run>>

\* uv_close puts a handle in front of the ones closed before it.
UvClose(h) == closing' = <<h>> \o closing

\* listen_cb: accept runs to its first read; its pipe is polled from the
\* next iteration on.
OnListen(c) ==
  /\ phase = "callbacks"
  /\ Listen \in batch
  /\ InBacklog(c)
  /\ co' = [co EXCEPT ![c] = "reading"]
  /\ batch' = batch \ {Listen}
  /\ UNCHANGED <<peerVars, spawnCo, loopCo, phase, closing, run>>

\* Mutant: the pipe is closed and the coroutine reads on.
OnReadGoesOn(c) ==
  /\ phase = "callbacks"
  /\ c \in batch
  /\ batch' = batch \ {c}
  /\ unread' = [unread EXCEPT ![c] = 0]
  /\ asks' = [asks EXCEPT ![c] = FALSE]
  /\ IF unread[c] < PerPoll /\ Gone(c) THEN UvClose(c) ELSE UNCHANGED closing
  /\ UNCHANGED <<peer, sent, root, early, co, spawnCo, loopCo, phase, run>>

\* read_cb, as often as the poll allows.  A request that is read to its end is
\* answered when it asks for it, and the write awaited; the end of file ends
\* the body, and final_suspend resumes the cleaner, which closes the pipe.
OnRead(c) ==
  /\ phase = "callbacks"
  /\ c \in batch
  /\ batch' = batch \ {c}
  /\ \/ /\ unread[c] > PerPoll
        /\ unread' = [unread EXCEPT ![c] = @ - PerPoll]
        /\ UNCHANGED <<asks, co, closing>>
     \/ /\ unread[c] <= PerPoll /\ asks[c]
        /\ unread' = [unread EXCEPT ![c] = 0]
        /\ asks' = [asks EXCEPT ![c] = FALSE]
        /\ co' = [co EXCEPT ![c] = "writing"]
        /\ UNCHANGED closing
     \/ /\ unread[c] < PerPoll /\ ~asks[c] /\ Gone(c)
        /\ unread' = [unread EXCEPT ![c] = 0]
        /\ co' = [co EXCEPT ![c] = "closing"]
        /\ UvClose(c)
        /\ UNCHANGED asks
     \/ /\ unread[c] <= PerPoll /\ ~asks[c] /\ (unread[c] = PerPoll \/ ~Gone(c))
        /\ unread' = [unread EXCEPT ![c] = 0]
        /\ UNCHANGED <<asks, co, closing>>
  /\ UNCHANGED <<peer, sent, root, early, spawnCo, loopCo, phase, run>>

\* write_cb: the coroutine reads on; a proxy that was killed makes the write
\* fail, which ends the body like the end of file does.
OnWritten(c) ==
  /\ phase = "idle"
  /\ co[c] = "writing"
  /\ \/ co' = [co EXCEPT ![c] = "reading"] /\ UNCHANGED closing
     \/ /\ peer[c] = "killed"
        /\ co' = [co EXCEPT ![c] = "closing"]
        /\ UvClose(c)
  /\ UNCHANGED <<peerVars, spawnCo, loopCo, phase, batch, run>>

\* Mutant: the signal watcher is closed in place of the process handle.
OnSignalClosesWatcher ==
  /\ phase = "callbacks"
  /\ batch = {Sigchld}
  /\ batch' = {}
  /\ spawnCo' = "closing"
  /\ UvClose(Sigchld)
  /\ UNCHANGED <<peerVars, co, loopCo, phase, run>>

\* exit_cb: the body of spawn returns and its cleaner closes the process
\* handle; `loop' is resumed only when that is closed.
OnSignal ==
  /\ phase = "callbacks"
  /\ batch = {Sigchld}
  /\ batch' = {}
  /\ spawnCo' = "closing"
  /\ UvClose(Process)
  /\ UNCHANGED <<peerVars, co, loopCo, phase, run>>

StartClosing ==
  /\ phase = "callbacks"
  /\ batch = {}
  /\ phase' = "closing"
  /\ run' = closing
  /\ closing' = <<>>
  /\ UNCHANGED <<peerVars, coVars, batch>>

\* close_cb of a connection's pipe: the cleaner ends, the accept coroutine
\* is done.
OnClosed(c) ==
  /\ phase = "closing"
  /\ run # <<>> /\ Head(run) = c
  /\ run' = Tail(run)
  /\ co' = [co EXCEPT ![c] = "done"]
  /\ UNCHANGED <<peerVars, spawnCo, loopCo, phase, batch, closing>>

NotDone == {c \in Conn : co[c] \in {"reading", "writing", "closing"}}

\* Mutant: the listening pipe was not registered for its close.
OnProcessClosedOnly ==
  /\ phase = "closing"
  /\ run # <<>> /\ Head(run) = Process
  /\ run' = Tail(run)
  /\ spawnCo' = "done"
  /\ loopCo' = (IF NotDone = {} THEN "closing" ELSE "broken")
  /\ UNCHANGED <<peerVars, co, phase, batch, closing>>

\* close_cb of the process handle resumes `loop': it reports the coroutines
\* that are not done and returns, which destroys them all.  The destructor
\* of one that is not done aborts (assertions on) or frees a frame and a
\* handle libuv still uses: "broken".  Otherwise the cleaner closes the
\* listening pipe.
OnProcessClosed ==
  /\ phase = "closing"
  /\ run # <<>> /\ Head(run) = Process
  /\ run' = Tail(run)
  /\ spawnCo' = "done"
  /\ IF NotDone = {}
       THEN /\ loopCo' = "closing"
            /\ UvClose(Server)
       ELSE /\ loopCo' = "broken"
            /\ UNCHANGED closing
  /\ UNCHANGED <<peerVars, co, phase, batch>>

OnServerClosed ==
  /\ phase = "closing"
  /\ run # <<>> /\ Head(run) = Server
  /\ run' = Tail(run)
  /\ loopCo' = "done"
  /\ UNCHANGED <<peerVars, co, spawnCo, phase, batch, closing>>

EndIteration ==
  /\ phase = "closing"
  /\ run = <<>>
  /\ phase' = "idle"
  /\ UNCHANGED <<peerVars, coVars, batch, closing, run>>

\* wait returns when `loop' is done.
Stopped ==
  /\ loopCo \in {"done", "broken"}
  /\ UNCHANGED vars

PeerStep(c) ==
  PeerConnects(c) \/ PeerSends(c) \/ PeerExits(c) \/ PeerKilled(c)

UvStep ==
  /\ loopCo \in {"waiting", "closing"}
  /\ \/ Poll \/ OnSignal \/ StartClosing \/ OnProcessClosed \/ OnServerClosed
     \/ EndIteration
     \/ \E c \in Conn : OnListen(c) \/ OnRead(c) \/ OnWritten(c) \/ OnClosed(c)

Next ==
  \/ \E c \in Conn : PeerStep(c)
  \/ RootExits
  \/ UvStep
  \/ Stopped

\* The server process runs: uv_run goes on while it has something to do.
\* Nothing is asked of the proxies.
Spec == Init /\ [][Next]_vars
FairSpec == Spec /\ WF_vars(UvStep)

-----------------------------------------------------------------------------
(* Properties.                                                             *)

\* The type invariant.
TypeOK ==
  /\ peer \in [Conn -> {"absent", "up", "exited", "killed"}]
  /\ sent \in [Conn -> 0..Report]
  /\ asks \in [Conn -> BOOLEAN]
  /\ unread \in [Conn -> Nat]
  /\ root \in {"running", "exited"}
  /\ early \subseteq Conn
  /\ co \in [Conn -> {"none", "reading", "writing", "closing", "done"}]
  /\ spawnCo \in {"waiting", "closing", "done"}
  /\ loopCo \in {"waiting", "closing", "done", "broken"}
  /\ phase \in {"idle", "callbacks", "closing"}
  /\ batch \subseteq Conn \cup {Listen, Sigchld}
  /\ closing \in Seq(Handles)
  /\ run \in Seq(Handles)

Occurrences(h, s) == {i \in 1..Len(s) : s[i] = h}

\* A handle is on its way to be closed exactly while the cleaner that closes
\* it waits for it, and once only: none is closed twice and none is freed
\* with its coroutine before libuv has let go of it, unless `loop' broke.
HandlesCloseOnce ==
  LET pending == closing \o run IN
  /\ \A c \in Conn :
       Cardinality(Occurrences(c, pending)) = (IF co[c] = "closing" THEN 1 ELSE 0)
  /\ Cardinality(Occurrences(Process, pending))
       = (IF spawnCo = "closing" THEN 1 ELSE 0)
  /\ Cardinality(Occurrences(Server, pending))
       = (IF loopCo = "closing" THEN 1 ELSE 0)

\* When `loop' resumes, every accepted connection whose proxy exited before the
\* root has read its report and its end of file: of a proxy that exits no
\* request is lost, whatever the others still have to read.
ServedAreRead ==
  loopCo # "waiting" =>
    \A c \in early : co[c] \in {"closing", "done"} /\ unread[c] = 0

Returned == loopCo = "done" /\ closing = <<>> /\ run = <<>>

\* Once the root proxy is gone `loop' is resumed: it returns with every handle
\* closed, or meets a coroutine that is not done, where it breaks.  It does
\* return, and the server's wait with it, when every connection is served and
\* closed by then.
LoopReturns ==
  /\ root = "exited" ~> Returned \/ loopCo = "broken"
  /\ (root = "exited" /\ \A c \in Conn : co[c] = "done") ~> Returned

=============================================================================
