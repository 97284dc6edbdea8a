-------------------------- MODULE ServerLoopProofs --------------------------
(***************************************************************************)
(* Proofs about ServerLoop, for any number of connections and whatever     *)
(* order they come, write and close in: every handle is closed once, by    *)
(* the cleaner that waits for it, and when `loop' resumes no connection    *)
(* whose proxy exited before the root has anything left to read.           *)
(***************************************************************************)
EXTENDS ServerLoop, FiniteSetTheorems, TLAPS

-----------------------------------------------------------------------------
(* The list of the handles to close.                                       *)

Members(s) == {s[i] : i \in 1..Len(s)}
AllDistinct(s) == \A i, j \in 1..Len(s) : s[i] = s[j] => i = j

\* The lists are made of handles.
LEMMA ListOfHandles ==
  ASSUME NEW h \in Handles, NEW s \in Seq(Handles)
  PROVE  <<h>> \o s \in Seq(Handles) /\ (s # <<>> => Tail(s) \in Seq(Handles))
  OBVIOUS

\* A handle that is not in the list can be put in front of it.
LEMMA PushFront ==
  ASSUME NEW h \in Handles, NEW s \in Seq(Handles), NEW t \in Seq(Handles),
         AllDistinct(s \o t), h \notin Members(s \o t)
  PROVE  /\ AllDistinct((<<h>> \o s) \o t)
         /\ Members((<<h>> \o s) \o t) = Members(s \o t) \cup {h}
  <1> DEFINE u == s \o t
             v == (<<h>> \o s) \o t
  <1>1. u \in Seq(Handles) /\ v \in Seq(Handles)
    OBVIOUS
  <1>2. Len(v) = Len(u) + 1 /\ Len(u) \in Nat
    OBVIOUS
  <1>3. v[1] = h
    OBVIOUS
  <1>4. \A i \in 1..Len(u) : v[i + 1] = u[i]
    OBVIOUS
  <1>5. \A i \in 1..Len(v) : i = 1 \/ (i - 1 \in 1..Len(u) /\ v[i] = u[i - 1])
    <2> SUFFICES ASSUME NEW i \in 1..Len(v), i # 1
                 PROVE  i - 1 \in 1..Len(u) /\ v[i] = u[i - 1]
      OBVIOUS
    <2>1. i - 1 \in 1..Len(u)
      BY <1>2
    <2>2. (i - 1) + 1 = i
      OBVIOUS
    <2> QED
      BY <2>1, <2>2, <1>4
  <1> HIDE DEF u, v
  <1>6. AllDistinct(u) /\ h \notin Members(u)
    BY DEF u
  <1>7. AllDistinct(v)
    <2> SUFFICES ASSUME NEW i \in 1..Len(v), NEW j \in 1..Len(v), v[i] = v[j]
                 PROVE  i = j
      BY DEF AllDistinct
    <2>1. \A k \in 1..Len(u) : u[k] # h
      BY <1>6 DEF Members
    <2>2. CASE i = 1 \/ j = 1
      BY <2>1, <2>2, <1>3, <1>5
    <2>3. CASE i # 1 /\ j # 1
      <3>1. i - 1 \in 1..Len(u) /\ j - 1 \in 1..Len(u) /\ u[i - 1] = u[j - 1]
        BY <2>3, <1>5
      <3>2. i - 1 = j - 1
        BY <3>1, <1>6 DEF AllDistinct
      <3> QED
        BY <3>2
    <2> QED
      BY <2>2, <2>3
  <1>8. Members(v) \subseteq Members(u) \cup {h}
    BY <1>3, <1>5 DEF Members
  <1>9. h \in Members(v)
    <2>1. 1 \in 1..Len(v)
      BY <1>2
    <2> QED
      BY <2>1, <1>3 DEF Members
  <1>10. Members(u) \subseteq Members(v)
    <2> SUFFICES ASSUME NEW i \in 1..Len(u)
                 PROVE  u[i] \in Members(v)
      BY DEF Members
    <2>1. i + 1 \in 1..Len(v)
      BY <1>2
    <2> QED
      BY <2>1, <1>4 DEF Members
  <1> QED
    BY <1>7, <1>8, <1>9, <1>10 DEF u, v

\* The first of the handles whose callbacks run leaves the list for good.
LEMMA DropHead ==
  ASSUME NEW s \in Seq(Handles), NEW t \in Seq(Handles), t # <<>>,
         AllDistinct(s \o t)
  PROVE  /\ Head(t) \in Members(s \o t)
         /\ AllDistinct(s \o Tail(t))
         /\ Members(s \o Tail(t)) = Members(s \o t) \ {Head(t)}
  <1> DEFINE u == s \o t
             v == s \o Tail(t)
             n == Len(s) + 1
             at(i) == IF i < n THEN i ELSE i + 1
  <1>1. n \in Nat /\ n \in 1..Len(u) /\ Len(u) \in Nat /\ u[n] = Head(t)
    OBVIOUS
  <1>2. Len(v) = Len(u) - 1
    OBVIOUS
  <1>3. \A i \in 1..Len(v) : v[i] = u[at(i)]
    <2> TAKE i \in 1..Len(v)
    <2>1. CASE i < n
      BY <2>1
    <2>2. CASE ~(i < n)
      <3>1. v[i] = Tail(t)[i - Len(s)]
        BY <2>2
      <3>2. Tail(t)[i - Len(s)] = t[i - Len(s) + 1]
        BY <2>2
      <3>3. u[i + 1] = t[i + 1 - Len(s)]
        BY <2>2
      <3>4. i - Len(s) + 1 = i + 1 - Len(s)
        OBVIOUS
      <3> QED
        BY <2>2, <3>1, <3>2, <3>3, <3>4
    <2> QED
      BY <2>1, <2>2
  <1>4. \A i \in 1..Len(v) : at(i) \in 1..Len(u) /\ at(i) # n
    BY <1>1, <1>2
  <1>5. \A i, j \in 1..Len(v) : at(i) = at(j) => i = j
    BY <1>1, <1>2
  <1>6. \A k \in 1..Len(u) : k = n \/ \E i \in 1..Len(v) : at(i) = k
    <2> SUFFICES ASSUME NEW k \in 1..Len(u), k # n
                 PROVE  \E i \in 1..Len(v) : at(i) = k
      OBVIOUS
    <2>1. CASE k < n
      <3>1. k \in 1..Len(v) /\ at(k) = k
        BY <2>1, <1>1, <1>2
      <3> QED
        BY <3>1
    <2>2. CASE k > n
      <3>1. k - 1 \in 1..Len(v) /\ at(k - 1) = k
        BY <2>2, <1>1, <1>2
      <3> QED
        BY <3>1
    <2> QED
      BY <2>1, <2>2, <1>1
  <1> HIDE DEF u, v, n, at
  <1>7. AllDistinct(u)
    BY DEF u
  <1>8. Head(t) \in Members(u)
    BY <1>1 DEF Members
  <1>9. AllDistinct(v)
    BY <1>3, <1>4, <1>5, <1>7 DEF AllDistinct
  <1>10. Members(v) \subseteq Members(u) \ {Head(t)}
    <2> SUFFICES ASSUME NEW i \in 1..Len(v)
                 PROVE  v[i] \in Members(u) /\ v[i] # Head(t)
      BY DEF Members
    <2>1. v[i] = u[at(i)] /\ at(i) \in 1..Len(u) /\ at(i) # n
      BY <1>3, <1>4
    <2> QED
      BY <2>1, <1>1, <1>7 DEF Members, AllDistinct
  <1>11. Members(u) \ {Head(t)} \subseteq Members(v)
    <2> SUFFICES ASSUME NEW k \in 1..Len(u), u[k] # Head(t)
                 PROVE  u[k] \in Members(v)
      BY DEF Members
    <2>1. PICK i \in 1..Len(v) : at(i) = k
      BY <1>1, <1>6
    <2> QED
      BY <2>1, <1>3 DEF Members
  <1> QED
    BY <1>8, <1>9, <1>10, <1>11 DEF u, v

\* An element of a list without doubles occurs in it once.
LEMMA OccursOnce ==
  ASSUME NEW s \in Seq(Handles), NEW h, AllDistinct(s)
  PROVE  Cardinality(Occurrences(h, s)) = (IF h \in Members(s) THEN 1 ELSE 0)
  <1>1. CASE h \in Members(s)
    <2>1. PICK i \in 1..Len(s) : s[i] = h
      BY <1>1 DEF Members
    <2>2. Occurrences(h, s) = {i}
      BY <2>1 DEF Occurrences, AllDistinct
    <2> QED
      BY <2>2, <1>1, FS_Singleton
  <1>2. CASE h \notin Members(s)
    <2>1. Occurrences(h, s) = {}
      BY <1>2 DEF Occurrences, Members
    <2> QED
      BY <2>1, <1>2, FS_EmptySet
  <1> QED
    BY <1>1, <1>2

-----------------------------------------------------------------------------
(* Types.                                                                  *)

\* A read takes what the poll allows of a request, and with its last field the
\* question is out of the way.
LEMMA OnReadReads ==
  ASSUME NEW c \in Conn, OnRead(c), asks \in [Conn -> BOOLEAN], unread \in [Conn -> Nat]
  PROVE  /\ asks' \in [Conn -> BOOLEAN] /\ unread' \in [Conn -> Nat]
         /\ \A d \in Conn \ {c} : asks'[d] = asks[d] /\ unread'[d] = unread[d]
         /\ unread'[c] = 0 \/ (unread[c] > PerPoll /\ asks'[c] = asks[c])
         /\ ~asks[c] => ~asks'[c]
  <1>1. \E n \in Nat : unread' = [unread EXCEPT ![c] = n]
                       /\ (n = 0 \/ (unread[c] > PerPoll /\ asks' = asks))
    <2>1. CASE unread[c] > PerPoll /\ unread' = [unread EXCEPT ![c] = @ - PerPoll]
               /\ asks' = asks
      <3>1. unread[c] - PerPoll \in Nat
        BY <2>1, ReadsAssumption
      <3> QED
        BY <2>1, <3>1
    <2>2. CASE unread' = [unread EXCEPT ![c] = 0]
      BY <2>2
    <2> QED
      BY <2>1, <2>2 DEF OnRead
  <1>2. asks' = asks \/ asks' = [asks EXCEPT ![c] = FALSE]
    BY DEF OnRead
  <1> QED
    BY <1>1, <1>2

\* The variables keep their types: only libuv's handles are closed, and a
\* coroutine is in one of its states.
THEOREM TypeCorrect == Spec => []TypeOK
  <1>1. Init => TypeOK
    BY RootConnAssumption DEF Init, TypeOK, Handles, Report
  <1>2. TypeOK /\ [Next]_vars => TypeOK'
    <2> SUFFICES ASSUME TypeOK, [Next]_vars
                 PROVE  TypeOK'
      OBVIOUS
    <2> USE DEF TypeOK
    <2>1. ASSUME NEW c \in Conn, PeerStep(c)
          PROVE  TypeOK'
      <3>1. CASE PeerConnects(c)
        BY <3>1 DEF PeerConnects, coVars, uvVars
      <3>2. CASE PeerSends(c)
        <4>1. PICK r \in {sent[c] + 1, Report} :
                /\ sent' = [sent EXCEPT ![c] = r]
                /\ asks' = [asks EXCEPT ![c] = r # Report]
                /\ unread' = [unread EXCEPT ![c] = Reads(r)]
          BY <3>2 DEF PeerSends
        <4>2. r \in 1..Report
          <5>1. sent[c] \in 0..3 /\ sent[c] # 3
            BY <3>2 DEF PeerSends, Report
          <5>2. r = sent[c] + 1 \/ r = 3
            BY <4>1 DEF Report
          <5> QED
            BY <5>1, <5>2 DEF Report
        <4>3. Reads(r) \in Nat
          BY <4>2, ReadsAssumption DEF Reads, Report
        <4>4. UNCHANGED <<peer, root, early, coVars, uvVars>>
          BY <3>2 DEF PeerSends
        <4> QED
          BY <4>1, <4>2, <4>3, <4>4 DEF coVars, uvVars
      <3>3. CASE PeerExits(c)
        BY <3>3 DEF PeerExits, coVars, uvVars
      <3>4. CASE PeerKilled(c)
        <4>1. unread' = unread \/ \E n \in Nat : unread' = [unread EXCEPT ![c] = n]
          BY <3>4 DEF PeerKilled
        <4>2. unread' \in [Conn -> Nat]
          BY <4>1
        <4>3. asks' \in [Conn -> BOOLEAN] /\ peer' = [peer EXCEPT ![c] = "killed"]
          BY <3>4 DEF PeerKilled
        <4> QED
          BY <3>4, <4>2, <4>3 DEF PeerKilled, coVars, uvVars
      <3> QED
        BY <2>1, <3>1, <3>2, <3>3, <3>4 DEF PeerStep
    <2>2. CASE RootExits
      BY <2>2 DEF RootExits, coVars, uvVars
    <2>3. CASE Poll
      BY <2>3 DEF Poll, Ready, peerVars, coVars
    <2>4. CASE OnSignal
      BY <2>4 DEF OnSignal, UvClose, Handles, peerVars
    <2>5. CASE StartClosing
      BY <2>5 DEF StartClosing, peerVars, coVars
    <2>6. CASE OnProcessClosed
      <3>1. run' \in Seq(Handles) /\ closing' \in Seq(Handles)
        <4>1. Server \in Handles
          BY DEF Handles
        <4> HIDE DEF Handles, Server, Process
        <4>2. run' = Tail(run) /\ run # <<>>
          BY <2>6 DEF OnProcessClosed
        <4>3. closing' = closing \/ closing' = <<Server>> \o closing
          BY <2>6 DEF OnProcessClosed, UvClose
        <4> QED
          BY <4>1, <4>2, <4>3, ListOfHandles
      <3> QED
        BY <2>6, <3>1 DEF OnProcessClosed, peerVars
    <2>7. CASE OnServerClosed
      BY <2>7 DEF OnServerClosed, peerVars
    <2>8. CASE EndIteration
      BY <2>8 DEF EndIteration, peerVars, coVars
    <2>9. ASSUME NEW c \in Conn, OnListen(c)
          PROVE  TypeOK'
      BY <2>9 DEF OnListen, peerVars
    <2>10. ASSUME NEW c \in Conn, OnRead(c)
           PROVE  TypeOK'
      <3>1. closing' \in Seq(Handles)
        <4>1. c \in Handles
          BY DEF Handles
        <4>2. closing' = closing \/ closing' = <<c>> \o closing
          BY <2>10 DEF OnRead, UvClose
        <4> QED
          BY <4>1, <4>2, ListOfHandles
      <3>2. co' = co \/ \E s \in {"writing", "closing"} : co' = [co EXCEPT ![c] = s]
        BY <2>10 DEF OnRead
      <3>3. asks' \in [Conn -> BOOLEAN] /\ unread' \in [Conn -> Nat]
        BY <2>10, OnReadReads
      <3>4. UNCHANGED <<peer, sent, root, early, spawnCo, loopCo, phase, run>>
            /\ batch' \subseteq batch
        BY <2>10 DEF OnRead
      <3> QED
        BY <3>1, <3>2, <3>3, <3>4
    <2>11. ASSUME NEW c \in Conn, OnClosed(c)
           PROVE  TypeOK'
      BY <2>11 DEF OnClosed, peerVars
    <2>13. ASSUME NEW c \in Conn, OnWritten(c)
           PROVE  TypeOK'
      <3>1. closing' \in Seq(Handles)
        <4>1. c \in Handles
          BY DEF Handles
        <4>2. closing' = closing \/ closing' = <<c>> \o closing
          BY <2>13 DEF OnWritten, UvClose
        <4> QED
          BY <4>1, <4>2, ListOfHandles
      <3>2. \E s \in {"reading", "closing"} : co' = [co EXCEPT ![c] = s]
        BY <2>13 DEF OnWritten
      <3>3. UNCHANGED <<peerVars, spawnCo, loopCo, phase, batch, run>>
        BY <2>13 DEF OnWritten
      <3> QED
        BY <3>1, <3>2, <3>3 DEF peerVars
    <2>12. CASE UNCHANGED vars
      BY <2>12 DEF vars, peerVars, coVars, uvVars
    <2> QED
      BY <2>1, <2>2, <2>3, <2>4, <2>5, <2>6, <2>7, <2>8, <2>9, <2>10, <2>11,
         <2>12, <2>13 DEF Next, UvStep, Stopped
  <1> QED
    BY <1>1, <1>2, PTL DEF Spec

-----------------------------------------------------------------------------
(* The inductive invariant.                                                *)

Pending == closing \o run

\* A cleaner waits for the handle to be closed.
Waits(h) ==
  \/ h \in Conn /\ co[h] = "closing"
  \/ h = Process /\ spawnCo = "closing"
  \/ h = Server /\ loopCo = "closing"

\* The handles to close are the ones waited for, each in the list once.
CloseOK ==
  /\ AllDistinct(Pending)
  /\ \A h \in Handles : h \in Members(Pending) <=> Waits(h)

\* What the coroutines know when the callbacks of an iteration run.
BatchOK ==
  /\ phase # "closing" => run = <<>>
  /\ phase # "callbacks" => batch = {}
  /\ \A c \in batch \cap Conn : co[c] = "reading"
  /\ Sigchld \in batch => spawnCo = "waiting" /\ root = "exited"

Ended(c) == co[c] \in {"closing", "done"}

\* A proxy that exits has sent its report, which is not answered and can be
\* read in one poll with the end of file.
PeerOK(c) ==
  /\ sent[c] = Report => ~asks[c] /\ unread[c] \in 0..ReportReads
  /\ peer[c] = "exited" => sent[c] = Report
  /\ Ended(c) => Gone(c) /\ (peer[c] = "exited" => unread[c] = 0)

\* `loop' resumes after spawn, spawn after the reads of its iteration; a
\* connection whose proxy exited before the root is among these or was read.
ReadOK ==
  /\ loopCo = "waiting" <=> spawnCo # "done"
  /\ spawnCo # "waiting" => root = "exited"
  /\ early # {} => root = "exited"
  /\ \A c \in early : peer[c] = "exited" /\ co[c] # "none"
  /\ \A c \in Conn : PeerOK(c)
  /\ Sigchld \in batch => \A c \in early : c \in batch \/ Ended(c)
  /\ spawnCo # "waiting" => \A c \in early : Ended(c)

LoopInv == CloseOK /\ BatchOK /\ ReadOK

\* The handles have different names.
LEMMA Names ==
  /\ \A c \in Conn : c # Process /\ c # Server /\ c # Sigchld /\ c # Listen
  /\ Process # Server /\ Sigchld # Listen /\ Conn \subseteq Handles
  /\ Process \in Handles /\ Server \in Handles
  BY NamesAssumption DEF Process, Server, Sigchld, Listen, Handles

\* A step that leaves the list of handles and the waiting cleaners alone.
LEMMA CloseStays ==
  ASSUME CloseOK, UNCHANGED <<closing, run>>, \A h \in Handles : Waits(h)' <=> Waits(h)
  PROVE  CloseOK'
  <1>1. Pending' = Pending
    BY DEF Pending
  <1> QED
    BY <1>1 DEF CloseOK, Members, AllDistinct

\* A handle is closed and its cleaner begins to wait.
LEMMA CloseStarts ==
  ASSUME TypeOK, CloseOK, NEW h \in Handles, ~Waits(h), Waits(h)', UvClose(h),
         run' = run, \A g \in Handles : g # h => (Waits(g)' <=> Waits(g))
  PROVE  CloseOK'
  <1>1. closing \in Seq(Handles) /\ run \in Seq(Handles)
    BY DEF TypeOK
  <1>2. AllDistinct(closing \o run) /\ h \notin Members(closing \o run)
    BY DEF CloseOK, Pending
  <1>3. AllDistinct(Pending') /\ Members(Pending') = Members(Pending) \cup {h}
    BY <1>1, <1>2, PushFront DEF Pending, UvClose
  <1>4. AllDistinct(Pending)' /\ Members(Pending)' = Members(Pending) \cup {h}
    BY <1>3 DEF AllDistinct, Members
  <1> QED
    BY <1>4 DEF CloseOK

\* The callback of a closed handle runs and its cleaner ends.
LEMMA CloseEnds ==
  ASSUME TypeOK, CloseOK, NEW h \in Handles, run # <<>>, Head(run) = h,
         ~Waits(h)', run' = Tail(run), closing' = closing,
         \A g \in Handles : g # h => (Waits(g)' <=> Waits(g))
  PROVE  CloseOK'
  <1>1. closing \in Seq(Handles) /\ run \in Seq(Handles)
    BY DEF TypeOK
  <1>2. AllDistinct(closing \o run)
    BY DEF CloseOK, Pending
  <1>3. /\ AllDistinct(Pending')
        /\ Members(Pending') = Members(Pending) \ {h}
    BY <1>1, <1>2, DropHead DEF Pending
  <1>4. /\ AllDistinct(Pending)'
        /\ Members(Pending)' = Members(Pending) \ {h}
    BY <1>3 DEF AllDistinct, Members
  <1> QED
    BY <1>4 DEF CloseOK

\* The list at the head of which a handle stands is waited for by its cleaner.
LEMMA HeadWaits ==
  ASSUME TypeOK, CloseOK, run # <<>>
  PROVE  Head(run) \in Handles /\ Waits(Head(run))
  <1>1. closing \in Seq(Handles) /\ run \in Seq(Handles)
    BY DEF TypeOK
  <1>2. Head(run) \in Handles
    BY <1>1
  <1>3. Head(run) \in Members(Pending)
    BY <1>1, DropHead DEF CloseOK, Pending
  <1> QED
    BY <1>2, <1>3 DEF CloseOK

\* A proxy connects, sends, exits or is killed: the coroutines do not move, and
\* what is said of a proxy that has gone stays true.
LEMMA PeerStepKeeps ==
  ASSUME TypeOK, LoopInv, NEW c \in Conn, PeerStep(c)
  PROVE  LoopInv'
  <1>1. UNCHANGED <<root, early, coVars, uvVars>>
    BY DEF PeerStep, PeerConnects, PeerSends, PeerExits, PeerKilled
  <1>2. CloseOK'
    BY <1>1, CloseStays DEF LoopInv, Waits, coVars, uvVars
  <1>3. BatchOK'
    BY <1>1 DEF LoopInv, BatchOK, coVars, uvVars
  <1>4. /\ \A d \in Conn \ {c} : /\ peer'[d] = peer[d] /\ sent'[d] = sent[d]
                               /\ asks'[d] = asks[d] /\ unread'[d] = unread[d]
        /\ ~Gone(c)
        /\ PeerOK(c)'
    <2>0. PeerOK(c) /\ peer[c] \in {"absent", "up", "exited", "killed"}
      BY DEF LoopInv, ReadOK, TypeOK
    <2>1. CASE PeerConnects(c)
      BY <2>0, <2>1, <1>1 DEF PeerConnects, TypeOK, PeerOK, Gone, Ended, coVars
    <2>2. CASE PeerSends(c)
      <3>1. PICK r \in {sent[c] + 1, Report} :
              /\ sent' = [sent EXCEPT ![c] = r]
              /\ asks' = [asks EXCEPT ![c] = r # Report]
              /\ unread' = [unread EXCEPT ![c] = Reads(r)]
        BY <2>2 DEF PeerSends
      <3>2. peer' = peer /\ peer[c] = "up"
        BY <2>2 DEF PeerSends
      <3>3. /\ sent'[c] = r /\ asks'[c] = (r # Report) /\ unread'[c] = Reads(r)
            /\ \A d \in Conn \ {c} : /\ sent'[d] = sent[d] /\ asks'[d] = asks[d]
                                   /\ unread'[d] = unread[d]
        BY <3>1 DEF TypeOK
      <3>4. Reads(Report) \in 0..ReportReads
        BY ReadsAssumption DEF Reads, Report
      <3>5. ~Ended(c)'
        BY <1>1, <2>0, <3>2 DEF PeerOK, Gone, Ended, coVars
      <3>6. PeerOK(c)'
        BY <3>2, <3>3, <3>4, <3>5 DEF PeerOK
      <3> QED
        BY <3>2, <3>3, <3>6 DEF Gone
    <2>3. CASE PeerExits(c)
      BY <2>0, <2>3, <1>1 DEF PeerExits, TypeOK, PeerOK, Gone, Ended, coVars
    <2>4. CASE PeerKilled(c)
      <3>1. /\ peer' = [peer EXCEPT ![c] = "killed"] /\ peer[c] = "up"
            /\ UNCHANGED sent
        BY <2>4 DEF PeerKilled
      <3>2. /\ unread'[c] \in 0..unread[c] /\ (~asks[c] => ~asks'[c])
            /\ \A d \in Conn \ {c} : asks'[d] = asks[d] /\ unread'[d] = unread[d]
        <4>1. CASE UNCHANGED <<asks, unread>>
          BY <4>1 DEF TypeOK
        <4>2. CASE ~UNCHANGED <<asks, unread>>
          BY <2>4, <4>2 DEF PeerKilled, TypeOK
        <4> QED
          BY <4>1, <4>2
      <3>3. unread[c] \in Nat /\ peer'[c] = "killed"
        BY <3>1 DEF TypeOK
      <3>4. PeerOK(c)'
        BY <2>0, <3>1, <3>2, <3>3, <1>1, ReadsAssumption DEF PeerOK, Gone, Ended, coVars
      <3> QED
        BY <3>1, <3>2, <3>4 DEF Gone, TypeOK
    <2> QED
      BY <2>1, <2>2, <2>3, <2>4 DEF PeerStep
  <1>5. \A d \in Conn : PeerOK(d)'
    <2>1. \A d \in Conn \ {c} : PeerOK(d) => PeerOK(d)'
      BY <1>1, <1>4 DEF PeerOK, Gone, Ended, coVars
    <2> QED
      BY <1>4, <2>1 DEF LoopInv, ReadOK
  <1>6. \A d \in early : peer'[d] = "exited"
    BY <1>4 DEF LoopInv, ReadOK, Gone, TypeOK
  <1>7. ReadOK'
    BY <1>1, <1>5, <1>6 DEF LoopInv, ReadOK, Ended, coVars, uvVars
  <1> QED
    BY <1>2, <1>3, <1>7 DEF LoopInv

\* The root proxy exits: nothing of `spawn' has happened, so that all the ends
\* it leaves behind are still to be read or were read.
LEMMA RootExitsKeeps ==
  ASSUME TypeOK, LoopInv, RootExits
  PROVE  LoopInv'
  <1>1. /\ UNCHANGED <<peer, sent, asks, unread, coVars, uvVars>>
        /\ root = "running" /\ root' = "exited"
    BY DEF RootExits
  <1>2. CloseOK'
    BY <1>1, CloseStays DEF LoopInv, Waits, coVars, uvVars
  <1>3. BatchOK'
    BY <1>1 DEF LoopInv, BatchOK, coVars, uvVars
  <1>4. spawnCo = "waiting" /\ Sigchld \notin batch
    BY <1>1 DEF LoopInv, ReadOK, BatchOK
  <1>5. early' = {c \in Conn : peer[c] = "exited" /\ co[c] # "none"}
    BY DEF RootExits
  <1>6. \A d \in Conn : PeerOK(d)'
    BY <1>1 DEF LoopInv, ReadOK, PeerOK, Gone, Ended, coVars
  <1>7. ReadOK'
    BY <1>1, <1>4, <1>5, <1>6 DEF LoopInv, ReadOK, Ended, coVars, uvVars
  <1> QED
    BY <1>2, <1>3, <1>7 DEF LoopInv

\* The poll takes every pipe with an end to read along with the signal: the
\* answer that such a proxy waited for is written.
LEMMA PollKeeps ==
  ASSUME TypeOK, LoopInv, Poll
  PROVE  LoopInv'
  <1>1. /\ UNCHANGED <<peer, sent, asks, unread, root, early, co, spawnCo, loopCo,
                       closing, run>>
        /\ phase = "idle" /\ phase' = "callbacks" /\ batch' = Ready
        /\ \A c \in Conn : co[c] = "writing" => Stuck(c)
    BY DEF Poll, peerVars, coVars
  <1>2. CloseOK'
    BY <1>1, CloseStays DEF LoopInv, Waits
  <1>3. \A c \in Conn : c \in Ready <=> Readable(c)
    BY Names DEF Ready
  <1>4. Sigchld \in Ready => root = "exited" /\ spawnCo = "waiting"
    BY Names DEF Ready
  <1>5. BatchOK'
    BY <1>1, <1>3, <1>4 DEF LoopInv, BatchOK, Readable
  <1>6. ASSUME NEW c \in early
        PROVE  c \in Ready \/ Ended(c)
    <2>1. c \in Conn /\ peer[c] = "exited" /\ co[c] # "none"
      BY <1>6 DEF LoopInv, ReadOK, TypeOK
    <2>2. co[c] \in {"reading", "closing", "done"}
      BY <1>1, <2>1 DEF TypeOK, Stuck
    <2> QED
      BY <2>1, <2>2, <1>3 DEF Readable, Gone, Ended
  <1>7. \A d \in Conn : PeerOK(d)'
    BY <1>1 DEF LoopInv, ReadOK, PeerOK, Gone, Ended
  <1>8. ReadOK'
    BY <1>1, <1>6, <1>7 DEF LoopInv, ReadOK, Ended
  <1> QED
    BY <1>2, <1>5, <1>8 DEF LoopInv

\* accept runs to its first read; nothing waits for a close of its pipe.
LEMMA OnListenKeeps ==
  ASSUME TypeOK, LoopInv, NEW c \in Conn, OnListen(c)
  PROVE  LoopInv'
  <1>1. /\ UNCHANGED <<peer, sent, asks, unread, root, early, spawnCo, loopCo, phase,
                       closing, run>>
        /\ batch' = batch \ {Listen} /\ co[c] = "none" /\ phase = "callbacks"
        /\ co' = [co EXCEPT ![c] = "reading"]
    BY DEF OnListen, peerVars, InBacklog
  <1>2. \A d \in Conn : co'[d] = IF d = c THEN "reading" ELSE co[d]
    BY <1>1 DEF TypeOK
  <1>3. \A h \in Handles : Waits(h)' <=> Waits(h)
    BY <1>1, <1>2 DEF Waits
  <1>4. CloseOK'
    BY <1>1, <1>3, CloseStays DEF LoopInv
  <1>5. Sigchld \in batch' <=> Sigchld \in batch
    BY <1>1, Names
  <1>6. BatchOK'
    BY <1>1, <1>2, <1>5 DEF LoopInv, BatchOK
  <1>7. \A d \in early : d \in Conn /\ (d \in batch => d \in batch')
    BY <1>1, Names DEF TypeOK
  <1>8. \A d \in Conn : Ended(d)' <=> Ended(d)
    BY <1>1, <1>2 DEF Ended
  <1>9. \A d \in Conn : PeerOK(d)'
    BY <1>1, <1>8 DEF LoopInv, ReadOK, PeerOK, Gone
  <1>10. \A d \in early : co'[d] # "none"
    BY <1>2, <1>7 DEF LoopInv, ReadOK
  <1>11. ReadOK'
    BY <1>1, <1>5, <1>7, <1>8, <1>9, <1>10 DEF LoopInv, ReadOK
  <1> QED
    BY <1>4, <1>6, <1>11 DEF LoopInv

\* What a read leaves of a connection whose coroutine moved on to s, when its
\* cleaner does not start, or does.
LEMMA CoMovesCloses ==
  ASSUME TypeOK, CloseOK, NEW c \in Conn, NEW s \in {"reading", "writing", "closing"},
         co[c] # "closing",
         s # "closing" => closing' = closing,
         s = "closing" => UvClose(c),
         \A d \in Conn : co'[d] = IF d = c THEN s ELSE co[d],
         spawnCo' = spawnCo, loopCo' = loopCo, run' = run
  PROVE  CloseOK'
  <1>1. \A d \in Conn : co'[d] = IF d = c THEN s ELSE co[d]
    OBVIOUS
  <1>2. CASE s # "closing"
    <2>1. \A h \in Handles : Waits(h)' <=> Waits(h)
      BY <1>1, <1>2 DEF Waits
    <2> QED
      BY <1>2, <2>1, CloseStays
  <1>3. CASE s = "closing"
    <2>1. ~Waits(c) /\ Waits(c)' /\ c \in Handles
      BY <1>1, <1>3, Names DEF Waits
    <2>2. \A g \in Handles : g # c => (Waits(g)' <=> Waits(g))
      BY <1>1 DEF Waits
    <2> QED
      BY <1>3, <2>1, <2>2, CloseStarts
  <1> QED
    BY <1>2, <1>3

\* A read that meets the end of file starts the close of the pipe, and that of
\* a proxy that has exited does meet it.
LEMMA OnReadKeeps ==
  ASSUME TypeOK, LoopInv, NEW c \in Conn, OnRead(c)
  PROVE  LoopInv'
  <1>1. /\ UNCHANGED <<peer, sent, root, early, spawnCo, loopCo, phase, run>>
        /\ batch' = batch \ {c} /\ phase = "callbacks" /\ c \in batch
    BY DEF OnRead
  <1>2. co[c] = "reading"
    BY <1>1 DEF LoopInv, BatchOK
  <1>3. PICK s \in {"reading", "writing", "closing"} :
          /\ co' = [co EXCEPT ![c] = s]
          /\ (s # "closing" /\ UNCHANGED closing) \/ (s = "closing" /\ UvClose(c))
          /\ s = "closing" => Gone(c) /\ unread'[c] = 0
    <2>1. co = [co EXCEPT ![c] = "reading"]
      BY <1>2 DEF TypeOK
    <2>2. CASE unread' = [unread EXCEPT ![c] = 0]
      <3>1. unread'[c] = 0
        BY <2>2 DEF TypeOK
      <3> QED
        BY <2>1, <3>1 DEF OnRead
    <2>3. CASE unread' # [unread EXCEPT ![c] = 0]
      BY <2>1, <2>3 DEF OnRead
    <2> QED
      BY <2>2, <2>3
  <1>4. \A d \in Conn : co'[d] = IF d = c THEN s ELSE co[d]
    BY <1>3 DEF TypeOK
  <1>5. /\ \A d \in Conn \ {c} : asks'[d] = asks[d] /\ unread'[d] = unread[d]
        /\ unread'[c] = 0 \/ unread[c] > PerPoll
        /\ ~asks[c] => ~asks'[c]
    BY OnReadReads DEF TypeOK
  <1>6. Sigchld \in batch' <=> Sigchld \in batch
    BY <1>1, Names
  <1>7. CloseOK'
    <2>1. (s # "closing" => closing' = closing) /\ (s = "closing" => UvClose(c))
      BY <1>3
    <2>2. co[c] # "closing" /\ CloseOK
      BY <1>2 DEF LoopInv
    <2> QED
      BY <1>1, <1>4, <2>1, <2>2, CoMovesCloses
  <1>8. BatchOK'
    BY <1>1, <1>4, <1>6 DEF LoopInv, BatchOK
  <1>9. PeerOK(c) /\ unread[c] \in Nat /\ ~Ended(c)
    BY <1>2 DEF LoopInv, ReadOK, TypeOK, Ended
  <1>10. PeerOK(c)'
    BY <1>1, <1>3, <1>4, <1>5, <1>9, ReadsAssumption DEF PeerOK, Gone, Ended
  <1>11. \A d \in Conn \ {c} : PeerOK(d)' /\ (Ended(d)' <=> Ended(d))
    BY <1>1, <1>4, <1>5 DEF LoopInv, ReadOK, PeerOK, Gone, Ended
  <1>12. c \in early => Ended(c)'
    <2> SUFFICES ASSUME c \in early
                 PROVE  Ended(c)'
      OBVIOUS
    <2>1. peer[c] = "exited"
      BY DEF LoopInv, ReadOK
    <2>2. ~asks[c] /\ unread[c] < PerPoll
      BY <1>9, <2>1, ReadsAssumption DEF PeerOK
    <2>3. co' = [co EXCEPT ![c] = "closing"]
      BY <1>9, <2>1, <2>2, ReadsAssumption DEF OnRead, Gone
    <2> QED
      BY <2>3 DEF Ended, TypeOK
  <1>13. \A d \in early : d \in Conn /\ co'[d] # "none" /\ (d \in batch => d = c \/ d \in batch')
    BY <1>1, <1>4 DEF TypeOK, LoopInv, ReadOK
  <1>14. ReadOK'
    BY <1>1, <1>6, <1>9, <1>10, <1>11, <1>12, <1>13 DEF LoopInv, ReadOK
  <1> QED
    BY <1>7, <1>8, <1>14 DEF LoopInv

\* The callback of a write comes when nothing is polled; it fails for a proxy
\* that was killed, never for one that exited.
LEMMA OnWrittenKeeps ==
  ASSUME TypeOK, LoopInv, NEW c \in Conn, OnWritten(c)
  PROVE  LoopInv'
  <1>1. /\ UNCHANGED <<peer, sent, asks, unread, root, early, spawnCo, loopCo, phase,
                       batch, run>>
        /\ phase = "idle" /\ co[c] = "writing"
    BY DEF OnWritten, peerVars
  <1>2. PICK s \in {"reading", "closing"} :
          /\ co' = [co EXCEPT ![c] = s]
          /\ (s # "closing" /\ UNCHANGED closing) \/ (s = "closing" /\ UvClose(c))
          /\ s = "closing" => peer[c] = "killed"
    BY DEF OnWritten
  <1>3. \A d \in Conn : co'[d] = IF d = c THEN s ELSE co[d]
    BY <1>2 DEF TypeOK
  <1>4. CloseOK'
    <2>1. (s # "closing" => closing' = closing) /\ (s = "closing" => UvClose(c))
      BY <1>2
    <2>2. co[c] # "closing" /\ CloseOK
      BY <1>1 DEF LoopInv
    <2> QED
      BY <1>1, <1>3, <2>1, <2>2, CoMovesCloses
  <1>5. batch = {}
    BY <1>1 DEF LoopInv, BatchOK
  <1>6. BatchOK'
    BY <1>1, <1>5 DEF LoopInv, BatchOK
  <1>7. \A d \in Conn : PeerOK(d)' /\ (Ended(d) => Ended(d)')
    BY <1>1, <1>2, <1>3 DEF LoopInv, ReadOK, PeerOK, Gone, Ended
  <1>8. \A d \in early : d \in Conn /\ co'[d] # "none"
    BY <1>2, <1>3 DEF TypeOK, LoopInv, ReadOK
  <1>9. ReadOK'
    BY <1>1, <1>5, <1>7, <1>8 DEF LoopInv, ReadOK
  <1> QED
    BY <1>4, <1>6, <1>9 DEF LoopInv

\* The signal comes last: every pipe polled with it was read, and spawn starts
\* to close the process handle.
LEMMA OnSignalKeeps ==
  ASSUME TypeOK, LoopInv, OnSignal
  PROVE  LoopInv'
  <1>1. /\ UNCHANGED <<peer, sent, asks, unread, root, early, co, loopCo, phase, run>>
        /\ batch = {Sigchld} /\ batch' = {} /\ phase = "callbacks"
        /\ spawnCo' = "closing" /\ UvClose(Process)
    BY DEF OnSignal, peerVars
  <1>2. spawnCo = "waiting" /\ root = "exited"
    BY <1>1 DEF LoopInv, BatchOK
  <1>3. ~Waits(Process) /\ Waits(Process)'
    BY <1>1, <1>2, Names DEF Waits
  <1>4. \A g \in Handles : g # Process => (Waits(g)' <=> Waits(g))
    BY <1>1 DEF Waits
  <1>5. CloseOK'
    BY <1>1, <1>3, <1>4, Names, CloseStarts DEF LoopInv
  <1>6. BatchOK'
    BY <1>1 DEF LoopInv, BatchOK
  <1>7. \A d \in early : d \in Conn /\ d \notin batch
    BY <1>1, Names DEF TypeOK
  <1>8. \A d \in early : Ended(d)
    BY <1>1, <1>7 DEF LoopInv, ReadOK
  <1>9. ReadOK'
    BY <1>1, <1>2, <1>8 DEF LoopInv, ReadOK, Ended, PeerOK, Gone
  <1> QED
    BY <1>5, <1>6, <1>9 DEF LoopInv

\* The handles closed in this iteration are the ones whose callbacks run.
LEMMA StartClosingKeeps ==
  ASSUME TypeOK, LoopInv, StartClosing
  PROVE  LoopInv'
  <1>1. /\ UNCHANGED <<peer, sent, asks, unread, root, early, co, spawnCo, loopCo, batch>>
        /\ phase = "callbacks" /\ phase' = "closing"
        /\ run' = closing /\ closing' = <<>> /\ batch = {}
    BY DEF StartClosing, peerVars, coVars
  <1>2. run = <<>> /\ closing \in Seq(Handles)
    BY <1>1 DEF LoopInv, BatchOK, TypeOK
  <1>3. closing' \o run' = closing \o run
    BY <1>1, <1>2
  <1>4. CloseOK'
    BY <1>1, <1>3 DEF LoopInv, CloseOK, Pending, Members, AllDistinct, Waits
  <1>5. BatchOK'
    BY <1>1 DEF LoopInv, BatchOK
  <1>6. ReadOK'
    BY <1>1 DEF LoopInv, ReadOK, Ended, PeerOK, Gone
  <1> QED
    BY <1>4, <1>5, <1>6 DEF LoopInv

\* close_cb of a connection's pipe ends its accept coroutine.
LEMMA OnClosedKeeps ==
  ASSUME TypeOK, LoopInv, NEW c \in Conn, OnClosed(c)
  PROVE  LoopInv'
  <1>1. /\ UNCHANGED <<peer, sent, asks, unread, root, early, spawnCo, loopCo, phase,
                       batch, closing>>
        /\ run # <<>> /\ Head(run) = c /\ run' = Tail(run) /\ phase = "closing"
        /\ co' = [co EXCEPT ![c] = "done"]
    BY DEF OnClosed, peerVars
  <1>2. Waits(c)
    BY <1>1, HeadWaits DEF LoopInv
  <1>3. co[c] = "closing"
    BY <1>2, Names DEF Waits
  <1>4. \A d \in Conn : co'[d] = IF d = c THEN "done" ELSE co[d]
    BY <1>1 DEF TypeOK
  <1>5. c \in Handles /\ ~Waits(c)'
    BY <1>4, Names DEF Waits
  <1>6. \A g \in Handles : g # c => (Waits(g)' <=> Waits(g))
    BY <1>1, <1>4 DEF Waits
  <1>7. CloseOK'
    BY <1>1, <1>5, <1>6, CloseEnds DEF LoopInv
  <1>8. BatchOK'
    BY <1>1, <1>3, <1>4 DEF LoopInv, BatchOK
  <1>9. \A d \in Conn : Ended(d)' <=> Ended(d)
    BY <1>3, <1>4 DEF Ended
  <1>10. \A d \in Conn : PeerOK(d)'
    BY <1>1, <1>9 DEF LoopInv, ReadOK, PeerOK, Gone
  <1>11. \A d \in early : d \in Conn /\ co'[d] # "none"
    BY <1>4 DEF TypeOK, LoopInv, ReadOK
  <1>12. ReadOK'
    BY <1>1, <1>9, <1>10, <1>11 DEF LoopInv, ReadOK
  <1> QED
    BY <1>7, <1>8, <1>12 DEF LoopInv

\* close_cb of the process handle resumes `loop', which closes the listening
\* pipe or breaks; it was waiting until now.
LEMMA OnProcessClosedKeeps ==
  ASSUME TypeOK, LoopInv, OnProcessClosed
  PROVE  LoopInv'
  <1>1. /\ UNCHANGED <<peer, sent, asks, unread, root, early, co, phase, batch>>
        /\ run # <<>> /\ Head(run) = Process /\ run' = Tail(run)
        /\ phase = "closing" /\ spawnCo' = "done"
        /\ \/ loopCo' = "closing" /\ UvClose(Server)
           \/ loopCo' = "broken" /\ UNCHANGED closing
    BY DEF OnProcessClosed, peerVars
  <1>2. Waits(Process)
    BY <1>1, HeadWaits DEF LoopInv
  <1>3. spawnCo = "closing" /\ loopCo = "waiting"
    BY <1>2, Names DEF Waits, LoopInv, ReadOK
  <1>4. closing \in Seq(Handles) /\ run \in Seq(Handles) /\ Tail(run) \in Seq(Handles)
    BY <1>1, Names, ListOfHandles DEF TypeOK
  <1>5. /\ AllDistinct(closing \o Tail(run))
        /\ Members(closing \o Tail(run)) = Members(Pending) \ {Process}
    BY <1>1, <1>4, DropHead DEF LoopInv, CloseOK, Pending
  <1>6. \A g \in Handles : g # Process /\ g # Server => (Waits(g)' <=> Waits(g))
    BY <1>1 DEF Waits
  <1>7. ~Waits(Process)' /\ ~Waits(Server)
    BY <1>1, <1>3, Names DEF Waits
  <1>8. ASSUME loopCo' = "closing", UvClose(Server)
        PROVE  CloseOK'
    <2>1. Server \notin Members(closing \o Tail(run))
      BY <1>5, <1>7, Names DEF LoopInv, CloseOK
    <2>2. /\ AllDistinct((<<Server>> \o closing) \o Tail(run))
          /\ Members((<<Server>> \o closing) \o Tail(run))
               = (Members(Pending) \ {Process}) \cup {Server}
      <3>1. Server \in Handles
        BY Names
      <3> HIDE DEF Server
      <3>2. /\ AllDistinct((<<Server>> \o closing) \o Tail(run))
            /\ Members((<<Server>> \o closing) \o Tail(run))
                 = Members(closing \o Tail(run)) \cup {Server}
        BY <3>1, <1>4, <1>5, <2>1, PushFront
      <3> QED
        BY <3>2, <1>5
    <2>3. Pending' = (<<Server>> \o closing) \o Tail(run)
      BY <1>1, <1>8 DEF Pending, UvClose
    <2>4. /\ AllDistinct(Pending)'
          /\ Members(Pending)' = (Members(Pending) \ {Process}) \cup {Server}
      BY <2>2, <2>3 DEF AllDistinct, Members
    <2>5. Waits(Server)'
      BY <1>8 DEF Waits
    <2> QED
      BY <1>6, <1>7, <2>4, <2>5, Names DEF CloseOK, LoopInv
  <1>9. ASSUME loopCo' = "broken", UNCHANGED closing
        PROVE  CloseOK'
    <2>1. ~Waits(Server)'
      BY <1>9, Names DEF Waits
    <2>2. Pending' = closing \o Tail(run)
      BY <1>1, <1>9 DEF Pending
    <2>3. /\ AllDistinct(Pending)'
          /\ Members(Pending)' = Members(Pending) \ {Process}
      BY <1>5, <2>2 DEF AllDistinct, Members
    <2> QED
      BY <1>6, <1>7, <2>1, <2>3, Names DEF CloseOK, LoopInv
  <1>10. BatchOK'
    BY <1>1, <1>3 DEF LoopInv, BatchOK, ReadOK
  <1>11. ReadOK'
    BY <1>1, <1>3 DEF LoopInv, ReadOK, BatchOK, Ended, PeerOK, Gone
  <1> QED
    BY <1>1, <1>8, <1>9, <1>10, <1>11 DEF LoopInv

\* close_cb of the listening pipe ends `loop'.
LEMMA OnServerClosedKeeps ==
  ASSUME TypeOK, LoopInv, OnServerClosed
  PROVE  LoopInv'
  <1>1. /\ UNCHANGED <<peer, sent, asks, unread, root, early, co, spawnCo, phase,
                       batch, closing>>
        /\ run # <<>> /\ Head(run) = Server /\ run' = Tail(run)
        /\ phase = "closing" /\ loopCo' = "done"
    BY DEF OnServerClosed, peerVars
  <1>2. Waits(Server)
    BY <1>1, HeadWaits DEF LoopInv
  <1>3. loopCo = "closing"
    BY <1>2, Names DEF Waits
  <1>4. Server \in Handles /\ ~Waits(Server)'
    BY <1>1, Names DEF Waits
  <1>5. \A g \in Handles : g # Server => (Waits(g)' <=> Waits(g))
    BY <1>1 DEF Waits
  <1>6. CloseOK'
    BY <1>1, <1>4, <1>5, CloseEnds DEF LoopInv
  <1>7. BatchOK'
    BY <1>1 DEF LoopInv, BatchOK
  <1>8. ReadOK'
    BY <1>1, <1>3 DEF LoopInv, ReadOK, Ended, PeerOK, Gone
  <1> QED
    BY <1>6, <1>7, <1>8 DEF LoopInv

\* The iteration ends when the last callback has run, and a state repeats.
LEMMA EndIterationKeeps ==
  ASSUME TypeOK, LoopInv, EndIteration \/ UNCHANGED vars
  PROVE  LoopInv'
  <1>1. /\ UNCHANGED <<peer, sent, asks, unread, root, early, co, spawnCo, loopCo,
                       batch, closing, run>>
        /\ (phase = "closing" /\ run = <<>> /\ phase' = "idle") \/ phase' = phase
    BY DEF EndIteration, vars, peerVars, coVars, uvVars
  <1>2. CloseOK'
    BY <1>1, CloseStays DEF LoopInv, Waits
  <1>3. BatchOK'
    BY <1>1 DEF LoopInv, BatchOK
  <1>4. ReadOK'
    BY <1>1 DEF LoopInv, ReadOK, Ended, PeerOK, Gone
  <1> QED
    BY <1>2, <1>3, <1>4 DEF LoopInv

\* The inductive invariant of the loop.
THEOREM LoopAgrees == Spec => []LoopInv
  <1>1. Init => LoopInv
    <2> SUFFICES ASSUME Init
                 PROVE  LoopInv
      OBVIOUS
    <2>1. Pending = <<>>
      BY DEF Init, Pending
    <2>2. \A h : ~Waits(h)
      BY DEF Init, Waits
    <2>3. Members(<<>>) = {} /\ AllDistinct(<<>>)
      BY DEF Members, AllDistinct
    <2>4. CloseOK
      BY <2>1, <2>2, <2>3 DEF CloseOK
    <2>5. BatchOK
      BY DEF Init, BatchOK
    <2>6. ReadOK
      BY DEF Init, ReadOK, Ended, PeerOK, Gone, Report
    <2> QED
      BY <2>4, <2>5, <2>6 DEF LoopInv
  <1>2. TypeOK /\ LoopInv /\ [Next]_vars => LoopInv'
    <2> SUFFICES ASSUME TypeOK, LoopInv, [Next]_vars
                 PROVE  LoopInv'
      OBVIOUS
    <2>1. ASSUME NEW c \in Conn, PeerStep(c)
          PROVE  LoopInv'
      BY <2>1, PeerStepKeeps
    <2>2. CASE RootExits
      BY <2>2, RootExitsKeeps
    <2>3. CASE Poll
      BY <2>3, PollKeeps
    <2>4. CASE OnSignal
      BY <2>4, OnSignalKeeps
    <2>5. CASE StartClosing
      BY <2>5, StartClosingKeeps
    <2>6. CASE OnProcessClosed
      BY <2>6, OnProcessClosedKeeps
    <2>7. CASE OnServerClosed
      BY <2>7, OnServerClosedKeeps
    <2>8. CASE EndIteration \/ UNCHANGED vars
      BY <2>8, EndIterationKeeps
    <2>9. ASSUME NEW c \in Conn,
                 OnListen(c) \/ OnRead(c) \/ OnWritten(c) \/ OnClosed(c)
          PROVE  LoopInv'
      BY <2>9, OnListenKeeps, OnReadKeeps, OnWrittenKeeps, OnClosedKeeps
    <2> QED
      BY <2>1, <2>2, <2>3, <2>4, <2>5, <2>6, <2>7, <2>8, <2>9
         DEF Next, UvStep, Stopped
  <1> QED
    BY <1>1, <1>2, TypeCorrect, PTL DEF Spec

-----------------------------------------------------------------------------
(* What the loop promises.                                                 *)

\* Every handle is closed by one cleaner, once, and the coroutine that owns
\* it lives until libuv has let go of it: HandlesCloseOnce.
THEOREM ClosedOnce == Spec => []HandlesCloseOnce
  <1>1. TypeOK /\ LoopInv => HandlesCloseOnce
    <2> SUFFICES ASSUME TypeOK, LoopInv
                 PROVE  HandlesCloseOnce
      OBVIOUS
    <2>1. Pending \in Seq(Handles)
      BY DEF TypeOK, Pending
    <2>2. \A h \in Handles :
            Cardinality(Occurrences(h, Pending)) = (IF Waits(h) THEN 1 ELSE 0)
      BY <2>1, OccursOnce DEF LoopInv, CloseOK
    <2>3. \A c \in Conn : c \in Handles /\ (Waits(c) <=> co[c] = "closing")
      BY Names DEF Waits
    <2>4. Waits(Process) <=> spawnCo = "closing"
      BY Names DEF Waits
    <2>5. Waits(Server) <=> loopCo = "closing"
      BY Names DEF Waits
    <2> QED
      BY <2>2, <2>3, <2>4, <2>5, Names DEF HandlesCloseOnce, Pending
  <1> QED
    BY <1>1, TypeCorrect, LoopAgrees, PTL

\* An accepted connection whose proxy exited before the root has been read to
\* its end when `loop' resumes, however many reads the others still take:
\* ServedAreRead.
THEOREM NoneForgotten == Spec => []ServedAreRead
  <1>1. TypeOK /\ LoopInv => ServedAreRead
    <2> SUFFICES ASSUME TypeOK, LoopInv, loopCo # "waiting", NEW c \in early
                 PROVE  co[c] \in {"closing", "done"} /\ unread[c] = 0
      BY DEF ServedAreRead
    <2>1. spawnCo = "done" /\ c \in Conn /\ peer[c] = "exited"
      BY DEF TypeOK, LoopInv, ReadOK
    <2>2. Ended(c) /\ PeerOK(c)
      BY <2>1 DEF LoopInv, ReadOK
    <2> QED
      BY <2>1, <2>2 DEF PeerOK, Ended
  <1> QED
    BY <1>1, TypeCorrect, LoopAgrees, PTL
=============================================================================
