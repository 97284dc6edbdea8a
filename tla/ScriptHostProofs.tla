-------------------------- MODULE ScriptHostProofs --------------------------
(***************************************************************************)
(* Proofs about ScriptHost, for any files, any number of streams, scripts  *)
(* and awaits, in any order, and chunks of any size.  The streams first:   *)
(* no stream reaches another's file, append's data are at the end of the   *)
(* file, and what the reading methods return is what the file holds.  Then *)
(* the runtime: what run_js_file says of a script is that script's own     *)
(* outcome, and `with' leaves nothing open.                                *)
(***************************************************************************)
EXTENDS ScriptHost, SequenceLemmas

-----------------------------------------------------------------------------
(* The streams' invariant: what the table, the objects, the frames of      *)
(* `with' and the call in progress are to each other.                      *)

Stream == [fd : 1..MaxOpens, path : Paths, by : {"new", "with"}]
FileEntry == [path : Paths, pos : Nat, fail : BOOLEAN]
Fits(entry) ==
  /\ entry \in FileEntry
  /\ entry.path \in DOMAIN files
  /\ entry.pos <= MaxSize[entry.path]

FilesOK ==
  /\ DOMAIN files \subseteq Paths
  /\ \A path \in DOMAIN files : files[path] \in Seq(Chars) /\ Len(files[path]) <= MaxSize[path]

TableOK ==
  /\ file_id_cnt \in 1..(MaxOpens + 1)
  /\ \A id \in DOMAIN open_files : id \in 1..(file_id_cnt - 1) /\ Fits(open_files[id])

StreamsOK ==
  /\ streams \in Seq(Stream)
  /\ \A s \in 1..Len(streams) : streams[s].fd < file_id_cnt
  /\ \A s, t \in 1..Len(streams) : streams[s].fd = streams[t].fd => s = t
  /\ \A s \in 1..Len(streams) : Open(s) => Entry(s).path = streams[s].path

FramesOK ==
  /\ frames \in Seq(Nat)
  /\ \A i \in 1..Len(frames) : frames[i] \in 1..Len(streams)
  /\ \A s \in 1..Len(streams) :
       streams[s].by = "with" /\ Open(s) => \E i \in 1..Len(frames) : frames[i] = s

Reading == [call : {"line", "lines"}, of : Nat, from : Nat, failed : BOOLEAN, last : Int,
            text : Seq(Chars), lines : Seq(Seq(Chars)), more : BOOLEAN]
TaskOn ==
  task # Idle => task \in Reading /\ task.of \in 1..Len(streams) /\ Open(task.of)

StreamsInv == FilesOK /\ TableOK /\ StreamsOK /\ FramesOK /\ TaskOn

\* The first newline of a chunk, or none.
LEMMA DelimiterIs ==
  ASSUME NEW seq \in Seq(Chars)
  PROVE  /\ Delimiter(seq) \in 0..Len(seq)
         /\ Delimiter(seq) > 0 => seq[Delimiter(seq)] = NewLine /\ \A i \in 1..(Delimiter(seq) - 1) : seq[i] # NewLine
         /\ Delimiter(seq) = 0 => \A i \in 1..Len(seq) : seq[i] # NewLine
<1> DEFINE I == {i \in 1..Len(seq) : seq[i] = NewLine}
<1>1. Delimiter(seq) = IF I # {} THEN Min(I) ELSE 0
  BY DEF SelectInSeq, Delimiter
<1>2. ASSUME I # {}
      PROVE  Min(I) \in I /\ \A i \in I : Min(I) <= i
  <2>1. I \in SUBSET Nat
    OBVIOUS
  <2>2. \E x \in I : \A y \in I : x <= y
    BY <1>2, <2>1, NatMin
  <2> QED
    BY <2>2 DEF Min
<1>3. CASE I = {}
  BY <1>1, <1>3
<1>4. CASE I # {}
  <2> DEFINE m == Min(I)
  <2>1. m \in I /\ (\A i \in I : m <= i) /\ Delimiter(seq) = m
    BY <1>1, <1>2, <1>4
  <2> HIDE DEF m
  <2> QED
    BY <2>1
<1> QED
  BY <1>3, <1>4

\* A number below the bound reaches the script as it is; none grows on the way.
LEMMA JsIntCut ==
  ASSUME NEW n \in Nat
  PROVE  /\ JsInt(n) \in Int /\ JsInt(n) <= n
         /\ n < MaxInt => JsInt(n) = n
         /\ JsInt(n) < MaxInt
<1>1. MaxInt \in Nat /\ MaxInt > 0
  BY ChunkAssumption
<1> DEFINE m == 2 * MaxInt
           a == n + MaxInt
<1>2. m \in Nat /\ m > 0 /\ a \in Nat
  BY <1>1
<1>4. JsInt(n) = (a % m) - MaxInt
  BY DEF JsInt
<1>h HIDE DEF m, a
<1>3. /\ a % m \in 0..(m - 1) /\ a % m <= a
      /\ a < m => a % m = a
  BY <1>2
<1> QED
  BY <1>1, <1>2, <1>3, <1>4 DEF m, a

\* An entry is what its fields are.
LEMMA Fields ==
  ASSUME NEW st \in FileEntry
  PROVE  /\ st = [path |-> st.path, pos |-> st.pos, fail |-> st.fail]
         /\ st.path \in Paths /\ st.pos \in Nat /\ st.fail \in BOOLEAN
  BY DEF FileEntry

\* An entry with another position.
LEMMA Moved ==
  ASSUME NEW st \in FileEntry, NEW to \in Nat, NEW fail \in BOOLEAN
  PROVE  [st EXCEPT !.pos = to, !.fail = fail] = [path |-> st.path, pos |-> to, fail |-> fail]
<1> DEFINE x == [st EXCEPT !.pos = to, !.fail = fail]
<1>1. x \in FileEntry /\ x.pos = to /\ x.fail = fail /\ x.path = st.path
  BY DEF FileEntry
<1> HIDE DEF x
<1> QED
  BY <1>1, Fields

\* An entry with another failbit.
LEMMA Failed ==
  ASSUME NEW st \in FileEntry, NEW fail \in BOOLEAN
  PROVE  [st EXCEPT !.fail = fail] = [path |-> st.path, pos |-> st.pos, fail |-> fail]
  BY DEF FileEntry

\* What a seek to `to' makes of an entry.
SeekTo(st, to) ==
  IF to < 0 THEN [st EXCEPT !.fail = TRUE] ELSE [st EXCEPT !.pos = to, !.fail = FALSE]

\* Where a seek to `to' leaves an entry.
LEMMA SeekToIs ==
  ASSUME NEW st \in FileEntry, NEW to \in Int
  PROVE  /\ SeekTo(st, to) \in FileEntry /\ SeekTo(st, to).path = st.path
         /\ to < 0 => SeekTo(st, to).pos = st.pos /\ SeekTo(st, to).fail
         /\ to >= 0 => SeekTo(st, to).pos = to /\ ~SeekTo(st, to).fail
<1>1. CASE to < 0
  <2> DEFINE e == [st EXCEPT !.fail = TRUE]
  <2>1. e \in FileEntry
    BY DEF FileEntry
  <2>2. e.path = st.path /\ e.pos = st.pos
    BY DEF FileEntry
  <2>3. e.fail
    BY DEF FileEntry
  <2>4. SeekTo(st, to) = e
    BY <1>1 DEF SeekTo
  <2> HIDE DEF e
  <2> QED
    BY <1>1, <2>1, <2>2, <2>3, <2>4
<1>2. CASE to >= 0
  <2> DEFINE e == [st EXCEPT !.pos = to, !.fail = FALSE]
  <2>1. to \in Nat
    BY <1>2
  <2>2. e \in FileEntry
    BY <2>1 DEF FileEntry
  <2>3. e.path = st.path /\ e.pos = to
    BY DEF FileEntry
  <2>4. ~e.fail
    BY DEF FileEntry
  <2>5. SeekTo(st, to) = e
    BY <1>2 DEF SeekTo
  <2> HIDE DEF e
  <2> QED
    BY <1>2, <2>2, <2>3, <2>4, <2>5
<1> QED
  BY <1>1, <1>2

\* Every seek is one to a position.
LEMMA SeekIs ==
  ASSUME NEW st, NEW offset \in Int
  PROVE  /\ Seek(st, offset, "set") = SeekTo(st, offset)
         /\ Seek(st, offset, "cur") = SeekTo(st, offset + st.pos)
         /\ Seek(st, offset, "end") = SeekTo(st, offset + Len(files[st.path]))
<1>1. Seek(st, offset, "set") = SeekTo(st, offset + 0)
  BY Zenon DEF Seek, SeekTo
<1>2. Seek(st, offset, "cur") = SeekTo(st, offset + st.pos)
  BY DEF Seek, SeekTo
<1>3. Seek(st, offset, "end") = SeekTo(st, offset + Len(files[st.path]))
  BY DEF Seek, SeekTo, Size
<1>4. offset + 0 = offset
  OBVIOUS
<1> QED
  BY <1>1, <1>2, <1>3, <1>4

\* A seek to a position within the bound.
LEMMA SeekToFits ==
  ASSUME NEW st, Fits(st), NEW to \in Int, to <= MaxSize[st.path]
  PROVE  Fits(SeekTo(st, to)) /\ SeekTo(st, to).path = st.path
<1> DEFINE e == SeekTo(st, to)
<1>1. st \in FileEntry /\ st.path \in DOMAIN files /\ st.pos <= MaxSize[st.path]
  BY DEF Fits
<1>2. /\ e \in FileEntry /\ e.path = st.path
      /\ to < 0 => e.pos = st.pos
      /\ to >= 0 => e.pos = to
  BY <1>1, SeekToIs
<1> HIDE DEF e
<1>3. e.pos <= MaxSize[e.path]
  BY <1>1, <1>2
<1> QED
  BY <1>1, <1>2, <1>3 DEF Fits, e

\* A seek within the bound.
LEMMA SeekFits ==
  ASSUME NEW st, FilesOK, Fits(st), NEW offset \in Int, NEW whence \in {"set", "cur", "end"},
         Seek(st, offset, whence).pos <= MaxSize[st.path]
  PROVE  Fits(Seek(st, offset, whence)) /\ Seek(st, offset, whence).path = st.path
<1>1. Len(files[st.path]) \in Nat /\ st.pos \in Nat
  BY DEF Fits, FilesOK, FileEntry
<1>2. PICK to : to \in Int /\ Seek(st, offset, whence) = SeekTo(st, to)
  <2>1. CASE whence = "set"
    BY <2>1, SeekIs
  <2>2. CASE whence = "cur"
    <3>1. offset + st.pos \in Int
      BY <1>1
    <3> QED
      BY <2>2, <3>1, SeekIs
  <2>3. CASE whence = "end"
    <3>1. offset + Len(files[st.path]) \in Int
      BY <1>1
    <3> QED
      BY <2>3, <3>1, SeekIs
  <2> QED
    BY <2>1, <2>2, <2>3
<1> PICK e : e = SeekTo(st, to)
  OBVIOUS
<1>3. /\ e \in FileEntry /\ e.path = st.path /\ e = Seek(st, offset, whence)
      /\ to < 0 => e.pos = st.pos
      /\ to >= 0 => e.pos = to
  BY <1>2, SeekToIs DEF Fits
<1> QED
  BY <1>2, <1>3 DEF Fits

\* A tell clears the failbit and moves nothing.
LEMMA TellFits ==
  ASSUME NEW st, Fits(st)
  PROVE  Fits(Tell(st)) /\ Tell(st).path = st.path
  BY DEF Tell, Fits, FileEntry

\* A read does not go behind the end of the file.
LEMMA ReadFits ==
  ASSUME NEW st, FilesOK, Fits(st), NEW n \in Nat
  PROVE  Fits(Read(st, n)) /\ Read(st, n).path = st.path
<1>1. files[st.path] \in Seq(Chars) /\ Len(files[st.path]) <= MaxSize[st.path]
  BY DEF FilesOK, Fits
<1>2. Got(st, n) \in Nat /\ st.pos + Got(st, n) <= MaxSize[st.path]
  BY <1>1, BoundsAssumption DEF Got, Size, Fits, FileEntry
<1>3. Read(st, n) = [st EXCEPT !.pos = st.pos + Got(st, n), !.fail = Got(st, n) < n]
  BY DEF Read
<1>4. Read(st, n) = [path |-> st.path, pos |-> st.pos + Got(st, n), fail |-> Got(st, n) < n]
  <2>1. st \in FileEntry /\ st.pos + Got(st, n) \in Nat /\ (Got(st, n) < n) \in BOOLEAN
    BY <1>2, Fields DEF Fits
  <2> QED
    BY <1>3, <2>1, Moved
<1> QED
  BY <1>2, <1>4 DEF Fits, FileEntry

\* What a write makes of a file is a text that reaches as far as was written.
LEMMA ContentsTypes ==
  ASSUME NEW st, FilesOK, Fits(st), NEW data \in Seq(Chars)
  PROVE  /\ Contents(st, data) \in Seq(Chars)
         /\ st.fail \/ data = <<>> \/ st.pos + Len(data) <= Len(Contents(st, data))
<1>1. files[st.path] \in Seq(Chars) /\ st.pos \in Nat
  BY DEF FilesOK, Fits, FileEntry
<1> DEFINE c == files[st.path]
           m == IF st.pos + Len(data) > Len(c) THEN st.pos + Len(data) ELSE Len(c)
           ch(i) == IF i \in (st.pos + 1)..(st.pos + Len(data)) THEN data[i - st.pos]
                    ELSE IF i <= Len(c) THEN c[i] ELSE Hole
<1>2. m \in Nat /\ st.pos + Len(data) <= m
  BY <1>1
<1>3. \A i \in 1..m : ch(i) \in Chars
  BY <1>1, CharsAssumption
<1>4. Overwritten(c, st.pos, data) = [i \in 1..m |-> ch(i)]
  BY DEF Overwritten
<1> HIDE DEF m, ch, c
<1>5. [i \in 1..m |-> ch(i)] \in Seq(Chars) /\ Len([i \in 1..m |-> ch(i)]) = m
  BY <1>2, <1>3
<1>6. CASE st.fail \/ data = <<>>
  BY <1>1, <1>6 DEF Contents
<1>7. CASE ~(st.fail \/ data = <<>>)
  BY <1>2, <1>4, <1>5, <1>7 DEF Contents, c
<1> QED
  BY <1>6, <1>7

\* A write within the bound.
LEMMA WriteFits ==
  ASSUME NEW st, FilesOK, Fits(st), NEW data \in Seq(Chars),
         Len(Contents(st, data)) <= MaxSize[st.path]
  PROVE  Fits(Write(st, data)) /\ Write(st, data).path = st.path
<1>1. st.fail \/ data = <<>> \/ st.pos + Len(data) <= Len(Contents(st, data))
  BY ContentsTypes
<1>2. MaxSize[st.path] \in Nat /\ Len(data) \in Nat /\ Len(Contents(st, data)) \in Nat
  BY ContentsTypes, BoundsAssumption DEF Fits, FileEntry
<1>3. CASE st.fail
  BY <1>3 DEF Write, Fits, FileEntry
<1>4. CASE ~st.fail /\ data = <<>>
  BY <1>4 DEF Write, Fits, FileEntry
<1>5. CASE ~st.fail /\ st.pos + Len(data) <= Len(Contents(st, data))
  BY <1>2, <1>5 DEF Write, Fits, FileEntry
<1> QED
  BY <1>1, <1>3, <1>4, <1>5

\* file_size goes to the end of the file ...
LEMMA AtEndFits ==
  ASSUME NEW st, FilesOK, Fits(st)
  PROVE  /\ Fits(AtEnd(st)) /\ AtEnd(st).path = st.path
         /\ AtEnd(st).pos = Len(files[st.path]) /\ ~AtEnd(st).fail
<1>1. files[st.path] \in Seq(Chars) /\ Len(files[st.path]) <= MaxSize[st.path]
  BY DEF FilesOK, Fits
<1>2. Fits(Tell(st)) /\ Tell(st).path = st.path
  BY TellFits
<1>3. Seek(Tell(st), 0, "end") = SeekTo(Tell(st), 0 + Len(files[st.path]))
  BY <1>2, SeekIs
<1>4. PICK at : at = SeekTo(Tell(st), 0 + Len(files[st.path]))
  OBVIOUS
<1>5. Fits(at) /\ at.path = st.path /\ at.pos = Len(files[st.path])
  BY <1>1, <1>2, <1>4, SeekToIs DEF Fits
<1>6. AtEnd(st) = [at EXCEPT !.fail = FALSE]
  BY <1>3, <1>4 DEF AtEnd, Tell
<1> QED
  BY <1>5, <1>6 DEF Fits, FileEntry

\* ... and back, and readEntireFile to its beginning.
LEMMA SizedFits ==
  ASSUME NEW st, FilesOK, Fits(st)
  PROVE  /\ Fits(Sized(st)) /\ Sized(st).path = st.path
         /\ Fits(Seek(Sized(st), 0, "set")) /\ Seek(Sized(st), 0, "set").path = st.path
<1>1. st.pos \in Nat /\ st.pos <= MaxSize[st.path] /\ MaxSize[st.path] \in Nat
  BY BoundsAssumption DEF Fits, FileEntry
<1>2. JsInt(st.pos) \in Int /\ JsInt(st.pos) <= st.pos
  BY <1>1, JsIntCut
<1>3. Fits(AtEnd(st)) /\ AtEnd(st).path = st.path
  BY AtEndFits
<1>4. Seek(AtEnd(st), JsInt(st.pos), "set").pos <= MaxSize[st.path]
  BY <1>1, <1>2, <1>3 DEF Seek, Fits, FileEntry
<1>5. Fits(Sized(st)) /\ Sized(st).path = st.path
  BY <1>2, <1>3, <1>4, SeekFits DEF Sized
<1>6. Seek(Sized(st), 0, "set").pos <= MaxSize[st.path]
  BY <1>1, <1>5 DEF Seek, Fits, FileEntry
<1> QED
  BY <1>5, <1>6, SeekFits

-----------------------------------------------------------------------------
(* What a call does to the table keeps it in order.                        *)

\* An entry changes, or what is in its file.
LEMMA UpdateKeeps ==
  ASSUME StreamsInv, NEW s \in 1..Len(streams), Open(s), NEW entry, Fits(entry),
         entry.path = Entry(s).path,
         open_files' = [open_files EXCEPT ![streams[s].fd] = entry],
         UNCHANGED <<file_id_cnt, streams, frames>>,
         DOMAIN files' = DOMAIN files
  PROVE  /\ TableOK' /\ StreamsOK' /\ FramesOK'
         /\ \A t \in 1..Len(streams) : Open(t)' <=> Open(t)
<1> DEFINE fd == streams[s].fd
<1>1. fd \in DOMAIN open_files /\ open_files[fd] = Entry(s)
  BY DEF Open, Entry
<1>2. /\ DOMAIN open_files' = DOMAIN open_files
      /\ \A id \in DOMAIN open_files :
           open_files'[id] = IF id = fd THEN entry ELSE open_files[id]
  BY <1>1
<1> HIDE DEF fd
<1>3. \A e : Fits(e) => Fits(e)'
  BY DEF Fits
<1>4. TableOK'
  <2>1. \A id \in DOMAIN open_files : id \in 1..(file_id_cnt - 1) /\ Fits(open_files[id])
    BY DEF StreamsInv, TableOK
  <2>2. \A id \in DOMAIN open_files' : id \in 1..(file_id_cnt - 1) /\ Fits(open_files'[id])
    BY <1>2, <2>1
  <2> QED
    BY <2>2 DEF Fits, TableOK, StreamsInv
<1>5. \A t \in 1..Len(streams) : Open(t)' <=> Open(t)
  BY <1>2 DEF Open
<1>6. \A t \in 1..Len(streams) : Open(t) => Entry(t)'.path = streams[t].path
  <2> SUFFICES ASSUME NEW t \in 1..Len(streams), Open(t)
               PROVE  open_files'[streams[t].fd].path = streams[t].path
    BY DEF Entry
  <2>1. Entry(t).path = streams[t].path /\ Entry(s).path = streams[s].path
    BY DEF StreamsInv, StreamsOK
  <2>2. CASE streams[t].fd = fd
    BY <1>1, <1>2, <2>1, <2>2 DEF Entry
  <2>3. CASE streams[t].fd # fd
    BY <1>2, <2>1, <2>3 DEF Entry, Open
  <2> QED
    BY <2>2, <2>3
<1>7. StreamsOK'
  BY <1>5, <1>6 DEF StreamsInv, StreamsOK
<1>8. FramesOK'
  BY <1>5 DEF StreamsInv, FramesOK
<1> QED
  BY <1>4, <1>5, <1>7, <1>8

\* A sequence without its last element.
LEMMA FrontIs ==
  ASSUME NEW S, NEW q \in Seq(S), q # <<>>
  PROVE  /\ Front(q) \in Seq(S) /\ Len(Front(q)) = Len(q) - 1 /\ Len(q) \in 1..Len(q)
         /\ Last(q) = q[Len(q)]
         /\ \A i \in 1..Len(Front(q)) : i \in 1..Len(q) /\ Front(q)[i] = q[i]
<1>1. Len(q) \in Nat /\ Len(q) > 0 /\ \A i \in 1..(Len(q) - 1) : q[i] \in S
  OBVIOUS
<1>2. /\ Front(q) \in Seq(S) /\ Len(Front(q)) = Len(q) - 1
      /\ \A i \in 1..(Len(q) - 1) : Front(q)[i] = q[i]
  <2>1. Len(q) - 1 \in Int /\ 1 \in Int /\ (Len(q) - 1) - 1 + 1 = Len(q) - 1
    BY <1>1
  <2>2. /\ SubSeq(q, 1, Len(q) - 1) \in Seq(S)
        /\ Len(SubSeq(q, 1, Len(q) - 1)) = IF 1 <= Len(q) - 1 THEN (Len(q) - 1) - 1 + 1 ELSE 0
        /\ \A i \in 1..((Len(q) - 1) - 1 + 1) : SubSeq(q, 1, Len(q) - 1)[i] = q[1 + i - 1]
    BY <1>1, <2>1, SubSeqProperties
  <2>3. \A i \in 1..(Len(q) - 1) : 1 + i - 1 = i
    OBVIOUS
  <2> QED
    BY <1>1, <2>1, <2>2, <2>3 DEF Front
<1> QED
  BY <1>1, <1>2 DEF Last

\* A stream is closed, by a call or at the end of the innermost `with'.
LEMMA DropKeeps ==
  ASSUME StreamsInv, NEW s \in 1..Len(streams), open_files' = Without(streams[s].fd),
         UNCHANGED <<files, file_id_cnt, streams>>,
         \/ frames' = frames
         \/ frames # <<>> /\ s = Last(frames) /\ frames' = Front(frames)
  PROVE  TableOK' /\ StreamsOK' /\ FramesOK'
<1> DEFINE fd == streams[s].fd
<1>1. /\ DOMAIN open_files' = DOMAIN open_files \ {fd}
      /\ \A id \in DOMAIN open_files' : open_files'[id] = open_files[id]
  BY DEF Without
<1>2. TableOK'
  BY <1>1 DEF StreamsInv, TableOK, Fits
<1>3. \A t \in 1..Len(streams) : Open(t)' => Open(t) /\ t # s /\ Entry(t)' = Entry(t)
  BY <1>1 DEF Open, Entry
<1>4. StreamsOK'
  BY <1>3 DEF StreamsInv, StreamsOK
<1>5. FramesOK'
  <2>1. CASE frames' = frames
    BY <1>3, <2>1 DEF StreamsInv, FramesOK
  <2>2. CASE frames # <<>> /\ s = Last(frames) /\ frames' = Front(frames)
    <3>1. /\ frames \in Seq(Nat)
          /\ \A i \in 1..Len(frames) : frames[i] \in 1..Len(streams)
      BY DEF StreamsInv, FramesOK
    <3>2. /\ frames' \in Seq(Nat) /\ Len(frames') = Len(frames) - 1
          /\ s = frames[Len(frames)]
          /\ \A i \in 1..Len(frames') : i \in 1..Len(frames) /\ frames'[i] = frames[i]
      BY <2>2, <3>1, FrontIs
    <3>3. ASSUME NEW t \in 1..Len(streams), streams[t].by = "with", Open(t)'
          PROVE  \E i \in 1..Len(frames') : frames'[i] = t
      <4>1. PICK i \in 1..Len(frames) : frames[i] = t
        BY <1>3, <3>3 DEF StreamsInv, FramesOK
      <4>2. i # Len(frames)
        BY <1>3, <3>2, <3>3, <4>1
      <4>3. i \in 1..Len(frames')
        BY <3>1, <3>2, <4>2
      <4> QED
        BY <3>2, <4>1, <4>3
    <3> QED
      BY <3>1, <3>2, <3>3 DEF FramesOK
  <2> QED
    BY <2>1, <2>2
<1> QED
  BY <1>2, <1>4, <1>5

\* A file is opened: its id is new, and nobody holds it.
LEMMA OpenKeeps ==
  ASSUME StreamsInv, NEW path \in DOMAIN files, file_id_cnt <= MaxOpens,
         file_id_cnt' = file_id_cnt + 1,
         open_files' = Including(NextId, [path |-> path, pos |-> 0, fail |-> FALSE]),
         UNCHANGED files
  PROVE  /\ TableOK'
         /\ \A t \in 1..Len(streams) :
              /\ streams[t].fd # NextId
              /\ streams[t].fd \in DOMAIN open_files' <=> Open(t)
              /\ Open(t) => open_files'[streams[t].fd] = Entry(t)
         /\ NextId \in 1..MaxOpens /\ NextId < file_id_cnt'
         /\ NextId \in DOMAIN open_files' /\ open_files'[NextId].path = path
<1>1. file_id_cnt \in 1..MaxOpens /\ MaxOpens \in Nat
  BY BoundsAssumption DEF StreamsInv, TableOK
<1> PICK entry : entry = [path |-> path, pos |-> 0, fail |-> FALSE]
  OBVIOUS
<1>2. Fits(entry) /\ entry.path = path
  <2>1. path \in Paths /\ MaxSize[path] \in Nat
    BY BoundsAssumption DEF StreamsInv, FilesOK
  <2> QED
    BY <2>1 DEF Fits, FileEntry
<1>3. /\ DOMAIN open_files' = DOMAIN open_files \cup {file_id_cnt}
      /\ \A id \in DOMAIN open_files' :
           open_files'[id] = IF id = file_id_cnt THEN entry ELSE open_files[id]
  BY DEF Including, NextId
<1>4. \A t \in 1..Len(streams) : streams[t].fd # file_id_cnt
  BY <1>1 DEF StreamsInv, StreamsOK, Stream
<1>5. TableOK'
  <2>1. \A id \in DOMAIN open_files : id \in 1..(file_id_cnt - 1) /\ Fits(open_files[id])
    BY DEF StreamsInv, TableOK
  <2>2. ASSUME NEW id \in DOMAIN open_files'
        PROVE  id \in 1..file_id_cnt /\ Fits(open_files'[id])
    <3>1. CASE id = file_id_cnt
      <4>1. open_files'[id] = entry
        BY <1>3, <3>1
      <4>2. id \in 1..file_id_cnt
        BY <1>1, <3>1
      <4> QED
        BY <1>2, <4>1, <4>2
    <3>2. CASE id # file_id_cnt
      <4>1. id \in DOMAIN open_files /\ open_files'[id] = open_files[id]
        BY <1>3, <3>2
      <4> QED
        BY <1>1, <2>1, <4>1
    <3> QED
      BY <3>1, <3>2
  <2>3. file_id_cnt' \in 1..(MaxOpens + 1) /\ file_id_cnt' - 1 = file_id_cnt
    BY <1>1
  <2> QED
    BY <2>2, <2>3 DEF TableOK, Fits
<1>6. ASSUME NEW t \in 1..Len(streams)
      PROVE  /\ streams[t].fd # NextId
             /\ streams[t].fd \in DOMAIN open_files' <=> Open(t)
             /\ Open(t) => open_files'[streams[t].fd] = Entry(t)
  BY <1>3, <1>4 DEF NextId, Open, Entry
<1>7. /\ NextId \in 1..MaxOpens /\ NextId < file_id_cnt'
      /\ NextId \in DOMAIN open_files' /\ open_files'[NextId].path = path
  <2>1. file_id_cnt \in DOMAIN open_files' /\ open_files'[file_id_cnt] = entry
    BY <1>3
  <2> QED
    BY <1>1, <1>2, <2>1 DEF NextId
<1> QED
  BY <1>5, <1>6, <1>7

\* A stream object that is made of a file that was just opened.
LEMMA StreamAdded ==
  ASSUME NEW stream \in Stream, streams \in Seq(Stream), streams' = Append(streams, stream)
  PROVE  /\ streams' \in Seq(Stream) /\ Len(streams') = Len(streams) + 1
         /\ \A t \in 1..Len(streams) : t \in 1..Len(streams') /\ streams'[t] = streams[t]
         /\ streams'[Len(streams')] = stream
         /\ \A t \in 1..Len(streams') : t \in 1..Len(streams) \/ t = Len(streams')
  OBVIOUS

\* An open gives its stream an entry of its own, or leaves one nobody reaches.
LEMMA ConstructKeeps ==
  ASSUME StreamsInv, NEW path \in Paths, NEW how \in {"new", "with", "encoding"},
         Construct(path, how)
  PROVE  StreamsInv'
<1>1. task = Idle /\ task' = Idle /\ files' = files /\ file_id_cnt <= MaxOpens
  BY DEF Construct
<1>2. FilesOK' /\ TaskOn'
  BY <1>1 DEF StreamsInv, FilesOK, TaskOn
<1>3. CASE path \notin DOMAIN files
  <2>1. UNCHANGED <<open_files, file_id_cnt, streams, frames>>
    BY <1>3 DEF Construct
  <2> QED
    BY <1>1, <1>2, <2>1 DEF StreamsInv, TableOK, StreamsOK, FramesOK, Fits, Open, Entry
<1>4. CASE path \in DOMAIN files
  <2>1. /\ file_id_cnt' = file_id_cnt + 1
        /\ open_files' = Including(NextId, [path |-> path, pos |-> 0, fail |-> FALSE])
    BY <1>4 DEF Construct
  <2>2. /\ TableOK'
        /\ \A t \in 1..Len(streams) :
             /\ streams[t].fd # NextId
             /\ streams[t].fd \in DOMAIN open_files' <=> Open(t)
             /\ Open(t) => open_files'[streams[t].fd] = Entry(t)
        /\ NextId \in 1..MaxOpens /\ NextId < file_id_cnt'
        /\ NextId \in DOMAIN open_files' /\ open_files'[NextId].path = path
    BY <1>1, <1>4, <2>1, OpenKeeps
  <2>3. /\ streams \in Seq(Stream)
        /\ \A t \in 1..Len(streams) : streams[t].fd < file_id_cnt'
        /\ \A s, t \in 1..Len(streams) : streams[s].fd = streams[t].fd => s = t
        /\ \A t \in 1..Len(streams) :
             streams[t].fd \in DOMAIN open_files' =>
               open_files'[streams[t].fd].path = streams[t].path
    <3>1. file_id_cnt \in Nat
      BY BoundsAssumption DEF StreamsInv, TableOK
    <3>2. /\ streams \in Seq(Stream)
          /\ \A t \in 1..Len(streams) : streams[t].fd < file_id_cnt
          /\ \A s, t \in 1..Len(streams) : streams[s].fd = streams[t].fd => s = t
          /\ \A t \in 1..Len(streams) : Open(t) => Entry(t).path = streams[t].path
      BY DEF StreamsInv, StreamsOK
    <3>3. ASSUME NEW t \in 1..Len(streams)
          PROVE  streams[t].fd < file_id_cnt'
      <4>1. streams[t] \in Stream /\ streams[t].fd < file_id_cnt
        BY <3>2
      <4>2. streams[t].fd \in Nat
        BY <4>1, BoundsAssumption DEF Stream
      <4> QED
        BY <2>1, <3>1, <4>1, <4>2
    <3> QED
      BY <2>2, <3>2, <3>3
  <2>4. CASE UNCHANGED <<streams, frames>>
    <3>1. StreamsOK'
      BY <2>3, <2>4 DEF StreamsOK, Open, Entry
    <3>2. FramesOK'
      BY <2>2, <2>4 DEF StreamsInv, FramesOK, Open
    <3> QED
      BY <1>2, <2>2, <3>1, <3>2 DEF StreamsInv
  <2>5. CASE /\ how \in {"new", "with"}
             /\ streams' = Append(streams, [fd |-> NextId, path |-> path, by |-> how])
             /\ frames' = IF how = "with" THEN Append(frames, Len(streams')) ELSE frames
    <3> PICK stream : stream = [fd |-> NextId, path |-> path, by |-> how]
      OBVIOUS
    <3>1. /\ stream \in Stream /\ stream.fd = NextId /\ stream.path = path
          /\ stream.by = how
      BY <2>2, <2>5 DEF Stream
    <3>2. /\ streams' \in Seq(Stream) /\ Len(streams') = Len(streams) + 1
          /\ \A t \in 1..Len(streams) : t \in 1..Len(streams') /\ streams'[t] = streams[t]
          /\ streams'[Len(streams')] = stream
          /\ \A t \in 1..Len(streams') : t \in 1..Len(streams) \/ t = Len(streams')
      BY <2>3, <2>5, <3>1, StreamAdded
    <3>3. StreamsOK'
      <4>1. ASSUME NEW t \in 1..Len(streams')
            PROVE  /\ streams'[t].fd < file_id_cnt'
                   /\ streams'[t].fd = NextId <=> t = Len(streams')
        <5>1. CASE t \in 1..Len(streams)
          <6>1. streams'[t] = streams[t] /\ streams[t].fd # NextId /\ t # Len(streams')
            BY <2>2, <2>3, <3>2, <5>1
          <6> QED
            BY <2>3, <5>1, <6>1
        <5>2. CASE t = Len(streams')
          BY <2>2, <3>1, <3>2, <5>2
        <5> QED
          BY <3>2, <5>1, <5>2
      <4>2. ASSUME NEW s \in 1..Len(streams'), NEW t \in 1..Len(streams'),
                   streams'[s].fd = streams'[t].fd
            PROVE  s = t
        <5>1. CASE s \in 1..Len(streams) /\ t \in 1..Len(streams)
          BY <2>3, <3>2, <4>2, <5>1
        <5>2. CASE s = Len(streams') \/ t = Len(streams')
          BY <4>1, <4>2, <5>2
        <5> QED
          BY <3>2, <5>1, <5>2
      <4>3. \A t \in 1..Len(streams') :
              streams'[t].fd \in DOMAIN open_files' =>
                open_files'[streams'[t].fd].path = streams'[t].path
        BY <2>2, <2>3, <3>1, <3>2
      <4> QED
        BY <3>2, <4>1, <4>2, <4>3 DEF StreamsOK, Open, Entry
    <3>4. FramesOK'
      <4>1. /\ frames \in Seq(Nat)
            /\ \A i \in 1..Len(frames) : frames[i] \in 1..Len(streams)
            /\ \A t \in 1..Len(streams) : streams[t].by = "with" /\ Open(t) =>
                 \E i \in 1..Len(frames) : frames[i] = t
        BY DEF StreamsInv, FramesOK
      <4>2. Len(streams') \in Nat /\ Len(streams') \in 1..Len(streams')
        BY <2>3, <3>2
      <4>3. /\ frames' \in Seq(Nat)
            /\ \A i \in 1..Len(frames) : i \in 1..Len(frames') /\ frames'[i] = frames[i]
            /\ how = "with" => \E i \in 1..Len(frames') : frames'[i] = Len(streams')
            /\ \A i \in 1..Len(frames') : i \in 1..Len(frames) \/ frames'[i] = Len(streams')
        <5>1. CASE how = "with"
          <6>1. frames' = Append(frames, Len(streams'))
            BY <2>5, <5>1
          <6>2. /\ frames' \in Seq(Nat) /\ Len(frames') = Len(frames) + 1
                /\ \A i \in 1..Len(frames) : i \in 1..Len(frames') /\ frames'[i] = frames[i]
                /\ frames'[Len(frames) + 1] = Len(streams')
            BY <4>1, <4>2, <6>1
          <6>3. Len(frames) + 1 \in 1..Len(frames')
                /\ \A i \in 1..Len(frames') : i \in 1..Len(frames) \/ i = Len(frames) + 1
            BY <4>1, <6>2
          <6> QED
            BY <6>2, <6>3
        <5>2. CASE how # "with"
          BY <2>5, <4>1, <5>2
        <5> QED
          BY <5>1, <5>2
      <4>4. \A i \in 1..Len(frames') : frames'[i] \in 1..Len(streams')
        BY <3>2, <4>1, <4>2, <4>3
      <4>5. ASSUME NEW t \in 1..Len(streams'), streams'[t].by = "with", Open(t)'
            PROVE  \E i \in 1..Len(frames') : frames'[i] = t
        <5>1. CASE t \in 1..Len(streams)
          <6>1. streams[t].by = "with" /\ Open(t)
            BY <2>2, <3>2, <4>5, <5>1 DEF Open
          <6>2. PICK i \in 1..Len(frames) : frames[i] = t
            BY <4>1, <5>1, <6>1
          <6> QED
            BY <4>3, <6>2
        <5>2. CASE t = Len(streams')
          BY <3>1, <3>2, <4>3, <4>5, <5>2
        <5> QED
          BY <3>2, <5>1, <5>2
      <4> QED
        BY <4>3, <4>4, <4>5 DEF FramesOK
    <3> QED
      BY <1>2, <2>2, <3>3, <3>4 DEF StreamsInv
  <2> QED
    BY <1>4, <2>4, <2>5 DEF Construct
<1> QED
  BY <1>3, <1>4

\* A close takes an entry from the table.
LEMMA CloseKeeps ==
  ASSUME StreamsInv, NEW s \in 1..Len(streams), Close(s)
  PROVE  StreamsInv'
<1>1. /\ task = Idle /\ open_files' = Without(streams[s].fd)
      /\ UNCHANGED <<files, file_id_cnt, streams, frames, task>>
  BY DEF Close
<1>2. TableOK' /\ StreamsOK' /\ FramesOK'
  BY <1>1, DropKeeps
<1>3. FilesOK' /\ TaskOn'
  BY <1>1 DEF StreamsInv, FilesOK, TaskOn
<1> QED
  BY <1>2, <1>3 DEF StreamsInv

\* The end of `with' takes the entry of the innermost one.
LEMMA WithEndsKeeps ==
  ASSUME StreamsInv, NEW threw \in BOOLEAN, WithEnds(threw)
  PROVE  StreamsInv'
<1>1. /\ task = Idle /\ frames # <<>> /\ frames' = Front(frames)
      /\ open_files' = Without(streams[Last(frames)].fd)
      /\ UNCHANGED <<files, file_id_cnt, streams, task>>
  BY DEF WithEnds
<1>2. /\ frames \in Seq(Nat)
      /\ \A i \in 1..Len(frames) : frames[i] \in 1..Len(streams)
  BY DEF StreamsInv, FramesOK
<1>3. Last(frames) \in 1..Len(streams)
  BY <1>1, <1>2, FrontIs
<1>4. TableOK' /\ StreamsOK' /\ FramesOK'
  BY <1>1, <1>3, DropKeeps
<1>5. FilesOK' /\ TaskOn'
  BY <1>1 DEF StreamsInv, FilesOK, TaskOn
<1> QED
  BY <1>4, <1>5 DEF StreamsInv

\* A stream in the table has an entry that fits.
LEMMA OpenFits ==
  ASSUME StreamsInv, NEW s \in 1..Len(streams), Open(s)
  PROVE  /\ Fits(Entry(s)) /\ Entry(s).path = streams[s].path
         /\ files[streams[s].path] \in Seq(Chars)
         /\ Len(files[streams[s].path]) <= MaxSize[streams[s].path]
         /\ MaxSize[streams[s].path] \in Nat /\ streams[s].path \in DOMAIN files
<1>1. Fits(Entry(s)) /\ Entry(s).path = streams[s].path
  BY DEF StreamsInv, TableOK, StreamsOK, Open, Entry
<1> QED
  BY <1>1, BoundsAssumption DEF StreamsInv, FilesOK, Fits

\* A call that only moves a stream.
LEMMA MethodKeeps ==
  ASSUME StreamsInv, NEW s \in 1..Len(streams), NEW entry, NEW result,
         OnStream(s, entry, result), files' = files,
         Open(s) => Fits(entry) /\ entry.path = Entry(s).path
  PROVE  StreamsInv'
<1>1. task = Idle /\ UNCHANGED <<files, file_id_cnt, streams, frames, task>>
  BY DEF OnStream
<1>2. CASE Open(s)
  <2>1. open_files' = [open_files EXCEPT ![streams[s].fd] = entry]
    BY <1>2 DEF OnStream
  <2>2. TableOK' /\ StreamsOK' /\ FramesOK'
    BY <1>1, <1>2, <2>1, UpdateKeeps
  <2> QED
    BY <1>1, <2>2 DEF StreamsInv, FilesOK, TaskOn
<1>3. CASE ~Open(s)
  <2>1. UNCHANGED open_files
    BY <1>3 DEF OnStream
  <2> QED
    BY <1>1, <2>1 DEF StreamsInv, FilesOK, TaskOn, TableOK, StreamsOK, FramesOK, Fits, Open,
                      Entry
<1> QED
  BY <1>2, <1>3

\* The calls that move: seek, tell, read, file_size and readEntireFile.
LEMMA MovesKeep ==
  ASSUME StreamsInv, NEW s \in 1..Len(streams),
         \/ \E offset \in -1..1, whence \in {"set", "cur", "end"} :
              SeekStream(s, offset, whence)
         \/ TellStream(s)
         \/ \E n \in 1..2 : ReadStream(s, n)
         \/ SizeOfStream(s)
         \/ ReadEntireFile(s)
  PROVE  StreamsInv'
<1>0. FilesOK /\ (Open(s) => Fits(Entry(s)) /\ Entry(s).path = streams[s].path)
  BY OpenFits DEF StreamsInv
<1>1. ASSUME NEW offset \in -1..1, NEW whence \in {"set", "cur", "end"},
             SeekStream(s, offset, whence)
      PROVE  StreamsInv'
  <2> DEFINE entry == Seek(Entry(s), offset, whence)
  <2>1. /\ Open(s) => entry.pos <= MaxSize[streams[s].path]
        /\ OnStream(s, entry, Nothing) /\ files' = files
    BY <1>1 DEF SeekStream
  <2>2. Open(s) => Fits(entry) /\ entry.path = Entry(s).path
    BY <1>0, <2>1, SeekFits
  <2> HIDE DEF entry
  <2> QED
    BY <2>1, <2>2, MethodKeeps
<1>2. CASE TellStream(s)
  BY <1>0, <1>2, TellFits, MethodKeeps DEF TellStream
<1>3. ASSUME NEW n \in 1..2, ReadStream(s, n)
      PROVE  StreamsInv'
  BY <1>0, <1>3, ReadFits, MethodKeeps DEF ReadStream
<1>4. CASE SizeOfStream(s)
  BY <1>0, <1>4, SizedFits, MethodKeeps DEF SizeOfStream
<1>5. CASE ReadEntireFile(s)
  <2> DEFINE begin == Seek(Sized(Entry(s)), 0, "set")
             size == JsInt(AtEnd(Entry(s)).pos)
             entry == IF size <= 0 THEN begin ELSE Read(begin, size)
  <2>1. files' = files /\ \E result : OnStream(s, entry, result)
    BY <1>5 DEF ReadEntireFile
  <2>2. Open(s) => Fits(entry) /\ entry.path = Entry(s).path
    <3> SUFFICES ASSUME Open(s) PROVE Fits(entry) /\ entry.path = Entry(s).path
      OBVIOUS
    <3>1. Fits(begin) /\ begin.path = Entry(s).path
      BY <1>0, SizedFits
    <3>2. size \in Int
      BY <1>0, AtEndFits, JsIntCut DEF Fits, FileEntry
    <3> HIDE DEF size, begin
    <3>3. CASE size <= 0
      BY <3>1, <3>3
    <3>4. CASE ~(size <= 0)
      <4>1. size \in Nat
        BY <3>2, <3>4
      <4> QED
        BY <1>0, <3>1, <3>4, <4>1, ReadFits
    <3> QED
      BY <3>3, <3>4
  <2> HIDE DEF entry
  <2> QED
    BY <2>1, <2>2, MethodKeeps
<1> QED
  BY <1>1, <1>2, <1>3, <1>4, <1>5

\* What a Uint8Array shows, and what write makes of it, are characters.
LEMMA DataTypes ==
  ASSUME NEW data \in Data
  PROVE  Given(data) \in Seq(Chars) /\ Passed(data) \in Seq(Chars)
<1>1. /\ data.buffer \in Seq(Chars) /\ data.offset \in Nat /\ data.length \in Nat
      /\ data.offset + data.length <= Len(data.buffer)
  BY DataAssumption
<1>2. /\ \A i \in (data.offset + 1)..(data.offset + data.length) : data.buffer[i] \in Chars
      /\ \A i \in 1..data.length : data.buffer[i] \in Chars
  BY <1>1
<1> QED
  BY <1>1, <1>2 DEF Given, Passed

\* Of a view of a whole buffer write takes what the view shows.
LEMMA WholeView ==
  ASSUME NEW data \in Data, data.offset = 0
  PROVE  Given(data) = Passed(data)
  BY DataAssumption DEF Given, Passed

\* A call that writes: the file stays within its bound.
LEMMA WriteKeeps ==
  ASSUME StreamsInv, NEW s \in 1..Len(streams), NEW entry, NEW data \in Data, NEW result,
         WriteTo(s, entry, data, result),
         Open(s) => Fits(entry) /\ entry.path = Entry(s).path
  PROVE  StreamsInv'
<1> PICK text : text = Passed(data)
  OBVIOUS
<1>1. /\ OnStream(s, Write(entry, text), result)
      /\ Open(s) => Len(Contents(entry, text)) <= MaxSize[entry.path]
      /\ files' = IF Open(s) THEN [files EXCEPT ![entry.path] = Contents(entry, text)]
                             ELSE files
  BY DEF WriteTo
<1>2. task = Idle /\ UNCHANGED <<file_id_cnt, streams, frames, task>>
  BY <1>1 DEF OnStream
<1>3. CASE ~Open(s)
  <2>1. UNCHANGED <<files, open_files>>
    BY <1>1, <1>3 DEF OnStream
  <2> QED
    BY <1>2, <2>1 DEF StreamsInv, FilesOK, TaskOn, TableOK, StreamsOK, FramesOK, Fits, Open,
                      Entry
<1>4. CASE Open(s)
  <2>1. FilesOK /\ Fits(entry) /\ text \in Seq(Chars)
    BY <1>4, DataTypes DEF StreamsInv
  <2>2. /\ open_files' = [open_files EXCEPT ![streams[s].fd] = Write(entry, text)]
        /\ files' = [files EXCEPT ![entry.path] = Contents(entry, text)]
        /\ Len(Contents(entry, text)) <= MaxSize[entry.path]
    BY <1>1, <1>4 DEF OnStream
  <2>3. Fits(Write(entry, text)) /\ Write(entry, text).path = Entry(s).path
    BY <1>4, <2>1, <2>2, WriteFits
  <2>4. DOMAIN files' = DOMAIN files /\ FilesOK'
    BY <2>1, <2>2, ContentsTypes DEF FilesOK
  <2>5. TableOK' /\ StreamsOK' /\ FramesOK'
    BY <1>2, <1>4, <2>2, <2>3, <2>4, UpdateKeeps
  <2> QED
    BY <1>2, <2>4, <2>5 DEF StreamsInv, TaskOn
<1> QED
  BY <1>3, <1>4

\* write and append.
LEMMA WritesKeep ==
  ASSUME StreamsInv, NEW s \in 1..Len(streams), NEW data \in Data,
         WriteStream(s, data) \/ AppendStream(s, data)
  PROVE  StreamsInv'
<1>0. FilesOK /\ (Open(s) => Fits(Entry(s)) /\ Entry(s).path = streams[s].path)
  BY OpenFits DEF StreamsInv
<1>1. CASE WriteStream(s, data)
  BY <1>0, <1>1, WriteKeeps DEF WriteStream
<1>2. CASE AppendStream(s, data)
  <2> DEFINE entry == Seek(Entry(s), 0, "end")
  <2>1. \E result : WriteTo(s, entry, data, result)
    BY <1>2 DEF AppendStream
  <2>2. Open(s) => Fits(entry) /\ entry.path = Entry(s).path
    <3> SUFFICES ASSUME Open(s) PROVE Fits(entry) /\ entry.path = Entry(s).path
      OBVIOUS
    <3>1. /\ Entry(s) \in FileEntry
          /\ Len(files[Entry(s).path]) \in Nat
          /\ Len(files[Entry(s).path]) <= MaxSize[Entry(s).path]
      BY <1>0 DEF FilesOK, Fits
    <3>2. entry = SeekTo(Entry(s), 0 + Len(files[Entry(s).path]))
      BY SeekIs
    <3>3. 0 + Len(files[Entry(s).path]) = Len(files[Entry(s).path])
      BY <3>1
    <3> QED
      BY <1>0, <3>1, <3>2, <3>3, SeekToFits
  <2> HIDE DEF entry
  <2> QED
    BY <2>1, <2>2, WriteKeeps
<1> QED
  BY <1>1, <1>2

\* A line is a text.
LEMMA Chomped ==
  ASSUME NEW text \in Seq(Chars)
  PROVE  Chomp(text) \in Seq(Chars)
  BY FrontIs DEF Chomp

\* A line-reading call begins on a stream that is open.
LEMMA ReadLineKeeps ==
  ASSUME StreamsInv, NEW s \in 1..Len(streams), NEW call \in {"line", "lines"},
         ReadLine(s, call)
  PROVE  StreamsInv'
<1>1. UNCHANGED <<files, file_id_cnt, streams, frames>> /\ task = Idle
  BY DEF ReadLine
<1>2. CASE ~Open(s)
  <2>1. UNCHANGED <<open_files, task>>
    BY <1>2 DEF ReadLine
  <2> QED
    BY <1>1, <2>1 DEF StreamsInv, FilesOK, TaskOn, TableOK, StreamsOK, FramesOK, Fits, Open,
                      Entry
<1>3. CASE Open(s)
  <2> PICK st : st = IF call = "lines" THEN Tell(Entry(s)) ELSE Entry(s)
    OBVIOUS
  <2>1. /\ open_files' = [open_files EXCEPT ![streams[s].fd] = st]
        /\ task' = [call |-> call, of |-> s, from |-> st.pos, failed |-> st.fail,
                    last |-> JsInt(st.pos), text |-> <<>>, lines |-> <<>>, more |-> TRUE]
    BY <1>3 DEF ReadLine
  <2>2. Fits(st) /\ st.path = Entry(s).path
    BY <1>3, OpenFits, TellFits
  <2>3. /\ TableOK' /\ StreamsOK' /\ FramesOK'
        /\ \A t \in 1..Len(streams) : Open(t)' <=> Open(t)
    BY <1>1, <1>3, <2>1, <2>2, UpdateKeeps
  <2>4. task' \in Reading /\ task'.of = s
    <3>1. st.pos \in Nat /\ st.fail \in BOOLEAN
      BY <2>2 DEF Fits, FileEntry
    <3>2. JsInt(st.pos) \in Int
      BY <3>1, JsIntCut
    <3>3. s \in Nat /\ <<>> \in Seq(Chars) /\ <<>> \in Seq(Seq(Chars))
      BY DEF StreamsInv, StreamsOK
    <3> QED
      BY <2>1, <3>1, <3>2, <3>3 DEF Reading
  <2>5. task'.of \in 1..Len(streams') /\ Open(task.of)'
    <3>1. \A t : t = s => (streams[t].fd \in DOMAIN open_files' <=> Open(s))
      BY <1>1, <1>3, <2>3 DEF Open
    <3> QED
      BY <1>1, <1>3, <2>4, <3>1 DEF Open
  <2> QED
    BY <1>1, <2>3, <2>4, <2>5 DEF StreamsInv, FilesOK, TaskOn
<1> QED
  BY <1>2, <1>3

\* A part of a sequence: the elements behind a, up to b.
LEMMA Part ==
  ASSUME NEW S, NEW c \in Seq(S), NEW a \in Nat, NEW b \in Nat, a <= b, b <= Len(c)
  PROVE  /\ SubSeq(c, a + 1, b) \in Seq(S)
         /\ Len(SubSeq(c, a + 1, b)) = b - a
         /\ \A i \in 1..(b - a) : a + i \in 1..Len(c) /\ SubSeq(c, a + 1, b)[i] = c[a + i]
<1>1. SubSeq(c, a + 1, b) \in Seq(S)
  OBVIOUS
<1>2. Len(SubSeq(c, a + 1, b)) = b - a
  OBVIOUS
<1>3. \A i \in 1..(b - a) : a + i \in 1..Len(c) /\ SubSeq(c, a + 1, b)[i] = c[a + i]
  OBVIOUS
<1> QED
  BY <1>1, <1>2, <1>3

\* A part of a sequence: g elements behind p.
LEMMA PartFrom ==
  ASSUME NEW S, NEW c \in Seq(S), NEW p \in Nat, NEW g \in Nat, p + g <= Len(c)
  PROVE  /\ SubSeq(c, p + 1, p + g) \in Seq(S)
         /\ Len(SubSeq(c, p + 1, p + g)) = g
         /\ \A i \in 1..g : p + i \in 1..Len(c) /\ SubSeq(c, p + 1, p + g)[i] = c[p + i]
<1>1. SubSeq(c, p + 1, p + g) \in Seq(S)
  OBVIOUS
<1>2. Len(SubSeq(c, p + 1, p + g)) = g
  OBVIOUS
<1>3. \A i \in 1..g : p + i \in 1..Len(c) /\ SubSeq(c, p + 1, p + g)[i] = c[p + i]
  OBVIOUS
<1> QED
  BY <1>1, <1>2, <1>3

\* A part of a text that may be empty behind its end.
LEMMA ChunkOf ==
  ASSUME NEW c \in Seq(Chars), NEW p \in Nat, NEW g \in Nat, g = 0 \/ p + g <= Len(c)
  PROVE  /\ SubSeq(c, p + 1, p + g) \in Seq(Chars)
         /\ Len(SubSeq(c, p + 1, p + g)) = g
         /\ \A i \in 1..g : p + i \in 1..Len(c) /\ SubSeq(c, p + 1, p + g)[i] = c[p + i]
<1>1. CASE p + g <= Len(c)
  BY <1>1, PartFrom
<1>2. CASE g = 0
  <2>1. p + 1 \in Int /\ p + g \in Int /\ p + g < p + 1
    BY <1>2
  <2>2. SubSeq(c, p + 1, p + g) = <<>>
    BY <2>1, SubSeqEmpty
  <2>3. Len(<<>>) = 0 /\ <<>> \in Seq(Chars) /\ 1..0 = {}
    OBVIOUS
  <2> QED
    BY <1>2, <2>2, <2>3
<1> QED
  BY <1>1, <1>2

\* A chunk is the part of the file from the position on.
LEMMA ChunkIs ==
  ASSUME FilesOK, NEW st, Fits(st)
  PROVE  /\ Characters(st, ChunkSize) \in Seq(Chars)
         /\ Len(Characters(st, ChunkSize)) = Got(st, ChunkSize)
         /\ Got(st, ChunkSize) \in 0..ChunkSize
         /\ \A i \in 1..Got(st, ChunkSize) :
              /\ st.pos + i \in 1..Len(files[st.path])
              /\ Characters(st, ChunkSize)[i] = files[st.path][st.pos + i]
<1>1. /\ files[st.path] \in Seq(Chars) /\ st.pos \in Nat
      /\ Size(st) = Len(files[st.path]) /\ Size(st) \in Nat /\ ChunkSize \in Nat
  BY ChunkAssumption DEF FilesOK, Fits, FileEntry, Size
<1>2. Got(st, ChunkSize) \in 0..ChunkSize
      /\ (Got(st, ChunkSize) = 0 \/ st.pos + Got(st, ChunkSize) <= Len(files[st.path]))
  BY <1>1, SMTT(30) DEF Got
<1>3. Got(st, ChunkSize) \in Nat
  BY <1>2
<1> QED
  BY <1>1, <1>2, <1>3, ChunkOf, Zenon DEF Characters

\* A chunk moves the stream of the call.
LEMMA ReadChunkKeeps ==
  ASSUME StreamsInv, ReadChunk
  PROVE  StreamsInv'
<1> PICK s, st, chunk, after, at :
      /\ s = task.of /\ st = Entry(s) /\ chunk = Characters(st, ChunkSize)
      /\ after = Read(st, ChunkSize) /\ at = Delimiter(chunk)
  OBVIOUS
<1>1. /\ task # Idle /\ task \in Reading /\ s \in 1..Len(streams) /\ Open(s)
      /\ UNCHANGED <<files, file_id_cnt, streams, frames>>
  BY DEF ReadChunk, StreamsInv, TaskOn
<1>2. FilesOK /\ Fits(st) /\ ChunkSize \in Nat
  BY <1>1, OpenFits, ChunkAssumption DEF StreamsInv
<1>3. Fits(after) /\ after.path = st.path
  BY <1>2, ReadFits
<1>4. chunk \in Seq(Chars) /\ Len(chunk) \in Nat
  BY <1>2, ChunkIs
<1>5. at \in 0..Len(chunk)
  BY <1>4, DelimiterIs
<1>6. ASSUME NEW entry, Fits(entry), entry.path = st.path,
             open_files' = [open_files EXCEPT ![streams[s].fd] = entry],
             NEW text \in Seq(Chars), NEW more \in BOOLEAN,
             task' = [task EXCEPT !.text = text, !.more = more]
      PROVE  StreamsInv'
  <2>1. /\ TableOK' /\ StreamsOK' /\ FramesOK'
        /\ \A t \in 1..Len(streams) : Open(t)' <=> Open(t)
    BY <1>1, <1>6, UpdateKeeps
  <2>2. task' \in Reading /\ task'.of = s
    BY <1>1, <1>6 DEF Reading
  <2>3. task'.of \in 1..Len(streams') /\ Open(task.of)'
    <3>1. \A t : t = s => (streams[t].fd \in DOMAIN open_files' <=> Open(s))
      BY <1>1, <2>1 DEF Open
    <3> QED
      BY <1>1, <2>2, <3>1 DEF Open
  <2> QED
    BY <1>1, <2>1, <2>2, <2>3 DEF StreamsInv, FilesOK, TaskOn
<1>7. CASE at > 0
  <2>1. /\ task' = [task EXCEPT !.text = task.text \o SubSeq(chunk, 1, at - 1), !.more = FALSE]
        /\ open_files' = [open_files EXCEPT ![streams[s].fd] =
                            SeekBack(after, at - 1, Len(chunk))]
    BY <1>7 DEF ReadChunk
  <2>2. Fits(SeekBack(after, at - 1, Len(chunk))) /\ SeekBack(after, at - 1, Len(chunk)).path = st.path
    <3> DEFINE to == at - 1 - Len(chunk) + 1 + after.pos
    <3>1. /\ at - 1 - Len(chunk) + 1 \in Int /\ to \in Int /\ to <= MaxSize[after.path]
      BY <1>3, <1>4, <1>5, <1>7, BoundsAssumption DEF Fits, FileEntry
    <3>2. SeekBack(after, at - 1, Len(chunk)) = SeekTo(after, to)
      BY <3>1, SeekIs DEF SeekBack
    <3> QED
      BY <1>3, <3>1, <3>2, SeekToFits
  <2>3. task.text \o SubSeq(chunk, 1, at - 1) \in Seq(Chars)
    <3>1. SubSeq(chunk, 1, at - 1) \in Seq(Chars)
      <4>1. at - 1 \in Int /\ 1 \in Int /\ \A i \in 1..(at - 1) : chunk[i] \in Chars
        BY <1>4, <1>5, <1>7
      <4> QED
        BY <4>1, SubSeqProperties
    <3>2. task.text \in Seq(Chars)
      BY <1>1 DEF Reading
    <3> QED
      BY <3>1, <3>2
  <2> QED
    BY <1>6, <2>1, <2>2, <2>3
<1>8. CASE ~(at > 0)
  <2>1. /\ task' = [task EXCEPT !.text = task.text \o chunk,
                               !.more = ~IsLastChunk(Len(chunk))]
        /\ open_files' = [open_files EXCEPT ![streams[s].fd] = after]
    BY <1>8 DEF ReadChunk
  <2>2. task.text \in Seq(Chars)
    BY <1>1 DEF Reading
  <2>3. task.text \o chunk \in Seq(Chars) /\ (~IsLastChunk(Len(chunk))) \in BOOLEAN
    BY <1>4, <2>2
  <2> QED
    BY <1>3, <1>6, <2>1, <2>3
<1> QED
  BY <1>7, <1>8

\* readLine returns.
LEMMA EndLineKeeps ==
  ASSUME StreamsInv, EndLine
  PROVE  StreamsInv'
<1>1. UNCHANGED <<files, open_files, file_id_cnt, streams, frames>> /\ task' = Idle
  BY DEF EndLine, Done
<1> QED
  BY <1>1 DEF StreamsInv, FilesOK, TaskOn, TableOK, StreamsOK, FramesOK, Fits, Open, Entry

\* readLines takes a line or returns.
LEMMA EndLinesKeeps ==
  ASSUME StreamsInv, EndLines
  PROVE  StreamsInv'
<1> PICK s, line, here :
      s = task.of /\ line = Chomp(task.text) /\ here = JsInt(Entry(s).pos)
  OBVIOUS
<1>1. /\ task # Idle /\ task \in Reading /\ s \in 1..Len(streams) /\ Open(s)
      /\ UNCHANGED <<files, file_id_cnt, streams, frames>>
  BY DEF EndLines, StreamsInv, TaskOn
<1>2. open_files' = [open_files EXCEPT ![streams[s].fd] = Tell(Entry(s))]
  BY DEF EndLines, Entry
<1>3. Fits(Entry(s))
  BY <1>1, OpenFits
<1>4. Fits(Tell(Entry(s))) /\ Tell(Entry(s)).path = Entry(s).path
  BY <1>3, TellFits
<1>5. /\ TableOK' /\ StreamsOK' /\ FramesOK'
      /\ \A t \in 1..Len(streams) : Open(t)' <=> Open(t)
  BY <1>1, <1>2, <1>4, UpdateKeeps
<1>6. CASE task' = Idle
  BY <1>1, <1>5, <1>6 DEF StreamsInv, FilesOK, TaskOn
<1>7. CASE task' = [task EXCEPT !.lines = Append(@, line), !.last = here,
                                !.text = <<>>, !.more = TRUE]
  <2>1. /\ line \in Seq(Chars) /\ here \in Int /\ <<>> \in Seq(Chars)
        /\ task.lines \in Seq(Seq(Chars))
    BY <1>1, <1>3, Chomped, JsIntCut DEF Reading, Fits, FileEntry
  <2>2. Append(task.lines, line) \in Seq(Seq(Chars))
    BY <2>1
  <2>3. task' \in Reading /\ task'.of = s
    BY <1>1, <1>7, <2>1, <2>2 DEF Reading
  <2>4. task'.of \in 1..Len(streams') /\ Open(task.of)'
    <3>1. \A t : t = s => (streams[t].fd \in DOMAIN open_files' <=> Open(s))
      BY <1>1, <1>5 DEF Open
    <3> QED
      BY <1>1, <2>3, <3>1 DEF Open
  <2> QED
    BY <1>1, <1>5, <2>3, <2>4 DEF StreamsInv, FilesOK, TaskOn
<1> QED
  BY <1>6, <1>7 DEF EndLines, Done

-----------------------------------------------------------------------------
(* The streams' invariant.                                                 *)

\* Every step on the streams keeps their invariant.
LEMMA StreamsKeep ==
  ASSUME StreamsInv, StreamCall \/ ReadingStep \/ UNCHANGED streamVars
         \/ (task = Idle /\ UNCHANGED <<files, open_files, file_id_cnt, streams, frames, task>>)
  PROVE  StreamsInv'
<1>0. DOMAIN streams = 1..Len(streams)
  BY DEF StreamsInv, StreamsOK
<1>1. CASE StreamCall
  <2>1. ASSUME NEW path \in Paths, NEW how \in {"new", "with", "encoding"},
               Construct(path, how)
        PROVE  StreamsInv'
    BY <2>1, ConstructKeeps
  <2>2. ASSUME NEW threw \in BOOLEAN, WithEnds(threw)
        PROVE  StreamsInv'
    BY <2>2, WithEndsKeeps
  <2>3. ASSUME NEW s \in 1..Len(streams), Close(s)
        PROVE  StreamsInv'
    BY <2>3, CloseKeeps
  <2>4. ASSUME NEW s \in 1..Len(streams),
               \/ \E offset \in -1..1, whence \in {"set", "cur", "end"} :
                    SeekStream(s, offset, whence)
               \/ TellStream(s)
               \/ \E n \in 1..2 : ReadStream(s, n)
               \/ SizeOfStream(s)
               \/ ReadEntireFile(s)
        PROVE  StreamsInv'
    BY <2>4, MovesKeep
  <2>5. ASSUME NEW s \in 1..Len(streams), NEW data \in Data,
               WriteStream(s, data) \/ AppendStream(s, data)
        PROVE  StreamsInv'
    BY <2>5, WritesKeep
  <2>6. ASSUME NEW s \in 1..Len(streams), NEW call \in {"line", "lines"}, ReadLine(s, call)
        PROVE  StreamsInv'
    BY <2>6, ReadLineKeeps
  <2> QED
    BY <1>0, <1>1, <2>1, <2>2, <2>3, <2>4, <2>5, <2>6 DEF StreamCall
<1>2. CASE ReadingStep
  BY <1>2, ReadChunkKeeps, EndLineKeeps, EndLinesKeeps DEF ReadingStep
<1>3. CASE UNCHANGED <<files, open_files, file_id_cnt, streams, frames, task>>
  BY <1>3 DEF StreamsInv, FilesOK, TaskOn, TableOK, StreamsOK, FramesOK, Fits, Open, Entry
<1> QED
  BY <1>1, <1>2, <1>3 DEF streamVars

\* What a step does to the streams.
LEMMA StepsOfStreams ==
  ASSUME [Next]_vars
  PROVE  \/ StreamCall \/ ReadingStep \/ UNCHANGED streamVars
         \/ (task = Idle /\ UNCHANGED <<files, open_files, file_id_cnt, streams, frames, task>>)
  BY DEF Next, vars, Calls, Reads, Yield, WakesOther, Runs

\* The streams' invariant holds at first, with no file open.
LEMMA StreamsBegin ==
  ASSUME NEW w \in Worlds, StreamsInit(w.files)
  PROVE  StreamsInv
<1>1. FilesOK
  BY WorldsAssumption DEF StreamsInit, FilesOK
<1>2. TableOK
  BY BoundsAssumption DEF StreamsInit, TableOK
<1>3. StreamsOK /\ FramesOK /\ TaskOn
  BY DEF StreamsInit, StreamsOK, FramesOK, TaskOn
<1> QED
  BY <1>1, <1>2, <1>3 DEF StreamsInv

\* The table of open files and the stream objects fit each other.
THEOREM StreamsCorrect == Spec => []StreamsInv
<1>1. Init => StreamsInv
  BY StreamsBegin DEF Init
<1>2. StreamsInv /\ [Next]_vars => StreamsInv'
  BY StreamsKeep, StepsOfStreams
<1> QED
  BY <1>1, <1>2, PTL DEF Spec

\* A stream object reaches no other's file.
THEOREM StreamsHaveTheirOwnFile == Spec => []OwnFile
<1>1. StreamsInv => OwnFile
  BY DEF StreamsInv, StreamsOK, OwnFile
<1> QED
  BY <1>1, StreamsCorrect, PTL

-----------------------------------------------------------------------------
(* append.                                                                 *)

\* A text that ends with the characters of another has it as a suffix.
LEMMA SuffixIs ==
  ASSUME NEW s \in Seq(Chars), NEW t \in Seq(Chars), Len(s) <= Len(t),
         \A i \in 1..Len(s) : t[Len(t) - Len(s) + i] = s[i]
  PROVE  IsSuffix(s, t)
<1> DEFINE m == Len(s)
           n == Len(t)
           rs == [i \in 1..m |-> s[(m - i) + 1]]
           rt == [i \in 1..n |-> t[(n - i) + 1]]
<1>1. m \in Nat /\ n \in Nat /\ m <= n
  OBVIOUS
<1>2. Reverse(s) = rs /\ Reverse(t) = rt
  BY DEF Reverse
<1>3. rs \in Seq(Chars) /\ Len(rs) = m /\ \A i \in 1..m : rs[i] = s[(m - i) + 1]
  <2>1. \A i \in 1..m : s[(m - i) + 1] \in Chars
    OBVIOUS
  <2> QED
    BY <1>1, <2>1
<1>4. rt \in Seq(Chars) /\ Len(rt) = n /\ \A i \in 1..n : rt[i] = t[(n - i) + 1]
  <2>1. \A i \in 1..n : t[(n - i) + 1] \in Chars
    OBVIOUS
  <2> QED
    BY <1>1, <2>1
<1>5. \A i \in 1..m : rs[i] = rt[i]
  <2> SUFFICES ASSUME NEW i \in 1..m PROVE s[(m - i) + 1] = t[(n - i) + 1]
    BY <1>1, <1>3, <1>4
  <2>1. (m - i) + 1 \in 1..m /\ n - m + ((m - i) + 1) = (n - i) + 1
    BY <1>1
  <2> QED
    BY <2>1
<1>h HIDE DEF rs, rt
<1>6. SubSeq(rs, 1, m) = SubSeq(rt, 1, m)
  BY <1>1, <1>3, <1>4, <1>5
<1> QED
  BY <1>1, <1>2, <1>3, <1>4, <1>6 DEF IsSuffix, IsPrefix

\* A seek to the end.
LEMMA SeekEnd ==
  ASSUME FilesOK, NEW st, Fits(st)
  PROVE  LET at == Seek(st, 0, "end") IN
         /\ at \in FileEntry /\ at.path = st.path /\ at.pos = Len(files[st.path]) /\ ~at.fail
         /\ Fits(at)
<1> DEFINE n == Len(files[st.path])
           at == Seek(st, 0, "end")
<1>1. n \in Nat /\ n \in Int /\ n >= 0 /\ 0 + n = n /\ st \in FileEntry
  BY DEF FilesOK, Fits
<1>2. at = SeekTo(st, 0 + n)
  BY SeekIs
<1>3. at = SeekTo(st, n)
  BY <1>1, <1>2
<1> HIDE DEF n, at
<1>4. /\ SeekTo(st, n) \in FileEntry /\ SeekTo(st, n).path = st.path
      /\ SeekTo(st, n).pos = n /\ ~SeekTo(st, n).fail
  BY <1>1, SeekToIs
<1>5. at \in FileEntry /\ at.path = st.path /\ at.pos = n /\ ~at.fail
  BY <1>3, <1>4
<1>6. Fits(at)
  BY <1>5 DEF Fits, FilesOK, n
<1> QED
  BY <1>5, <1>6 DEF n, at

\* A write behind the last character, at an empty or a full file.
LEMMA AppendedContents ==
  ASSUME FilesOK, NEW st, Fits(st), NEW data \in Seq(Chars)
  PROVE  IsSuffix(data, Contents(Seek(st, 0, "end"), data))
<1> DEFINE c == files[st.path]
           m == Len(data)
           n == Len(c)
           at == Seek(st, 0, "end")
<1>1. c \in Seq(Chars) /\ n \in Nat /\ m \in Nat /\ st \in FileEntry
  BY DEF FilesOK, Fits
<1>2. at.path = st.path /\ at.pos = n /\ ~at.fail /\ at \in FileEntry
  BY SeekEnd
<1>3. Fits(at)
  BY <1>2 DEF Fits, FilesOK
<1> HIDE DEF at
<1>4. CASE data = <<>>
  <2>1. Contents(at, data) = c
    BY <1>2, <1>4 DEF Contents
  <2>2. IsSuffix(data, c)
    <3>1. data \in Seq(Chars) /\ Len(data) = 0 /\ 0 <= n /\ 1..0 = {}
      BY <1>1, <1>4
    <3>2. \A i \in 1..Len(data) : c[Len(c) - Len(data) + i] = data[i]
      BY <3>1
    <3> HIDE DEF c
    <3> QED
      BY <1>1, <3>1, <3>2, SuffixIs
  <2> QED
    BY <2>1, <2>2 DEF at
<1>5. CASE data # <<>>
  <2> DEFINE t == Contents(at, data)
             k == IF n + m > n THEN n + m ELSE n
  <2>1. t = [i \in 1..k |->
               IF i \in (n + 1)..(n + m) THEN data[i - n]
               ELSE IF i <= n THEN c[i] ELSE Hole]
    BY <1>2, <1>5 DEF Contents, Overwritten
  <2>2. k = n + m
    BY <1>1
  <2>3. t \in Seq(Chars)
    BY <1>3, ContentsTypes
  <2>4. Len(t) = n + m
    BY <1>1, <2>1, <2>2, <2>3
  <2>6. ASSUME NEW i \in 1..m
        PROVE  t[n + i] = data[i]
    <3>1. n + i \in 1..k /\ n + i \in (n + 1)..(n + m) /\ n + i - n = i
      BY <1>1, <2>2
    <3> DEFINE ch(j) == IF j \in (n + 1)..(n + m) THEN data[j - n]
                        ELSE IF j <= n THEN c[j] ELSE Hole
    <3>2. t = [j \in 1..k |-> ch(j)]
      BY <2>1
    <3>3. ch(n + i) = data[i]
      BY <3>1
    <3> HIDE DEF k, ch, t
    <3> QED
      BY <3>1, <3>2, <3>3
  <2>7. \A i \in 1..m : t[Len(t) - Len(data) + i] = data[i]
    <3>1. Len(t) - Len(data) = n
      BY <1>1, <2>4
    <3> QED
      BY <2>6, <3>1
  <2>8. m <= Len(t)
    BY <1>1, <2>4
  <2> HIDE DEF t
  <2>5. IsSuffix(data, t)
    BY <2>3, <2>7, <2>8, SuffixIs
  <2> QED
    BY <2>5 DEF t, at
<1> QED
  BY <1>4, <1>5

\* What a call leaves in outcome, by what it was.
LEMMA OutcomeIs ==
  ASSUME StreamsInv, [Next]_vars
  PROVE  \/ UNCHANGED <<outcome, files, streams>>
         \/ outcome'.call \in {"none", "threw"}
         \/ \E s \in 1..Len(streams), data \in Data : Open(s) /\ AppendStream(s, data)
         \/ \E s \in 1..Len(streams) : Open(s) /\ (SizeOfStream(s) \/ ReadEntireFile(s))
         \/ EndLine
         \/ EndLines /\ Done(task.lines)
<1>0. DOMAIN streams = 1..Len(streams)
  BY DEF StreamsInv, StreamsOK
<1>1. CASE Calls
  <2>1. ASSUME NEW path \in Paths, NEW how \in {"new", "with", "encoding"},
               Construct(path, how)
        PROVE  outcome'.call \in {"none", "threw"}
    BY <2>1 DEF Construct, Throws, Returned, Nothing
  <2>2. ASSUME NEW threw \in BOOLEAN, WithEnds(threw)
        PROVE  outcome'.call \in {"none", "threw"}
    BY <2>2 DEF WithEnds, Throws, Returned, Nothing
  <2>3. ASSUME NEW s \in 1..Len(streams), Close(s)
        PROVE  outcome'.call \in {"none", "threw"}
    BY <2>3 DEF Close, Throws, Returned, Nothing
  <2>4. ASSUME NEW s \in 1..Len(streams), NEW entry, NEW result, OnStream(s, entry, result)
        PROVE  IF Open(s) THEN outcome' = result ELSE outcome'.call = "threw"
    BY <2>4 DEF OnStream, Throws
  <2>5. ASSUME NEW s \in 1..Len(streams),
               \/ \E offset \in -1..1, whence \in {"set", "cur", "end"} :
                    SeekStream(s, offset, whence)
               \/ TellStream(s)
               \/ \E n \in 1..2 : ReadStream(s, n)
               \/ \E data \in Data : WriteStream(s, data)
        PROVE  outcome'.call \in {"none", "threw"}
    <3>1. \E entry : OnStream(s, entry, Nothing)
      BY <2>5 DEF SeekStream, TellStream, ReadStream, WriteStream, WriteTo
    <3> QED
      BY <2>4, <3>1 DEF Nothing
  <2>6. ASSUME NEW s \in 1..Len(streams), ~Open(s),
               \/ \E data \in Data : AppendStream(s, data)
               \/ SizeOfStream(s)
               \/ ReadEntireFile(s)
        PROVE  outcome'.call \in {"none", "threw"}
    <3>1. \E entry, result : OnStream(s, entry, result)
      <4>1. ASSUME NEW data \in Data, AppendStream(s, data)
            PROVE  \E entry, result : OnStream(s, entry, result)
        BY <4>1 DEF AppendStream, WriteTo
      <4>2. CASE SizeOfStream(s)
        BY <4>2 DEF SizeOfStream
      <4>3. CASE ReadEntireFile(s)
        BY <4>3 DEF ReadEntireFile
      <4> QED
        BY <2>6, <4>1, <4>2, <4>3
    <3> QED
      BY <2>4, <2>6, <3>1
  <2>7. ASSUME NEW s \in 1..Len(streams), NEW call \in {"line", "lines"}, ReadLine(s, call)
        PROVE  outcome'.call \in {"none", "threw"}
    BY <2>7 DEF ReadLine, Throws, Nothing
  <2> QED
    BY <1>0, <1>1, <2>1, <2>2, <2>3, <2>5, <2>6, <2>7 DEF Calls, StreamCall
<1>2. CASE Reads
  BY <1>2 DEF Reads, ReadingStep, ReadChunk, EndLines
<1>3. CASE Yield
  BY <1>3 DEF Yield, Nothing
<1>4. CASE WakesOther \/ Runs \/ UNCHANGED vars
  BY <1>4 DEF WakesOther, Runs, vars, streamVars
<1> QED
  BY <1>1, <1>2, <1>3, <1>4 DEF Next

\* What a step does to what append has promised.
LEMMA AppendKeeps ==
  ASSUME StreamsInv, AppendArrives, [Next]_vars
  PROVE  AppendArrives'
<1>1. CASE UNCHANGED <<outcome, files, streams>>
  BY <1>1 DEF AppendArrives
<1>2. CASE outcome'.call # "append"
  BY <1>2 DEF AppendArrives
<1>3. ASSUME NEW s \in 1..Len(streams), NEW data \in Data, Open(s), AppendStream(s, data)
      PROVE  AppendArrives'
  <2> PICK e, path, text :
        e = Seek(Entry(s), 0, "end") /\ path = streams[s].path /\ text = Passed(data)
    OBVIOUS
  <2>1. Fits(Entry(s)) /\ Entry(s).path = path /\ path \in DOMAIN files /\ FilesOK
    BY <1>3, OpenFits DEF StreamsInv
  <2>2. e.path = path
    BY <2>1, SeekEnd
  <2>3. /\ outcome' = [call |-> "append", of |-> s, value |-> data]
        /\ files' = [files EXCEPT ![e.path] = Contents(e, text)]
        /\ streams' = streams
    BY <1>3 DEF AppendStream, WriteTo, OnStream
  <2>4. text \in Seq(Chars)
    BY DataTypes
  <2>5. IsSuffix(text, Contents(e, text))
    BY <2>1, <2>4, AppendedContents
  <2>6. files'[path] = Contents(e, text)
    BY <2>1, <2>2, <2>3
  <2>7. outcome'.of = s /\ outcome'.value = data /\ streams'[s].path = path
    BY <2>3
  <2>8. data.offset = 0 => Given(data) = text
    BY WholeView
  <2> QED
    BY <2>5, <2>6, <2>7, <2>8 DEF AppendArrives
<1>4. CASE EndLine \/ (EndLines /\ Done(task.lines))
  <2>1. outcome'.call = task.call /\ task.call # "append"
    BY <1>4 DEF EndLine, EndLines, Done, StreamsInv, TaskOn, Reading
  <2> QED
    BY <1>2, <2>1
<1>5. ASSUME NEW s \in 1..Len(streams), Open(s), SizeOfStream(s) \/ ReadEntireFile(s)
      PROVE  outcome'.call # "append"
  BY <1>5 DEF SizeOfStream, ReadEntireFile, OnStream
<1> QED
  BY <1>1, <1>2, <1>3, <1>4, <1>5, OutcomeIs

\* What was appended is there, for files of any contents, buffers of any size
\* and calls in any order, if the Uint8Array begins where its buffer does
\* (io.ts:281, 285-300).
THEOREM AppendsArrive == Spec => []AppendArrives
<1>1. Init => AppendArrives
  BY DEF Init, StreamsInit, AppendArrives, Nothing
<1>2. StreamsInv /\ AppendArrives /\ [Next]_vars => AppendArrives'
  BY AppendKeeps
<1> QED
  BY <1>1, <1>2, StreamsCorrect, PTL DEF Spec

-----------------------------------------------------------------------------
(* Lines: c is the contents of a file, b where a line begins.              *)

IsPart(x, c, b, n) == Len(x) = n - b /\ \A i \in 1..(n - b) : x[i] = c[b + i]
NoBreak(c, b, n) == \A i \in (b + 1)..n : c[i] # NewLine

\* x is the line from b on, and n where the next one begins.
LineIs(x, c, b, n) ==
  \/ /\ b < n /\ n <= Len(c) /\ c[n] = NewLine
     /\ IsPart(x, c, b, n - 1) /\ NoBreak(c, b, n - 1)
  \/ /\ n = IF b > Len(c) THEN b ELSE Len(c)
     /\ IsPart(x, c, b, n) /\ NoBreak(c, b, n)

\* What readLines has so far, when it began at `from' and has come to b.
LinesSoFar(lines, c, from, b) ==
  /\ AreLines(lines, SubSeq(c, from + 1, b))
  /\ b > from => b <= Len(c) /\ (c[b] = NewLine \/ b = Len(c))

\* Sequences of characters are equal when their characters are.
LEMMA SameText ==
  ASSUME NEW x \in Seq(Chars), NEW y \in Seq(Chars), Len(x) = Len(y),
         \A i \in 1..Len(x) : x[i] = y[i]
  PROVE  x = y
  OBVIOUS

\* A part of a text by its bounds, empty ones too.
LEMMA PartOf ==
  ASSUME NEW c \in Seq(Chars), NEW a \in Nat, NEW b \in Nat, b <= a \/ b <= Len(c)
  PROVE  /\ SubSeq(c, a + 1, b) \in Seq(Chars)
         /\ b <= a => SubSeq(c, a + 1, b) = <<>>
         /\ a <= b => Len(SubSeq(c, a + 1, b)) = b - a
         /\ \A i \in 1..(b - a) : a + i \in 1..Len(c) /\ SubSeq(c, a + 1, b)[i] = c[a + i]
<1>1. CASE b <= a
  <2>1. a + 1 \in Int /\ b < a + 1 /\ 1..(b - a) = {}
    BY <1>1
  <2>2. SubSeq(c, a + 1, b) = <<>>
    BY <2>1
  <2>3. <<>> \in Seq(Chars) /\ Len(<<>>) = 0 /\ (a <= b => b - a = 0)
    BY <1>1
  <2> QED
    BY <2>1, <2>2, <2>3
<1>2. CASE ~(b <= a)
  <2>1. a <= b /\ b <= Len(c)
    BY <1>2
  <2> QED
    BY <1>2, <2>1, Part
<1> QED
  BY <1>1, <1>2

\* The ends of the lines of a text.
LEMMA EndsAre ==
  ASSUME NEW t \in Seq(Chars), NEW e
  PROVE  e \in LineEnds(t) <=>
           \/ e \in 1..Len(t) /\ t[e] = NewLine
           \/ Len(t) > 0 /\ t[Len(t)] # NewLine /\ e = Len(t) + 1
<1>1. t # <<>> <=> Len(t) > 0
  OBVIOUS
<1>2. Last(t) = t[Len(t)]
  BY DEF Last
<1> QED
  BY <1>1, <1>2 DEF LineEnds

\* An empty line stays one.
LEMMA ChompNothing == Chomp(<<>>) = <<>>
  BY DEF Chomp

\* The line that begins at b is the first of what is behind b.
LEMMA FirstLine ==
  ASSUME NEW c \in Seq(Chars), NEW b \in Nat, NEW n \in Nat, NEW x \in Seq(Chars),
         LineIs(x, c, b, n)
  PROVE  IsFirstLine(Chomp(x), SubSeq(c, b + 1, Len(c)))
<1> DEFINE r == SubSeq(c, b + 1, Len(c))
<1>0. Len(c) \in Nat
  OBVIOUS
<1>1. /\ r \in Seq(Chars)
      /\ Len(c) <= b => r = <<>>
      /\ b <= Len(c) => Len(r) = Len(c) - b
      /\ \A i \in 1..(Len(c) - b) : b + i \in 1..Len(c) /\ r[i] = c[b + i]
  BY <1>0, PartOf
<1> HIDE DEF r
<1>2. CASE b >= Len(c)
  <2>1. Len(x) = 0
    BY <1>0, <1>2 DEF LineIs, IsPart
  <2>2. x = <<>>
    BY <2>1
  <2> QED
    BY <1>0, <1>1, <1>2, <2>2, ChompNothing DEF IsFirstLine, r
<1>3. ASSUME b < Len(c), NEW e \in Nat, e \in LineEnds(r),
             IsPart(x, c, b, b + e - 1), NoBreak(c, b, b + e - 1)
      PROVE  IsFirstLine(Chomp(x), r)
  <2>1. Len(r) = Len(c) - b /\ Len(r) > 0 /\ r # <<>>
    BY <1>0, <1>1, <1>3
  <2>2. e \in 1..(Len(r) + 1)
    BY <1>1, <1>3, <2>1, EndsAre
  <2>3. ASSUME NEW d \in LineEnds(r)
        PROVE  e <= d
    <3>1. CASE d \in 1..Len(r) /\ r[d] = NewLine
      <4>1. b + d \in 1..Len(c) /\ c[b + d] = NewLine
        BY <1>1, <2>1, <3>1
      <4>2. ~(b + d \in (b + 1)..(b + e - 1))
        BY <1>3, <4>1 DEF NoBreak
      <4> QED
        BY <1>3, <3>1, <4>2
    <3>2. CASE d = Len(r) + 1
      BY <2>2, <3>2
    <3> QED
      BY <1>1, <3>1, <3>2, EndsAre
  <2>4. SubSeq(r, 1, e - 1) = x
    <3>1. e - 1 \in Nat /\ e - 1 <= Len(r)
      BY <2>1, <2>2
    <3>2. /\ SubSeq(r, 0 + 1, e - 1) \in Seq(Chars)
          /\ Len(SubSeq(r, 0 + 1, e - 1)) = e - 1 - 0
          /\ \A i \in 1..(e - 1 - 0) : SubSeq(r, 0 + 1, e - 1)[i] = r[0 + i]
      BY <1>1, <3>1, Part
    <3> DEFINE y == SubSeq(r, 1, e - 1)
    <3>3. y \in Seq(Chars) /\ Len(y) = e - 1 /\ \A i \in 1..(e - 1) : y[i] = r[i]
      BY <3>1, <3>2
    <3> HIDE DEF y
    <3>4. Len(x) = e - 1 /\ \A i \in 1..(e - 1) : x[i] = c[b + i]
      BY <1>3 DEF IsPart
    <3>5. \A i \in 1..(e - 1) : r[i] = c[b + i]
      BY <1>1, <2>1, <3>1
    <3> QED
      BY <3>3, <3>4, <3>5, SameText DEF y
  <2> QED
    BY <1>3, <2>1, <2>3, <2>4 DEF IsFirstLine
<1>4. CASE b < Len(c) /\ b < n /\ n <= Len(c) /\ c[n] = NewLine
           /\ IsPart(x, c, b, n - 1) /\ NoBreak(c, b, n - 1)
  <2>1. n - b \in Nat /\ n - b \in 1..(Len(c) - b) /\ b + (n - b) = n
        /\ b + (n - b) - 1 = n - 1
    BY <1>0, <1>4
  <2>2. n - b \in 1..Len(r) /\ r[n - b] = NewLine
    BY <1>0, <1>1, <1>4, <2>1
  <2>3. n - b \in LineEnds(r)
    BY <1>1, <2>2, EndsAre
  <2> QED
    BY <1>3, <1>4, <2>1, <2>3 DEF r
<1>5. CASE b < Len(c) /\ n = Len(c) /\ IsPart(x, c, b, n) /\ NoBreak(c, b, n)
  <2>1. Len(r) = Len(c) - b /\ Len(r) > 0 /\ Len(r) \in Nat /\ b + (Len(r) + 1) - 1 = n
        /\ b + Len(r) = n
    BY <1>0, <1>1, <1>5
  <2>2. r[Len(r)] # NewLine
    BY <1>0, <1>1, <1>5, <2>1 DEF NoBreak
  <2>3. Len(r) + 1 \in LineEnds(r) /\ Len(r) + 1 \in Nat
    BY <1>1, <2>1, <2>2, EndsAre
  <2> QED
    BY <1>3, <1>5, <2>1, <2>3 DEF r
<1> QED
  <2>1. b >= Len(c) \/ b < Len(c)
    BY <1>0
  <2>2. ASSUME b < Len(c)
        PROVE  (IF b > Len(c) THEN b ELSE Len(c)) = Len(c)
    BY <1>0, <2>2
  <2> QED
    BY <1>2, <1>4, <1>5, <2>1, <2>2 DEF LineIs, r

\* A text that has the characters of a part is that part.
LEMMA PartIs ==
  ASSUME NEW u \in Seq(Chars), NEW p \in Nat, NEW q \in Nat, p <= q, q <= Len(u),
         NEW x \in Seq(Chars), Len(x) = q - p, \A i \in 1..(q - p) : x[i] = u[p + i]
  PROVE  SubSeq(u, p + 1, q) = x
<1> DEFINE y == SubSeq(u, p + 1, q)
<1>1. y \in Seq(Chars) /\ Len(y) = q - p /\ \A i \in 1..(q - p) : y[i] = u[p + i]
  BY Part
<1> HIDE DEF y
<1> QED
  BY <1>1, SameText DEF y

\* No line was read yet.
LEMMA NoLines ==
  ASSUME NEW c \in Seq(Chars), NEW f \in Nat
  PROVE  LinesSoFar(<<>>, c, f, f)
<1>1. SubSeq(c, f + 1, f) = <<>>
  BY PartOf
<1>2. LineEnds(<<>>) = {}
  BY DEF LineEnds
<1>3. [k \in 1..0 |-> 0] \in [1..0 -> LineEnds(<<>>)]
  OBVIOUS
<1>4. AreLines(<<>>, <<>>)
  <2>1. Len(<<>>) = 0 /\ 1..0 = {}
    OBVIOUS
  <2> QED
    BY <1>2, <1>3, <2>1 DEF AreLines
<1> QED
  <2>1. ~(f > f)
    OBVIOUS
  <2> QED
    BY <1>1, <1>4, <2>1, Zenon DEF LinesSoFar

\* Where the line before the k-th ended.
Before(end, k) == IF k = 1 THEN 0 ELSE end[k - 1]

\* The lines are what is between the ends of the lines of a text.
Cuts(end, lines, text) ==
  /\ end \in [1..Len(lines) -> LineEnds(text)]
  /\ \A d \in LineEnds(text) : \E k \in 1..Len(lines) : end[k] = d
  /\ \A k \in 1..Len(lines) :
       /\ Before(end, k) < end[k]
       /\ lines[k] = Chomp(SubSeq(text, Before(end, k) + 1, end[k] - 1))

\* It is enough to know the ends and what is between them.
LEMMA LinesAre ==
  ASSUME NEW all, NEW u, NEW end, Cuts(end, all, u)
  PROVE  AreLines(all, u)
<1>1. /\ end \in [1..Len(all) -> LineEnds(u)]
      /\ \A d \in LineEnds(u) : \E k \in 1..Len(all) : end[k] = d
      /\ \A k \in 1..Len(all) :
           LET before == IF k = 1 THEN 0 ELSE end[k - 1] IN
           before < end[k] /\ all[k] = Chomp(SubSeq(u, before + 1, end[k] - 1))
  BY DEF Before, Cuts
<1> SUFFICES \E en \in [1..Len(all) -> LineEnds(u)] :
    /\ \A e \in LineEnds(u) : \E k \in 1..Len(all) : en[k] = e
    /\ \A k \in 1..Len(all) :
         LET before == IF k = 1 THEN 0 ELSE en[k - 1] IN
         before < en[k] /\ all[k] = Chomp(SubSeq(u, before + 1, en[k] - 1))
  BY Zenon DEF AreLines
<1> QED
  BY <1>1

\* A line more.
LEMMA NextLine ==
  ASSUME NEW c \in Seq(Chars), NEW f \in Nat, NEW b \in Nat, NEW n \in Nat,
         NEW x \in Seq(Chars), NEW lines \in Seq(Seq(Chars)),
         f <= b, b < n, n <= Len(c), LineIs(x, c, b, n), LinesSoFar(lines, c, f, b)
  PROVE  LinesSoFar(Append(lines, Chomp(x)), c, f, n)
<1> DEFINE t == SubSeq(c, f + 1, b)
           u == SubSeq(c, f + 1, n)
           L == Len(lines)
           e == IF c[n] = NewLine THEN n - f ELSE n - f + 1
<1>0. Len(c) \in Nat /\ L \in Nat /\ b < Len(c)
  BY lines \in Seq(Seq(Chars))
<1>1. /\ t \in Seq(Chars) /\ Len(t) = b - f
      /\ \A i \in 1..(b - f) : t[i] = c[f + i]
  BY <1>0, PartOf
<1>2. /\ u \in Seq(Chars) /\ Len(u) = n - f
      /\ \A i \in 1..(n - f) : u[i] = c[f + i]
  BY <1>0, PartOf
<1>3. AreLines(lines, t) /\ (b > f => c[b] = NewLine)
  BY <1>0 DEF LinesSoFar
<1> HIDE DEF t, u
<1>4. /\ e \in Nat /\ b - f < e /\ e <= n - f + 1
      /\ IsPart(x, c, b, f + e - 1) /\ NoBreak(c, b, f + e - 1)
  <2>1. CASE c[n] = NewLine /\ IsPart(x, c, b, n - 1) /\ NoBreak(c, b, n - 1)
    <3>1. f + e - 1 = n - 1 /\ e = n - f
      BY <2>1
    <3> QED
      BY <2>1, <3>1
  <2>2. CASE n = Len(c) /\ IsPart(x, c, b, n) /\ NoBreak(c, b, n)
    <3>1. n \in (b + 1)..n
      OBVIOUS
    <3>2. c[n] # NewLine
      BY <2>2, <3>1 DEF NoBreak
    <3>3. f + e - 1 = n /\ e = n - f + 1
      BY <3>2
    <3> QED
      BY <2>2, <3>3
  <2> QED
    BY <1>0, <2>1, <2>2 DEF LineIs
<1>5. e \in LineEnds(u)
  <2>1. CASE c[n] = NewLine
    <3>1. e = n - f /\ e \in 1..Len(u) /\ f + e = n
      BY <1>2, <2>1
    <3>2. u[e] = NewLine
      BY <1>2, <2>1, <3>1
    <3> QED
      BY <1>2, <3>1, <3>2, EndsAre
  <2>2. CASE c[n] # NewLine
    <3>1. e = Len(u) + 1 /\ Len(u) \in 1..(n - f) /\ f + Len(u) = n
      BY <1>2, <2>2
    <3>2. u[Len(u)] # NewLine /\ Len(u) > 0
      BY <1>2, <2>2, <3>1
    <3> QED
      BY <1>2, <3>1, <3>2, EndsAre
  <2> QED
    BY <2>1, <2>2
<1>6. \A d : d \in LineEnds(t) => d \in 1..(b - f) /\ d \in LineEnds(u)
  <2> SUFFICES ASSUME NEW d, d \in LineEnds(t)
               PROVE  d \in 1..(b - f) /\ d \in LineEnds(u)
    OBVIOUS
  <2>1. ~(Len(t) > 0 /\ t[Len(t)] # NewLine)
    <3>1. ASSUME Len(t) > 0 PROVE t[Len(t)] = NewLine
      <4>1. b > f /\ Len(t) \in 1..(b - f) /\ f + Len(t) = b
        BY <1>1, <3>1
      <4> QED
        BY <1>1, <1>3, <4>1
    <3> QED
      BY <3>1
  <2>2. d \in 1..Len(t) /\ t[d] = NewLine
    BY <1>1, <2>1, EndsAre
  <2>3. d \in 1..Len(u) /\ u[d] = NewLine
    BY <1>1, <1>2, <2>2
  <2> QED
    BY <1>1, <1>2, <2>2, <2>3, EndsAre
<1>7. ASSUME NEW d, d \in LineEnds(u), d # e
      PROVE  d \in LineEnds(t)
  <2>1. d \in 1..Len(u) /\ u[d] = NewLine
    <3>1. CASE Len(u) > 0 /\ u[Len(u)] # NewLine /\ d = Len(u) + 1
      <4>1. Len(u) \in 1..(n - f) /\ f + Len(u) = n
        BY <1>2, <3>1
      <4>2. c[n] # NewLine
        BY <1>2, <3>1, <4>1
      <4> QED
        BY <1>2, <1>7, <3>1, <4>2
    <3> QED
      BY <1>2, <1>7, <3>1, EndsAre
  <2>2. c[f + d] = NewLine /\ d \in 1..(n - f)
    BY <1>2, <2>1
  <2>3. ~(f + d \in (b + 1)..(f + e - 1))
    BY <1>4, <2>2 DEF NoBreak
  <2>4. d <= b - f
    BY <1>4, <1>7, <2>2, <2>3
  <2>5. d \in 1..Len(t) /\ t[d] = NewLine
    BY <1>1, <2>2, <2>4
  <2> QED
    BY <1>1, <2>5, EndsAre
<1>8. SubSeq(u, b - f + 1, e - 1) = x
  <2> HIDE DEF e
  <2>1. b - f \in Nat /\ e - 1 \in Nat /\ b - f <= e - 1 /\ e - 1 <= Len(u)
    BY <1>2, <1>4
  <2>3. Len(x) = e - 1 - (b - f) /\ \A i \in 1..(e - 1 - (b - f)) : x[i] = c[b + i]
    <3>1. f + e - 1 - b = e - 1 - (b - f)
      BY <1>4
    <3> QED
      BY <1>4, <3>1 DEF IsPart
  <2>4. \A i \in 1..(e - 1 - (b - f)) : u[b - f + i] = c[b + i]
    <3>1. ASSUME NEW i \in 1..(e - 1 - (b - f))
          PROVE  b - f + i \in 1..(n - f) /\ f + (b - f + i) = b + i
      BY <1>4, <2>1, <1>2, SMTT(30)
    <3> QED
      BY <1>2, <3>1
  <2>5. \A i \in 1..(e - 1 - (b - f)) : x[i] = u[b - f + i]
    BY <2>3, <2>4
  <2> QED
    BY <1>2, <2>1, <2>3, <2>5, PartIs, SMTT(30)
<1>9. ASSUME NEW a \in Nat, NEW d \in 1..(b - f), a < d
      PROVE  SubSeq(t, a + 1, d - 1) = SubSeq(u, a + 1, d - 1)
  <2>1. d - 1 \in Nat /\ a <= d - 1 /\ d - 1 <= Len(t) /\ d - 1 <= Len(u)
    BY <1>1, <1>2, <1>9
  <2>2. /\ SubSeq(u, a + 1, d - 1) \in Seq(Chars) /\ Len(SubSeq(u, a + 1, d - 1)) = d - 1 - a
        /\ \A i \in 1..(d - 1 - a) : SubSeq(u, a + 1, d - 1)[i] = u[a + i]
    BY <1>2, <2>1, Part
  <2>3. /\ SubSeq(t, a + 1, d - 1) \in Seq(Chars) /\ Len(SubSeq(t, a + 1, d - 1)) = d - 1 - a
        /\ \A i \in 1..(d - 1 - a) : SubSeq(t, a + 1, d - 1)[i] = t[a + i]
    BY <1>1, <2>1, Part
  <2>4. \A i \in 1..(d - 1 - a) : t[a + i] = u[a + i]
    <3>1. ASSUME NEW i \in 1..(d - 1 - a)
          PROVE  a + i \in 1..(b - f) /\ a + i \in 1..(n - f)
      BY <1>9
    <3> QED
      BY <1>1, <1>2, <3>1
  <2> DEFINE y == SubSeq(t, a + 1, d - 1)
             z == SubSeq(u, a + 1, d - 1)
  <2>5. y \in Seq(Chars) /\ z \in Seq(Chars) /\ Len(y) = Len(z) /\ \A i \in 1..Len(y) : y[i] = z[i]
    BY <2>2, <2>3, <2>4
  <2> HIDE DEF y, z
  <2>6. y = z
    BY <2>5, SameText
  <2> QED
    BY <2>6 DEF y, z
<1>h HIDE DEF e, L
<1>10. PICK end \in [1..L -> LineEnds(t)] :
         /\ \A d \in LineEnds(t) : \E k \in 1..L : end[k] = d
         /\ \A k \in 1..L :
              LET before == IF k = 1 THEN 0 ELSE end[k - 1] IN
              before < end[k] /\ lines[k] = Chomp(SubSeq(t, before + 1, end[k] - 1))
  BY <1>3, Zenon DEF AreLines, L
<1>11. \A k \in 1..L : end[k] \in LineEnds(t) /\ end[k] \in 1..(b - f)
  BY <1>6
<1>12. (IF L + 1 = 1 THEN 0 ELSE end[L]) = b - f
  <2>1. CASE L = 0
    <3>1. \A d : d \notin LineEnds(t)
      BY <1>10, <2>1
    <3>2. ~(b > f)
      <4>1. ASSUME b > f PROVE b - f \in LineEnds(t)
        <5>1. Len(t) \in 1..Len(t) /\ b - f \in 1..(b - f) /\ f + (b - f) = b
          BY <1>1, <4>1
        <5>2. t[b - f] = NewLine
          BY <1>1, <1>3, <4>1, <5>1
        <5> QED
          BY <1>1, <5>1, <5>2, EndsAre
      <4> QED
        BY <3>1, <4>1
    <3> QED
      BY <2>1, <3>2
  <2>2. CASE L > 0
    <3>1. L \in 1..L /\ end[L] \in 1..(b - f) /\ b - f > 0
      BY <1>0, <1>11, <2>2 DEF L
    <3>2. b - f \in LineEnds(t)
      <4>1. b > f /\ Len(t) \in 1..Len(t) /\ b - f \in 1..(b - f) /\ f + (b - f) = b
        BY <1>1, <3>1
      <4>2. t[b - f] = NewLine
        BY <1>1, <1>3, <4>1
      <4> QED
        BY <1>1, <4>1, <4>2, EndsAre
    <3>3. PICK k \in 1..L : end[k] = b - f
      BY <1>10, <3>2
    <3>4. k = L
      <4>1. ASSUME k # L PROVE FALSE
        <5>1. k + 1 \in 1..L /\ k + 1 # 1 /\ k + 1 - 1 = k
          BY <1>0, <4>1 DEF L
        <5>2. end[k] < end[k + 1]
          BY <1>10, <5>1
        <5> QED
          BY <1>11, <3>3, <5>1, <5>2
      <4> QED
        BY <4>1
    <3> QED
      BY <2>2, <3>3, <3>4
  <2> QED
    BY <1>0, <2>1, <2>2 DEF L
<1> DEFINE all == Append(lines, Chomp(x))
           ends == [k \in 1..(L + 1) |-> IF k = L + 1 THEN e ELSE end[k]]
<1>13. /\ Len(all) = L + 1 /\ all[L + 1] = Chomp(x)
       /\ \A k \in 1..L : all[k] = lines[k]
  <2>1. Chomp(x) \in Seq(Chars)
    BY Chomped
  <2> QED
    BY <2>1 DEF L
<1>14. ends \in [1..(L + 1) -> LineEnds(u)]
  BY <1>0, <1>5, <1>6, <1>11 DEF L
<1>15. \A d \in LineEnds(u) : \E k \in 1..(L + 1) : ends[k] = d
  <2> SUFFICES ASSUME NEW d \in LineEnds(u) PROVE \E k \in 1..(L + 1) : ends[k] = d
    OBVIOUS
  <2>1. CASE d = e
    <3>1. L + 1 \in 1..(L + 1)
      BY <1>0 DEF L
    <3> QED
      BY <2>1, <3>1
  <2>2. CASE d # e
    <3>1. PICK k \in 1..L : end[k] = d
      BY <1>7, <1>10, <2>2
    <3>2. k \in 1..(L + 1) /\ k # L + 1
      BY <1>0 DEF L
    <3> QED
      BY <3>1, <3>2
  <2> QED
    BY <2>1, <2>2
<1>16. ASSUME NEW k \in 1..(L + 1)
       PROVE  /\ Before(ends, k) < ends[k]
              /\ all[k] = Chomp(SubSeq(u, Before(ends, k) + 1, ends[k] - 1))
  <2>1. CASE k = L + 1
    <3>1. ends[k] = e /\ all[k] = Chomp(x)
      BY <1>13, <2>1
    <3>2. Before(ends, k) = b - f
      <4>1. CASE L = 0
        BY <1>12, <2>1, <4>1 DEF Before
      <4>2. CASE L > 0
        <5>1. k # 1 /\ k - 1 = L /\ L \in 1..(L + 1) /\ L # L + 1
          BY <1>0, <2>1, <4>2 DEF L
        <5>2. ends[L] = end[L] /\ L + 1 # 1
          BY <2>1, <5>1
        <5> QED
          BY <1>12, <5>1, <5>2 DEF Before
      <4> QED
        BY <1>0, <4>1, <4>2 DEF L
    <3> HIDE DEF ends
    <3> QED
      BY <1>4, <1>8, <3>1, <3>2
  <2>2. CASE k # L + 1
    <3>1. k \in 1..L
      BY <1>0, <2>2 DEF L
    <3>2. ends[k] = end[k] /\ all[k] = lines[k]
      BY <1>13, <2>2, <3>1
    <3>3. Before(ends, k) = Before(end, k)
      <4>1. CASE k = 1
        BY <4>1 DEF Before
      <4>2. CASE k # 1
        <5>1. k - 1 \in 1..(L + 1) /\ k - 1 # L + 1
          BY <1>0, <3>1, <4>2 DEF L
        <5> QED
          BY <4>2, <5>1 DEF Before
      <4> QED
        BY <4>1, <4>2
    <3> DEFINE a == Before(end, k)
    <3>4. a < end[k] /\ lines[k] = Chomp(SubSeq(t, a + 1, end[k] - 1))
      BY <1>10, <3>1 DEF Before
    <3>5. a \in Nat
      <4>1. CASE k = 1
        BY <4>1 DEF Before
      <4>2. CASE k # 1
        <5>1. k - 1 \in 1..L
          BY <1>0, <3>1, <4>2 DEF L
        <5> QED
          BY <1>11, <4>2, <5>1 DEF Before
      <4> QED
        BY <4>1, <4>2
    <3>6. Before(ends, k) = a
      BY <3>3
    <3> HIDE DEF a, ends
    <3>7. SubSeq(t, a + 1, end[k] - 1) = SubSeq(u, a + 1, end[k] - 1)
      BY <1>9, <1>11, <3>1, <3>4, <3>5
    <3> QED
      BY <3>2, <3>4, <3>6, <3>7
  <2> QED
    BY <2>1, <2>2
<1> HIDE DEF ends, all
<1>17. AreLines(all, u)
  <2>1. ends \in [1..Len(all) -> LineEnds(u)]
    BY <1>13, <1>14
  <2>2. \A d \in LineEnds(u) : \E k \in 1..Len(all) : ends[k] = d
    BY <1>13, <1>15
  <2>3. \A k \in 1..Len(all) :
          /\ Before(ends, k) < ends[k]
          /\ all[k] = Chomp(SubSeq(u, Before(ends, k) + 1, ends[k] - 1))
    BY <1>13, <1>16
  <2>4. Cuts(ends, all, u)
    BY <2>1, <2>2, <2>3, Zenon DEF Cuts
  <2> QED
    BY <2>4, LinesAre, Zenon
<1>18. n > f => n <= Len(c) /\ (c[n] = NewLine \/ n = Len(c))
  BY <1>0 DEF LineIs
<1> QED
  BY <1>17, <1>18 DEF LinesSoFar, all, u

-----------------------------------------------------------------------------
(* A line-reading call in progress.                                        *)

\* What is known of a call tk on a stream with entry e and contents c: the
\* line it is at began at tk.last, and tk.text is what there was up to e.pos.
Underway(tk, c, e) ==
  /\ tk.last \in Nat /\ tk.from <= tk.last /\ tk.last <= e.pos
  /\ tk.failed => tk.call = "line" /\ tk.text = <<>> /\ (tk.more => e.fail)
  /\ ~tk.failed /\ tk.more =>
       /\ ~e.fail /\ (e.pos <= Len(c) \/ e.pos = tk.last)
       /\ IsPart(tk.text, c, tk.last, e.pos) /\ NoBreak(c, tk.last, e.pos)
  /\ ~tk.failed /\ ~tk.more => LineIs(tk.text, c, tk.last, e.pos)
  /\ tk.call = "line" => tk.last = tk.from
  /\ tk.call = "lines" => LinesSoFar(tk.lines, c, tk.from, tk.last)

TaskOK == task # Idle => Underway(task, files[streams[task.of].path], Entry(task.of))

\* Two texts, one behind the other.
LEMMA Behind ==
  ASSUME NEW x \in Seq(Chars), NEW y \in Seq(Chars)
  PROVE  /\ x \o y \in Seq(Chars)
         /\ Len(x \o y) = Len(x) + Len(y)
         /\ \A i \in 1..Len(x) : (x \o y)[i] = x[i]
         /\ \A i \in 1..Len(y) : (x \o y)[Len(x) + i] = y[i]
<1>1. x \o y \in Seq(Chars)
  OBVIOUS
<1>2. Len(x \o y) = Len(x) + Len(y)
  OBVIOUS
<1>3. \A i \in 1..Len(x) : (x \o y)[i] = x[i]
  OBVIOUS
<1>4. \A i \in 1..Len(y) : (x \o y)[Len(x) + i] = y[i]
  OBVIOUS
<1> QED
  BY <1>1, <1>2, <1>3, <1>4

\* A part behind a part, neither with a newline in it.
LEMMA TextGrows ==
  ASSUME NEW c \in Seq(Chars), NEW b \in Nat, NEW p \in Nat, NEW q \in Nat, b <= p, p <= q,
         NEW x \in Seq(Chars), NEW y \in Seq(Chars), IsPart(x, c, b, p), IsPart(y, c, p, q),
         NoBreak(c, b, p), NoBreak(c, p, q)
  PROVE  IsPart(x \o y, c, b, q) /\ NoBreak(c, b, q)
<1>1. Len(x) = p - b /\ \A i \in 1..(p - b) : x[i] = c[b + i]
  BY DEF IsPart
<1>2. Len(y) = q - p /\ \A i \in 1..(q - p) : y[i] = c[p + i]
  BY DEF IsPart
<1>3. Len(x \o y) = q - b
  <2>1. Len(x \o y) = Len(x) + Len(y)
    BY Behind, Zenon
  <2>2. Len(x) + Len(y) = q - b
    BY <1>1, <1>2
  <2> QED
    BY <2>1, <2>2
<1>4. ASSUME NEW i \in 1..(q - b)
      PROVE  (x \o y)[i] = c[b + i]
  <2>1. CASE i \in 1..(p - b)
    <3>1. (x \o y)[i] = x[i]
      BY <1>1, <2>1, Behind
    <3> QED
      BY <1>1, <2>1, <3>1
  <2>2. CASE ~(i \in 1..(p - b))
    <3>1. i - (p - b) \in 1..(q - p) /\ p + (i - (p - b)) = b + i
          /\ (p - b) + (i - (p - b)) = i
      BY <2>2
    <3>2. (x \o y)[(p - b) + (i - (p - b))] = y[i - (p - b)]
      BY <1>1, <1>2, <3>1, Behind
    <3> QED
      BY <1>2, <3>1, <3>2
  <2> QED
    BY <2>1, <2>2
<1>5. NoBreak(c, b, q)
  <2> SUFFICES ASSUME NEW i \in (b + 1)..q PROVE c[i] # NewLine
    BY DEF NoBreak
  <2>1. CASE i \in (b + 1)..p
    BY <2>1 DEF NoBreak
  <2>2. CASE ~(i \in (b + 1)..p)
    <3>1. i \in (p + 1)..q
      BY <2>2
    <3> QED
      BY <3>1 DEF NoBreak
  <2> QED
    BY <2>1, <2>2
<1> QED
  BY <1>3, <1>4, <1>5 DEF IsPart

\* A line ends with the newline that is character `at' of a chunk.
LEMMA LineEndsInChunk ==
  ASSUME NEW c \in Seq(Chars), NEW b \in Nat, NEW p \in Nat, NEW g \in Nat, b <= p,
         p + g <= Len(c), NEW x \in Seq(Chars), IsPart(x, c, b, p), NoBreak(c, b, p),
         NEW chunk \in Seq(Chars), IsPart(chunk, c, p, p + g),
         NEW at \in 1..g, chunk[at] = NewLine, NoBreak(chunk, 0, at - 1)
  PROVE  /\ LineIs(x \o SubSeq(chunk, 1, at - 1), c, b, p + at)
         /\ b <= p + at /\ p + at \in Nat
<1> DEFINE y == SubSeq(chunk, 1, at - 1)
           q == p + at - 1
<1>0. Len(c) \in Nat
  OBVIOUS
<1>1. Len(chunk) = g /\ \A i \in 1..g : chunk[i] = c[p + i]
  BY DEF IsPart
<1>2. y \in Seq(Chars) /\ Len(y) = at - 1 /\ \A i \in 1..(at - 1) : y[i] = chunk[i]
  <2>1. at - 1 \in Nat /\ 0 <= at - 1 /\ at - 1 <= Len(chunk)
    BY <1>1
  <2>2. /\ SubSeq(chunk, 0 + 1, at - 1) \in Seq(Chars)
        /\ Len(SubSeq(chunk, 0 + 1, at - 1)) = at - 1 - 0
        /\ \A i \in 1..(at - 1 - 0) : SubSeq(chunk, 0 + 1, at - 1)[i] = chunk[0 + i]
    BY <2>1, Part
  <2> QED
    BY <2>1, <2>2
<1> HIDE DEF y
<1>3. q \in Nat /\ p <= q /\ q - p = at - 1 /\ q + 1 = p + at
  OBVIOUS
<1>4. IsPart(y, c, p, q)
  BY <1>1, <1>2, <1>3, SMTT(30) DEF IsPart
<1>5. NoBreak(c, p, q)
  <2> SUFFICES ASSUME NEW i \in (p + 1)..q PROVE c[i] # NewLine
    BY DEF NoBreak
  <2>1. i - p \in (0 + 1)..(at - 1) /\ i - p \in 1..g /\ p + (i - p) = i
    BY <1>3
  <2>2. chunk[i - p] # NewLine
    BY <2>1 DEF NoBreak
  <2> QED
    BY <1>1, <2>1, <2>2
<1> HIDE DEF q
<1>6. IsPart(x \o y, c, b, q) /\ NoBreak(c, b, q)
  BY <1>2, <1>3, <1>4, <1>5, TextGrows
<1>7. /\ p + at \in Nat /\ b < p + at /\ p + at <= Len(c) /\ p + at - 1 = q
      /\ c[p + at] = NewLine
  BY <1>0, <1>1, <1>3
<1>8. LineIs(x \o y, c, b, p + at)
  BY <1>6, <1>7 DEF LineIs
<1> QED
  BY <1>7, <1>8 DEF y

\* How much a chunk has, and where it ends.
LEMMA GotIs ==
  ASSUME NEW st \in FileEntry, files[st.path] \in Seq(Chars), NEW n \in Nat
  PROVE  /\ Got(st, n) \in 0..n
         /\ st.fail => Got(st, n) = 0
         /\ Got(st, n) > 0 => st.pos + Got(st, n) <= Len(files[st.path])
         /\ ~st.fail /\ Got(st, n) < n =>
              st.pos + Got(st, n) = IF st.pos > Len(files[st.path]) THEN st.pos
                                    ELSE Len(files[st.path])
         /\ Read(st, n) \in FileEntry /\ Read(st, n).path = st.path
         /\ Read(st, n).pos = st.pos + Got(st, n)
         /\ Read(st, n).fail <=> Got(st, n) < n
<1> DEFINE g == Got(st, n)
           size == Len(files[st.path])
<1>1. st.pos \in Nat /\ size \in Nat /\ Size(st) = size
  BY Fields DEF Size
<1>2. g = IF st.fail \/ st.pos >= size THEN 0
          ELSE IF n < size - st.pos THEN n ELSE size - st.pos
  BY <1>1 DEF Got
<1> HIDE DEF g, size
<1>3. /\ g \in 0..n
      /\ st.fail => g = 0
      /\ g > 0 => st.pos + g <= size
      /\ ~st.fail /\ g < n => st.pos + g = IF st.pos > size THEN st.pos ELSE size
  BY <1>1, <1>2
<1>4. st.pos + g \in Nat /\ (g < n) \in BOOLEAN
  BY <1>1, <1>3
<1>5. Read(st, n) = [st EXCEPT !.pos = st.pos + g, !.fail = g < n]
  BY DEF Read, g
<1>6. Read(st, n) = [path |-> st.path, pos |-> st.pos + g, fail |-> g < n]
  BY <1>4, <1>5, Moved
<1>7. /\ Read(st, n) \in FileEntry /\ Read(st, n).path = st.path
      /\ Read(st, n).pos = st.pos + g /\ (Read(st, n).fail <=> g < n)
  <2> PICK p, f : p = st.pos + g /\ f = (g < n)
    OBVIOUS
  <2>1. Read(st, n) = [path |-> st.path, pos |-> p, fail |-> f]
    BY <1>6
  <2>2. p \in Nat /\ f \in BOOLEAN /\ st.path \in Paths /\ (f <=> g < n)
    BY <1>4, Fields
  <2>3. Read(st, n) \in FileEntry
    BY <2>1, <2>2 DEF FileEntry
  <2> QED
    BY <2>1, <2>2, <2>3
<1> QED
  BY <1>3, <1>7 DEF g, size

\* A call begins where the stream is.
LEMMA Begun ==
  ASSUME NEW c \in Seq(Chars), NEW e \in FileEntry, NEW call \in {"line", "lines"}, NEW s,
         call = "lines" => ~e.fail, NEW tk,
         tk = [call |-> call, of |-> s, from |-> e.pos, failed |-> e.fail, last |-> e.pos,
               text |-> <<>>, lines |-> <<>>, more |-> TRUE]
  PROVE  Underway(tk, c, e)
<1>1. e.pos \in Nat /\ e.fail \in BOOLEAN
  BY Fields
<1>2. /\ tk.call = call /\ tk.from = e.pos /\ tk.last = e.pos /\ tk.text = <<>>
      /\ tk.lines = <<>>
  OBVIOUS
<1>3. (tk.failed <=> e.fail) /\ tk.more
  OBVIOUS
<1>4. IsPart(<<>>, c, e.pos, e.pos) /\ NoBreak(c, e.pos, e.pos)
  BY <1>1 DEF IsPart, NoBreak
<1>5. LinesSoFar(<<>>, c, e.pos, e.pos)
  BY <1>1, NoLines
<1>6. e.pos <= e.pos
  BY <1>1
<1> QED
  BY <1>1, <1>2, <1>3, <1>4, <1>5, <1>6, Zenon DEF Underway

\* readLines takes a line, and asks for the position again.
LEMMA Taken ==
  ASSUME NEW c \in Seq(Chars), NEW e \in FileEntry, NEW tk \in Reading, Underway(tk, c, e),
         tk.call = "lines", ~tk.more, ~(Chomp(tk.text) = <<>> /\ e.pos = tk.last), NEW new,
         new = [tk EXCEPT !.lines = Append(tk.lines, Chomp(tk.text)), !.last = e.pos,
                          !.text = <<>>, !.more = TRUE]
  PROVE  Underway(new, c, Tell(e))
<1>1. /\ tk.from \in Nat /\ tk.text \in Seq(Chars) /\ tk.lines \in Seq(Seq(Chars))
      /\ tk.last \in Nat /\ tk.from <= tk.last /\ tk.last <= e.pos /\ e.pos \in Nat
      /\ ~tk.failed
  BY Fields DEF Underway, Reading
<1>2. LineIs(tk.text, c, tk.last, e.pos) /\ LinesSoFar(tk.lines, c, tk.from, tk.last)
  BY <1>1, Zenon DEF Underway
<1> PICK n, b, f : n = e.pos /\ b = tk.last /\ f = tk.from
  OBVIOUS
<1>3. b < n /\ n <= Len(c)
  <2>1. n # b
    <3>1. ASSUME n = b PROVE FALSE
      <4>1. Len(tk.text) = 0
        BY <1>1, <1>2, <3>1 DEF LineIs, IsPart
      <4>2. tk.text = <<>>
        BY <1>1, <4>1
      <4> QED
        BY <3>1, <4>2, ChompNothing
    <3> QED
      BY <3>1
  <2>2. Len(c) \in Nat
    OBVIOUS
  <2> QED
    BY <1>1, <1>2, <2>1, <2>2 DEF LineIs
<1>4. LinesSoFar(Append(tk.lines, Chomp(tk.text)), c, f, n)
  BY <1>1, <1>2, <1>3, NextLine
<1> PICK lines : lines = Append(tk.lines, Chomp(tk.text))
  OBVIOUS
<1>5. /\ new.call = "lines" /\ new.from = f /\ new.last = n /\ new.text = <<>>
      /\ new.lines = lines
  BY DEF Reading
<1>6. ~new.failed /\ new.more
  BY <1>1 DEF Reading
<1>7. Tell(e).pos = n /\ ~Tell(e).fail
  BY DEF Tell, FileEntry
<1>8. IsPart(<<>>, c, n, n) /\ NoBreak(c, n, n)
  BY <1>1 DEF IsPart, NoBreak
<1>9. n \in Nat /\ f <= n /\ n <= n
  BY <1>1
<1> QED
  BY <1>3, <1>4, <1>5, <1>6, <1>7, <1>8, <1>9, Zenon DEF Underway

\* A chunk as a part of the file.
LEMMA ChunkPart ==
  ASSUME FilesOK, NEW e, Fits(e)
  PROVE  LET chunk == Characters(e, ChunkSize)
             g == Got(e, ChunkSize)
         IN /\ chunk \in Seq(Chars) /\ Len(chunk) = g /\ g \in Nat
            /\ IsPart(chunk, files[e.path], e.pos, e.pos + g)
<1> DEFINE chunk == Characters(e, ChunkSize)
           c == files[e.path]
           p == e.pos
           g == Got(e, ChunkSize)
<1>1. /\ chunk \in Seq(Chars) /\ Len(chunk) = g /\ g \in Nat
      /\ \A i \in 1..g : chunk[i] = c[p + i]
  BY ChunkIs, ChunkAssumption
<1>2. p \in Nat /\ c \in Seq(Chars)
  BY DEF Fits, FileEntry, FilesOK
<1> HIDE DEF g, chunk, c, p
<1>3. p + g - p = g
  BY <1>1, <1>2
<1>4. IsPart(chunk, c, p, p + g)
  BY <1>1, <1>2, <1>3 DEF IsPart
<1> QED
  BY <1>1, <1>4 DEF g, chunk, c, p

\* A chunk of a call that has not failed: up to its newline, when it has one.
LEMMA ChunkTaken ==
  ASSUME FilesOK, NEW e, Fits(e), NEW tk \in Reading, Underway(tk, files[e.path], e),
         tk.more, ~tk.failed, NEW chunk, chunk = Characters(e, ChunkSize),
         Delimiter(chunk) > 0,
         NEW new, NEW st \in FileEntry, st.pos = e.pos + Delimiter(chunk),
         new = [tk EXCEPT !.text = tk.text \o SubSeq(chunk, 1, Delimiter(chunk) - 1),
                          !.more = FALSE]
  PROVE  Underway(new, files[e.path], st)
<1> DEFINE c == files[e.path]
           p == e.pos
           b == tk.last
           g == Got(e, ChunkSize)
           at == Delimiter(chunk)
           x == tk.text \o SubSeq(chunk, 1, at - 1)
<1>1. /\ c \in Seq(Chars) /\ p \in Nat /\ tk.text \in Seq(Chars) /\ tk.from \in Nat
      /\ e \in FileEntry
  BY DEF FilesOK, Fits, FileEntry, Reading
<1>2. chunk \in Seq(Chars) /\ Len(chunk) = g /\ g \in Nat /\ IsPart(chunk, c, p, p + g)
  BY ChunkPart, Zenon
<1>3. at \in 1..g /\ chunk[at] = NewLine /\ NoBreak(chunk, 0, at - 1)
  <2>1. /\ at \in 0..Len(chunk) /\ chunk[at] = NewLine
        /\ \A i \in 1..(at - 1) : chunk[i] # NewLine
    BY <1>2, DelimiterIs, Zenon
  <2> HIDE DEF at, g
  <2>2. at \in 1..g
    BY <1>2, <2>1 DEF at
  <2> QED
    BY <2>1, <2>2 DEF NoBreak
<1>4. /\ b \in Nat /\ tk.from <= b /\ b <= p
      /\ IsPart(tk.text, c, b, p) /\ NoBreak(c, b, p)
  BY Zenon DEF Underway
<1>5. p + g <= Len(c)
  <2>1. g > 0
    BY <1>2, <1>3
  <2> QED
    BY <1>1, <2>1, GotIs, ChunkAssumption
<1> HIDE DEF c, p, b, g, at
<1>6. LineIs(x, c, b, p + at) /\ b <= p + at
  BY <1>1, <1>2, <1>3, <1>4, <1>5, LineEndsInChunk, Zenon
<1>7. new = [tk EXCEPT !.text = x, !.more = FALSE]
  BY DEF at
<1> HIDE DEF x
<1>8. /\ new.call = tk.call /\ new.from = tk.from /\ new.last = b /\ new.text = x
      /\ new.lines = tk.lines
  BY <1>7 DEF Reading, b
<1>9. ~new.failed /\ ~new.more
  BY <1>7 DEF Reading
<1>10. st.pos = p + at
  BY DEF p, at
<1>11. /\ tk.call = "line" => b = tk.from
       /\ tk.call = "lines" => LinesSoFar(tk.lines, c, tk.from, b)
  BY Zenon DEF Underway, b, c
<1>12. Underway(new, c, st)
  BY <1>4, <1>6, <1>8, <1>9, <1>10, <1>11, Zenon DEF Underway
<1> QED
  BY <1>12 DEF c

\* A chunk without a newline: the last one when it is short.
LEMMA ChunkPassed ==
  ASSUME FilesOK, NEW e, Fits(e), NEW tk \in Reading, Underway(tk, files[e.path], e),
         tk.more, ~tk.failed, NEW chunk, chunk = Characters(e, ChunkSize),
         Delimiter(chunk) = 0,
         NEW new,
         new = [tk EXCEPT !.text = tk.text \o chunk, !.more = ~IsLastChunk(Len(chunk))]
  PROVE  Underway(new, files[e.path], Read(e, ChunkSize))
<1> DEFINE c == files[e.path]
           p == e.pos
           b == tk.last
           g == Got(e, ChunkSize)
           x == tk.text \o chunk
           st == Read(e, ChunkSize)
           n == p + g
<1>1. /\ c \in Seq(Chars) /\ p \in Nat /\ tk.text \in Seq(Chars) /\ tk.from \in Nat
      /\ e \in FileEntry /\ ChunkSize \in Nat /\ ChunkSize > 0
  BY ChunkAssumption DEF FilesOK, Fits, FileEntry, Reading
<1>2. chunk \in Seq(Chars) /\ Len(chunk) = g /\ g \in Nat /\ IsPart(chunk, c, p, n)
  BY ChunkPart, Zenon
<1>4. /\ b \in Nat /\ tk.from <= b /\ b <= p /\ ~e.fail /\ (p <= Len(c) \/ p = b)
      /\ IsPart(tk.text, c, b, p) /\ NoBreak(c, b, p)
  BY Zenon DEF Underway
<1>7. /\ g > 0 => n <= Len(c)
      /\ g < ChunkSize => n = IF p > Len(c) THEN p ELSE Len(c)
      /\ st.pos = n /\ (st.fail <=> g < ChunkSize)
  BY <1>1, <1>4, GotIs
<1>3. NoBreak(c, p, n)
  <2>1. \A i \in 1..Len(chunk) : chunk[i] # NewLine
    BY <1>2, DelimiterIs, Zenon
  <2> HIDE DEF c, p, g
  <2> SUFFICES ASSUME NEW i \in (p + 1)..n PROVE c[i] # NewLine
    BY DEF NoBreak
  <2>2. i - p \in 1..g /\ p + (i - p) = i /\ n - p = g
    BY <1>1, <1>2
  <2>3. chunk[i - p] = c[p + (i - p)]
    BY <1>2, <2>2 DEF IsPart
  <2> QED
    BY <1>2, <2>1, <2>2, <2>3
<1>5. n \in Nat /\ p <= n /\ b <= n
  BY <1>1, <1>2, <1>4
<1> HIDE DEF c, p, b, g, st, n
<1>6. IsPart(x, c, b, n) /\ NoBreak(c, b, n)
  BY <1>1, <1>2, <1>3, <1>4, <1>5, TextGrows, Zenon
<1> HIDE DEF x
<1>8. new = [tk EXCEPT !.text = x, !.more = ~IsLastChunk(g)]
  BY <1>2 DEF x
<1>9. /\ new.call = tk.call /\ new.from = tk.from /\ new.last = b /\ new.text = x
      /\ new.lines = tk.lines
  BY <1>8 DEF Reading, b
<1>10. ~new.failed /\ (new.more <=> ~(g < ChunkSize))
  BY <1>8 DEF Reading, IsLastChunk
<1>11. /\ tk.call = "line" => b = tk.from
       /\ tk.call = "lines" => LinesSoFar(tk.lines, c, tk.from, b)
  BY Zenon DEF Underway, b, c
<1>12. CASE g < ChunkSize
  <2>1. n = IF b > Len(c) THEN b ELSE Len(c)
    <3>1. Len(c) \in Nat
      BY <1>1
    <3> QED
      BY <1>1, <1>4, <1>7, <1>12, <3>1
  <2>2. LineIs(x, c, b, n)
    BY <1>6, <2>1 DEF LineIs
  <2>3. Underway(new, c, st)
    BY <1>4, <1>5, <1>7, <1>9, <1>10, <1>11, <1>12, <2>2, Zenon DEF Underway
  <2> QED
    BY <2>3 DEF c, st
<1>13. CASE ~(g < ChunkSize)
  <2>1. n <= Len(c)
    BY <1>1, <1>2, <1>7, <1>13
  <2>2. Underway(new, c, st)
    BY <1>4, <1>5, <1>6, <1>7, <1>9, <1>10, <1>11, <1>13, <2>1, Zenon DEF Underway
  <2> QED
    BY <2>2 DEF c, st
<1> QED
  BY <1>12, <1>13

\* Nothing is read by a call that has failed, and its first chunk is the last.
LEMMA NothingRead ==
  ASSUME FilesOK, NEW e, Fits(e), NEW tk \in Reading, Underway(tk, files[e.path], e),
         tk.more, tk.failed
  PROVE  /\ Characters(e, ChunkSize) = <<>> /\ Delimiter(Characters(e, ChunkSize)) = 0
         /\ \A new :
              new = [tk EXCEPT !.text = tk.text \o Characters(e, ChunkSize),
                               !.more = ~IsLastChunk(Len(Characters(e, ChunkSize)))]
              => Underway(new, files[e.path], Read(e, ChunkSize))
<1> PICK c, p, b : c = files[e.path] /\ p = e.pos /\ b = tk.last
  OBVIOUS
<1>1. /\ e \in FileEntry /\ ChunkSize \in Nat /\ ChunkSize > 0 /\ p \in Nat
      /\ files[e.path] \in Seq(Chars) /\ tk.from \in Nat
  BY ChunkAssumption DEF FilesOK, Fits, FileEntry, Reading
<1>2. /\ b \in Nat /\ tk.from <= b /\ b <= p /\ e.fail /\ tk.call = "line"
      /\ tk.text = <<>> /\ tk.last = tk.from
  BY Zenon DEF Underway
<1>3. /\ Got(e, ChunkSize) = 0 /\ Read(e, ChunkSize).pos = p + 0
  BY <1>1, <1>2, GotIs, ZenonT(30)
<1>4. Characters(e, ChunkSize) \in Seq(Chars) /\ Len(Characters(e, ChunkSize)) = 0
  <2>1. ASSUME NEW chunk, chunk = Characters(e, ChunkSize)
        PROVE  chunk \in Seq(Chars) /\ Len(chunk) = 0
    BY <1>3, <2>1, ChunkPart
  <2> QED
    BY <2>1
<1>5. Characters(e, ChunkSize) = <<>>
  BY <1>4
<1>6. Delimiter(Characters(e, ChunkSize)) = 0
  <2>1. Delimiter(Characters(e, ChunkSize)) \in 0..Len(Characters(e, ChunkSize))
    BY <1>4, DelimiterIs, Zenon
  <2> QED
    BY <1>4, <2>1
<1>7. ASSUME NEW new, new = [tk EXCEPT !.text = <<>> \o <<>>, !.more = ~IsLastChunk(Len(<<>>))]
      PROVE  Underway(new, files[e.path], Read(e, ChunkSize))
  <2>1. <<>> \o <<>> = <<>> /\ Len(<<>>) = 0
    OBVIOUS
  <2>2. new.call = "line" /\ new.from = tk.from /\ new.last = b /\ new.text = <<>>
    BY <1>2, <1>7, <2>1 DEF Reading
  <2>3. new.failed /\ ~new.more
    BY <1>1, <1>7, <2>1 DEF Reading, IsLastChunk
  <2>4. b <= Read(e, ChunkSize).pos
    BY <1>1, <1>2, <1>3
  <2>5. new.call # "lines"
    BY <2>2
  <2> QED
    BY <1>2, <2>2, <2>3, <2>4, <2>5, Zenon DEF Underway
<1> QED
  BY <1>2, <1>5, <1>6, <1>7

\* Files whose sizes and positions are numbers of a script, too.
SmallFiles == \A path \in Paths : MaxSize[path] < MaxInt

\* The position of an open stream reaches the script as it is.
LEMMA PositionFits ==
  ASSUME SmallFiles, NEW e, Fits(e)
  PROVE  JsInt(e.pos) = e.pos
<1>1. e.pos \in Nat /\ e.pos <= MaxSize[e.path] /\ MaxSize[e.path] \in Nat
      /\ MaxSize[e.path] < MaxInt /\ MaxInt \in Nat
  BY BoundsAssumption, ChunkAssumption DEF Fits, FileEntry, SmallFiles
<1> QED
  BY <1>1, JsIntCut

\* readLine and readLines begin.
LEMMA ReadLineBegins ==
  ASSUME StreamsInv, SmallFiles, NEW s \in 1..Len(streams), Open(s),
         NEW call \in {"line", "lines"}, ReadLine(s, call)
  PROVE  TaskOK'
<1> DEFINE st == IF call = "lines" THEN Tell(Entry(s)) ELSE Entry(s)
           c == files[streams[s].path]
<1>1. /\ open_files' = [open_files EXCEPT ![streams[s].fd] = st]
      /\ task' = [call |-> call, of |-> s, from |-> st.pos, failed |-> st.fail,
                  last |-> JsInt(st.pos), text |-> <<>>, lines |-> <<>>, more |-> TRUE]
      /\ files' = files /\ streams' = streams
  BY DEF ReadLine
<1>2. Fits(Entry(s)) /\ c \in Seq(Chars)
  BY OpenFits
<1>3. Fits(st) /\ (call = "lines" => ~st.fail)
  <2>1. Fits(Tell(Entry(s)))
    BY <1>2, TellFits
  <2>2. ~Tell(Entry(s)).fail
    BY <1>2 DEF Tell, Fits, FileEntry
  <2> QED
    BY <1>2, <2>1, <2>2
<1> HIDE DEF st
<1>4. JsInt(st.pos) = st.pos /\ st \in FileEntry
  BY <1>3, PositionFits DEF Fits
<1>5. task' = [call |-> call, of |-> s, from |-> st.pos, failed |-> st.fail,
               last |-> st.pos, text |-> <<>>, lines |-> <<>>, more |-> TRUE]
  BY <1>1, <1>4
<1>6. Underway(task', c, st)
  BY <1>2, <1>3, <1>4, <1>5, Begun
<1>7. task'.of = s
  BY <1>5
<1>8. open_files'[streams'[s].fd] = st
  BY <1>1 DEF Open
<1> HIDE DEF c
<1>9. files'[streams'[s].path] = c
  BY <1>1 DEF c
<1> QED
  BY <1>6, <1>7, <1>8, <1>9, Zenon DEF TaskOK, Entry

\* A chunk is read: the text so far grows, or the line is complete.
LEMMA ReadChunkGoesOn ==
  ASSUME StreamsInv, TaskOK, ReadChunk
  PROVE  TaskOK'
<1> DEFINE s == task.of
           e == Entry(s)
           c == files[e.path]
           chunk == Characters(e, ChunkSize)
           after == Read(e, ChunkSize)
           at == Delimiter(chunk)
<1>1. /\ task # Idle /\ task \in Reading /\ s \in 1..Len(streams) /\ Open(s) /\ task.more
      /\ files' = files /\ streams' = streams
  BY DEF ReadChunk, StreamsInv, TaskOn
<1>2. Fits(e) /\ e.path = streams[s].path /\ FilesOK /\ ChunkSize \in Nat
  BY <1>1, OpenFits, ChunkAssumption DEF StreamsInv
<1>3. Underway(task, c, e)
  BY <1>1, <1>2, Zenon DEF TaskOK
<1>4. chunk \in Seq(Chars) /\ at \in 0..Len(chunk) /\ Len(chunk) = Got(e, ChunkSize)
  BY <1>2, ChunkIs, DelimiterIs
<1>5. /\ at > 0 => /\ task' = [task EXCEPT !.text = task.text \o SubSeq(chunk, 1, at - 1),
                                           !.more = FALSE]
                   /\ open_files' = [open_files EXCEPT ![streams[s].fd] =
                                       SeekBack(after, at - 1, Len(chunk))]
      /\ ~(at > 0) => /\ task' = [task EXCEPT !.text = task.text \o chunk,
                                              !.more = ~IsLastChunk(Len(chunk))]
                      /\ open_files' = [open_files EXCEPT ![streams[s].fd] = after]
  BY DEF ReadChunk
<1>6. ASSUME NEW st, open_files' = [open_files EXCEPT ![streams[s].fd] = st],
             Underway(task', c, st), task'.of = s
      PROVE  TaskOK'
  <2>1. open_files'[streams'[s].fd] = st
    BY <1>1, <1>6 DEF Open
  <2>2. files'[streams'[s].path] = c
    BY <1>1, <1>2
  <2> HIDE DEF c, s
  <2> QED
    BY <1>6, <2>1, <2>2, Zenon DEF TaskOK, Entry
<1>7. CASE at > 0
  <2>1. ~task.failed
    <3>1. ASSUME task.failed PROVE at = 0
      BY <1>1, <1>2, <1>3, <3>1, NothingRead
    <3> QED
      BY <1>7, <3>1
  <2> DEFINE st == SeekBack(after, at - 1, Len(chunk))
  <2>2. st \in FileEntry /\ st.pos = e.pos + at
    <3> DEFINE to == at - 1 - Len(chunk) + 1 + after.pos
    <3>1. after \in FileEntry /\ after.pos = e.pos + Len(chunk) /\ e.pos \in Nat
      BY <1>2, <1>4, GotIs DEF Fits, FilesOK, FileEntry
    <3>2. Len(chunk) \in Nat /\ at - 1 - Len(chunk) + 1 \in Int
      BY <1>4
    <3>3. st = SeekTo(after, to)
      BY <3>2, SeekIs DEF SeekBack
    <3> HIDE DEF after, st, chunk, e, at
    <3>4. to = e.pos + at /\ to \in Int /\ to >= 0
      BY <1>4, <3>1, <3>2
    <3> QED
      BY <3>1, <3>3, <3>4, SeekToIs
  <2>3. /\ task' = [task EXCEPT !.text = task.text \o SubSeq(chunk, 1, at - 1), !.more = FALSE]
        /\ open_files' = [open_files EXCEPT ![streams[s].fd] = st]
    BY <1>5, <1>7
  <2> HIDE DEF st
  <2>4. Underway(task', c, st)
    BY <1>1, <1>2, <1>3, <1>7, <2>1, <2>2, <2>3, ChunkTaken, Zenon
  <2>5. task'.of = s
    BY <1>1, <2>3 DEF Reading
  <2> QED
    BY <1>6, <2>3, <2>4, <2>5
<1>8. CASE ~(at > 0)
  <2>1. at = 0
    BY <1>4, <1>8
  <2>2. /\ task' = [task EXCEPT !.text = task.text \o chunk, !.more = ~IsLastChunk(Len(chunk))]
        /\ open_files' = [open_files EXCEPT ![streams[s].fd] = after]
    BY <1>5, <1>8
  <2>3. CASE task.failed
    <3>1. Underway(task', c, after)
      BY <1>1, <1>2, <1>3, <2>2, <2>3, NothingRead, Zenon
    <3>2. task'.of = s
      BY <1>1, <2>2 DEF Reading
    <3> QED
      BY <1>6, <2>2, <3>1, <3>2
  <2>4. CASE ~task.failed
    <3>1. Underway(task', c, after)
      BY <1>1, <1>2, <1>3, <2>1, <2>2, <2>4, ChunkPassed, Zenon
    <3>2. task'.of = s
      BY <1>1, <2>2 DEF Reading
    <3> QED
      BY <1>6, <2>2, <3>1, <3>2
  <2> QED
    BY <2>3, <2>4
<1> QED
  BY <1>7, <1>8

\* readLines takes a line and goes on, or returns.
LEMMA EndLinesGoesOn ==
  ASSUME StreamsInv, SmallFiles, TaskOK, EndLines
  PROVE  TaskOK'
<1> DEFINE s == task.of
           e == Entry(s)
           c == files[e.path]
<1>1. /\ task # Idle /\ task \in Reading /\ s \in 1..Len(streams) /\ Open(s) /\ ~task.more
      /\ task.call = "lines" /\ files' = files /\ streams' = streams
  BY DEF EndLines, StreamsInv, TaskOn
<1>2. Fits(e) /\ e.path = streams[s].path /\ c \in Seq(Chars) /\ e \in FileEntry
  BY <1>1, OpenFits DEF Fits
<1>3. Underway(task, c, e)
  BY <1>1, <1>2, Zenon DEF TaskOK
<1>4. JsInt(e.pos) = e.pos
  BY <1>2, PositionFits
<1>5. open_files' = [open_files EXCEPT ![streams[s].fd] = Tell(e)]
  BY DEF EndLines, Entry
<1>6. \/ task' = Idle
      \/ /\ ~(Chomp(task.text) = <<>> /\ e.pos = task.last)
         /\ task' = [task EXCEPT !.lines = Append(task.lines, Chomp(task.text)),
                                 !.last = e.pos, !.text = <<>>, !.more = TRUE]
  BY <1>4 DEF EndLines, Done
<1>7. CASE task' = Idle
  BY <1>7 DEF TaskOK
<1>8. CASE /\ ~(Chomp(task.text) = <<>> /\ e.pos = task.last)
           /\ task' = [task EXCEPT !.lines = Append(task.lines, Chomp(task.text)),
                                   !.last = e.pos, !.text = <<>>, !.more = TRUE]
  <2>1. Underway(task', c, Tell(e))
    BY <1>1, <1>2, <1>3, <1>8, Taken, Zenon
  <2>2. task'.of = s
    BY <1>1, <1>8 DEF Reading
  <2>3. open_files'[streams'[s].fd] = Tell(e)
    BY <1>1, <1>5 DEF Open
  <2>4. files'[streams'[s].path] = c
    BY <1>1, <1>2
  <2> HIDE DEF s, e, c
  <2> QED
    BY <2>1, <2>2, <2>3, <2>4, Zenon DEF TaskOK, Entry
<1> QED
  BY <1>6, <1>7, <1>8

\* What a step does to the call in progress.
LEMMA TaskSteps ==
  ASSUME StreamsInv, [Next]_vars
  PROVE  \/ task' = Idle
         \/ \E s \in 1..Len(streams), call \in {"line", "lines"} : Open(s) /\ ReadLine(s, call)
         \/ ReadChunk \/ EndLines
         \/ UNCHANGED <<task, files, streams, open_files>>
<1>0. DOMAIN streams = 1..Len(streams)
  BY DEF StreamsInv, StreamsOK
<1>1. CASE Calls
  <2>1. ASSUME NEW path \in Paths, NEW how \in {"new", "with", "encoding"},
               Construct(path, how)
        PROVE  task' = Idle
    BY <2>1 DEF Construct
  <2>2. ASSUME NEW threw \in BOOLEAN, WithEnds(threw)
        PROVE  task' = Idle
    BY <2>2 DEF WithEnds
  <2>3. ASSUME NEW s \in 1..Len(streams), NEW entry, NEW result,
               Close(s) \/ OnStream(s, entry, result)
        PROVE  task' = Idle
    BY <2>3 DEF Close, OnStream
  <2>4. ASSUME NEW s \in 1..Len(streams),
               \/ \E offset \in -1..1, whence \in {"set", "cur", "end"} :
                    SeekStream(s, offset, whence)
               \/ TellStream(s)
               \/ \E n \in 1..2 : ReadStream(s, n)
               \/ \E data \in Data : WriteStream(s, data) \/ AppendStream(s, data)
               \/ SizeOfStream(s)
               \/ ReadEntireFile(s)
        PROVE  task' = Idle
    <3>1. ASSUME NEW data \in Data, WriteStream(s, data) \/ AppendStream(s, data)
          PROVE  \E entry, result : OnStream(s, entry, result)
      BY <3>1 DEF WriteStream, AppendStream, WriteTo
    <3>2. CASE \E offset \in -1..1, whence \in {"set", "cur", "end"} :
                 SeekStream(s, offset, whence)
      BY <2>3, <3>2 DEF SeekStream
    <3>3. CASE TellStream(s) \/ \E n \in 1..2 : ReadStream(s, n)
      BY <2>3, <3>3 DEF TellStream, ReadStream
    <3>4. CASE SizeOfStream(s)
      BY <2>3, <3>4 DEF SizeOfStream
    <3>5. CASE ReadEntireFile(s)
      BY <2>3, <3>5 DEF ReadEntireFile
    <3> QED
      BY <2>3, <2>4, <3>1, <3>2, <3>3, <3>4, <3>5
  <2>5. ASSUME NEW s \in 1..Len(streams), NEW call \in {"line", "lines"}, ReadLine(s, call)
        PROVE  (Open(s) /\ ReadLine(s, call)) \/ task' = Idle
    BY <2>5 DEF ReadLine
  <2> QED
    BY <1>0, <1>1, <2>1, <2>2, <2>3, <2>4, <2>5 DEF Calls, StreamCall
<1>2. CASE Reads
  BY <1>2 DEF Reads, ReadingStep, EndLine, Done
<1>3. CASE Yield \/ WakesOther \/ Runs \/ UNCHANGED vars
  BY <1>3 DEF Yield, WakesOther, Runs, vars, streamVars
<1> QED
  BY <1>1, <1>2, <1>3 DEF Next

\* What is known of the call in progress stays true.
LEMMA TaskKeeps ==
  ASSUME StreamsInv, SmallFiles, TaskOK, [Next]_vars
  PROVE  TaskOK'
<1>1. CASE task' = Idle
  BY <1>1 DEF TaskOK
<1>2. CASE UNCHANGED <<task, files, streams, open_files>>
  BY <1>2 DEF TaskOK, Entry
<1> QED
  BY <1>1, <1>2, TaskSteps, ReadLineBegins, ReadChunkGoesOn, EndLinesGoesOn

\* What readLine returns.
LEMMA LineReturned ==
  ASSUME StreamsInv, TaskOK, EndLine
  PROVE  ReadsAreRight'
<1> DEFINE s == task.of
           path == streams[s].path
           c == files[path]
           e == Entry(s)
           line == Chomp(task.text)
<1>1. /\ task # Idle /\ task \in Reading /\ s \in 1..Len(streams) /\ Open(s) /\ ~task.more
      /\ task.call = "line" /\ files' = files /\ streams' = streams
      /\ outcome' = [call |-> "line", of |-> s, value |-> line, from |-> task.from,
                     failed |-> task.failed]
  BY DEF EndLine, Done, StreamsInv, TaskOn
<1>2. /\ Fits(e) /\ e.path = path /\ c \in Seq(Chars) /\ e.pos \in Nat
      /\ task.from \in Nat /\ task.text \in Seq(Chars)
  BY <1>1, OpenFits DEF Fits, FileEntry, Reading
<1>3. Underway(task, c, e)
  BY <1>1, <1>2, Zenon DEF TaskOK
<1>4. CASE task.failed
  <2>1. line = <<>>
    <3>1. task.text = <<>>
      BY <1>3, <1>4, Zenon DEF Underway
    <3> QED
      BY <3>1, ChompNothing
  <2> HIDE DEF s, c, line
  <2>2. outcome'.call = "line" /\ outcome'.value = line
    BY <1>1
  <2>3. outcome'.failed
    BY <1>1, <1>4
  <2> QED
    BY <2>1, <2>2, <2>3 DEF ReadsAreRight
<1>5. CASE ~task.failed
  <2>1. task.last = task.from /\ LineIs(task.text, c, task.last, e.pos)
    BY <1>1, <1>3, <1>5, Zenon DEF Underway
  <2>2. LineIs(task.text, c, task.from, e.pos)
    BY <2>1
  <2>3. IsFirstLine(line, SubSeq(c, task.from + 1, Len(c)))
    BY <1>2, <2>2, FirstLine
  <2>4. outcome'.call = "line" /\ outcome'.value = line /\ outcome'.of = s
        /\ outcome'.from = task.from
    BY <1>1
  <2>5. ~outcome'.failed
    BY <1>1, <1>5
  <2>6. streams'[s].path = path /\ files'[path] = c
    BY <1>1
  <2> HIDE DEF s, c, line, path
  <2>7. IsFirstLine(outcome'.value, SubSeq(files'[streams'[outcome'.of].path],
                    outcome'.from + 1, Len(files'[streams'[outcome'.of].path])))
    BY <2>3, <2>4, <2>6
  <2> QED
    BY <2>4, <2>5, <2>7 DEF ReadsAreRight, Rest
<1> QED
  BY <1>4, <1>5

\* What readLines returns: it has come to the end of the file.
LEMMA LinesReturned ==
  ASSUME StreamsInv, SmallFiles, TaskOK, EndLines, Done(task.lines)
  PROVE  ReadsAreRight'
<1> DEFINE s == task.of
           path == streams[s].path
           c == files[path]
           e == Entry(s)
           b == task.last
           f == task.from
<1>1. /\ task # Idle /\ task \in Reading /\ s \in 1..Len(streams) /\ Open(s) /\ ~task.more
      /\ task.call = "lines" /\ files' = files /\ streams' = streams
      /\ outcome' = [call |-> "lines", of |-> s, value |-> task.lines, from |-> f,
                     failed |-> task.failed]
  BY DEF EndLines, Done, StreamsInv, TaskOn
<1>2. /\ Fits(e) /\ e.path = path /\ c \in Seq(Chars) /\ e.pos \in Nat
      /\ f \in Nat /\ task.text \in Seq(Chars)
  BY <1>1, OpenFits DEF Fits, FileEntry, Reading
<1>3. Underway(task, c, e)
  BY <1>1, <1>2, Zenon DEF TaskOK
<1>4. e.pos = b
  <2>1. JsInt(e.pos) = b
    <3>1. ASSUME ~(Chomp(task.text) = <<>> /\ JsInt(e.pos) = b)
          PROVE  FALSE
      <4>1. task' = Idle
        BY DEF Done
      <4>2. task'.more
        BY <1>1, <3>1 DEF EndLines, Reading
      <4>3. task' = [task EXCEPT !.lines = Append(@, Chomp(task.text)), !.last = JsInt(e.pos),
                                 !.text = <<>>, !.more = TRUE]
        BY <3>1 DEF EndLines
      <4>4. task'.call = "lines"
        BY <1>1, <4>3 DEF Reading
      <4> QED
        BY <4>1, <4>4 DEF Idle
    <3> QED
      BY <3>1
  <2> QED
    BY <1>2, <2>1, PositionFits
<1>5. /\ b \in Nat /\ f <= b /\ LineIs(task.text, c, b, b) /\ LinesSoFar(task.lines, c, f, b)
  <2>1. ~task.failed
    BY <1>1, <1>3 DEF Underway
  <2>2. LineIs(task.text, c, b, e.pos)
    BY <1>1, <1>3, <2>1, Zenon DEF Underway
  <2>3. LinesSoFar(task.lines, c, f, b) /\ b \in Nat /\ f <= b
    BY <1>1, <1>3, Zenon DEF Underway
  <2> QED
    BY <1>4, <2>2, <2>3
<1> HIDE DEF s, path, c, e, b, f
<1>6. b >= Len(c) /\ Len(c) \in Nat
  BY <1>2, <1>5 DEF LineIs
<1>7. AreLines(task.lines, SubSeq(c, f + 1, Len(c)))
  <2>1. CASE b > f
    <3>1. b = Len(c)
      BY <1>5, <1>6, <2>1 DEF LinesSoFar
    <3> QED
      BY <1>5, <3>1 DEF LinesSoFar
  <2>2. CASE ~(b > f)
    <3>1. f = b /\ Len(c) <= f
      BY <1>2, <1>5, <1>6, <2>2
    <3>2. SubSeq(c, f + 1, b) = <<>> /\ SubSeq(c, f + 1, Len(c)) = <<>>
      BY <1>2, <1>6, <3>1, PartOf
    <3> QED
      BY <1>5, <3>2 DEF LinesSoFar
  <2> QED
    BY <2>1, <2>2
<1>8. outcome'.call = "lines" /\ outcome'.value = task.lines /\ outcome'.of = s
      /\ outcome'.from = f
  BY <1>1
<1>9. streams'[s].path = path /\ files'[path] = c
  BY <1>1 DEF path, c
<1>10. AreLines(outcome'.value, SubSeq(files'[streams'[outcome'.of].path],
                outcome'.from + 1, Len(files'[streams'[outcome'.of].path])))
  BY <1>7, <1>8, <1>9
<1> QED
  BY <1>8, <1>10 DEF ReadsAreRight, Rest

\* What file_size returns.
LEMMA SizeReturned ==
  ASSUME StreamsInv, SmallFiles, NEW s \in 1..Len(streams), Open(s), SizeOfStream(s)
  PROVE  ReadsAreRight'
<1> DEFINE at == AtEnd(Entry(s))
           path == streams[s].path
<1>1. Fits(Entry(s)) /\ Entry(s).path = path /\ FilesOK
  BY OpenFits DEF StreamsInv
<1>2. Fits(at) /\ at.pos = Len(files[path])
  BY <1>1, AtEndFits
<1>3. JsInt(at.pos) = at.pos
  BY <1>2, PositionFits
<1>4. /\ outcome' = [call |-> "size", of |-> s, value |-> JsInt(at.pos)]
      /\ files' = files /\ streams' = streams
  BY DEF SizeOfStream, OnStream
<1> HIDE DEF at, path
<1>5. outcome'.call = "size" /\ outcome'.of = s /\ outcome'.value = Len(files[path])
  BY <1>2, <1>3, <1>4
<1>6. streams'[s].path = path
  BY <1>4 DEF path
<1> QED
  BY <1>4, <1>5, <1>6 DEF ReadsAreRight

\* What readEntireFile returns.
LEMMA EntireReturned ==
  ASSUME StreamsInv, SmallFiles, NEW s \in 1..Len(streams), Open(s), ReadEntireFile(s)
  PROVE  ReadsAreRight'
<1> DEFINE path == streams[s].path
           c == files[path]
           begin == Seek(Sized(Entry(s)), 0, "set")
           size == JsInt(AtEnd(Entry(s)).pos)
<1>1. Fits(Entry(s)) /\ Entry(s).path = path /\ FilesOK /\ c \in Seq(Chars)
  BY OpenFits DEF StreamsInv
<1>2. size = Len(c)
  BY <1>1, AtEndFits, PositionFits
<1>3. begin.path = path /\ begin.pos = 0 /\ ~begin.fail
  <2>1. Fits(Sized(Entry(s))) /\ Sized(Entry(s)).path = path
    BY <1>1, SizedFits
  <2>2. begin = SeekTo(Sized(Entry(s)), 0)
    BY SeekIs
  <2>3. 0 \in Int /\ 0 >= 0
    OBVIOUS
  <2> QED
    BY <2>1, <2>2, <2>3, SeekToIs, SMTT(30) DEF Fits
<1>4. /\ outcome' = IF size < 0 THEN [call |-> "threw"]
                    ELSE [call |-> "entire", of |-> s, value |-> Characters(begin, size)]
      /\ files' = files /\ streams' = streams
  BY DEF ReadEntireFile, OnStream
<1> HIDE DEF begin, size
<1>5. Characters(begin, size) = c
  <2>1. Len(c) \in Nat
    BY <1>1
  <2>2. Got(begin, size) = Len(c)
    BY <1>2, <1>3, <2>1 DEF Got, Size
  <2>3. Characters(begin, size) = SubSeq(c, 0 + 1, 0 + Len(c))
    BY <1>3, <2>2 DEF Characters
  <2>4. 0 + 1 = 1 /\ 0 + Len(c) = Len(c)
    BY <2>1
  <2>5. SubSeq(c, 1, Len(c)) = c
    BY <1>1
  <2> QED
    BY <2>3, <2>4, <2>5
<1> HIDE DEF c, path
<1>6. ~(size < 0)
  BY <1>1, <1>2
<1>7. outcome'.call = "entire" /\ outcome'.of = s /\ outcome'.value = c
  BY <1>4, <1>5, <1>6
<1>8. streams'[s].path = path /\ files'[path] = c
  BY <1>4 DEF path, c
<1> QED
  BY <1>7, <1>8 DEF ReadsAreRight

\* What a step returns is right, and what was returned stays so.
LEMMA ReadsKeep ==
  ASSUME StreamsInv, SmallFiles, TaskOK, ReadsAreRight, [Next]_vars
  PROVE  ReadsAreRight'
<1>1. CASE UNCHANGED <<outcome, files, streams>>
  BY <1>1 DEF ReadsAreRight, Rest
<1>2. CASE outcome'.call \in {"none", "threw", "append"}
  BY <1>2 DEF ReadsAreRight
<1>3. ASSUME NEW s \in 1..Len(streams), NEW data \in Data, Open(s), AppendStream(s, data)
      PROVE  outcome'.call = "append"
  BY <1>3 DEF AppendStream, WriteTo, OnStream
<1> QED
  BY <1>1, <1>2, <1>3, OutcomeIs, SizeReturned, EntireReturned, LineReturned, LinesReturned

\* What the reading methods return is what the file holds, for chunks of any
\* size, files of any contents and calls in any order, as long as the sizes and
\* positions are numbers of a script (io.ts:317-376, 649-709).
THEOREM ReadsReturnTheFile == ASSUME SmallFiles PROVE Spec => []ReadsAreRight
<1>1. Init => TaskOK /\ ReadsAreRight
  BY DEF Init, StreamsInit, TaskOK, ReadsAreRight, Nothing
<1>2. StreamsInv /\ TaskOK /\ ReadsAreRight /\ [Next]_vars => TaskOK' /\ ReadsAreRight'
  BY TaskKeeps, ReadsKeep
<1> QED
  BY <1>1, <1>2, StreamsCorrect, PTL DEF Spec

-----------------------------------------------------------------------------
(* The runtime: what it knows of its scripts.                              *)

Endings == {"none", "unchecked", "not compiled", "returned", "rejected", "pending",
            "job failed"}
Job == [of : Scripts, what : {"resume", "callback"}]

RuntimeTypes ==
  /\ phase \in {"idle", "eval", "jobs"}
  /\ current \in Scripts \cup {NoScript}
  /\ running \in Scripts \cup {NoScript}
  /\ check_error \in BOOLEAN
  /\ state \in [Scripts -> {"absent", "new", "started", "waiting", "hanging", "lost",
                            "fulfilled", "rejected"}]
  /\ awaits \in [Scripts -> Nat]
  /\ attached \subseteq Scripts
  /\ jobs \in Seq(Job)
  /\ promise_state \in {"pending", "fulfilled", "rejected"}
  /\ error_strace \in Scripts \cup {NoScript}
  /\ verdict \in [Scripts -> [how : Endings, why : Scripts \cup {NoScript}]]

Due(job) == \E i \in 1..Len(jobs) : jobs[i] = job
Unbegun(s) == state[s] \in {"absent", "new"}

\* run_js_file is called for one script at a time, which has not ended yet and
\* gets its callbacks between the two phases.
PhaseOK ==
  /\ phase = "idle" => current = NoScript /\ running = NoScript
  /\ phase # "idle" =>
       current \in Scripts /\ ~Unbegun(current) /\ verdict[current].how = "none"
  /\ phase = "eval" => current \notin attached
  /\ phase = "jobs" => current \in attached

\* A script is on the stack or has one job that resumes it, or neither; a
\* callback is queued for what is settled, for good.
JobOK ==
  /\ running \in Scripts => state[running] = "started"
  /\ \A s \in Scripts : Due(Resume(s)) => state[s] = "waiting"
  /\ \A i, j \in 1..Len(jobs) : jobs[i] = jobs[j] /\ jobs[i].what = "resume" => i = j
  /\ \A s \in Scripts : Due(Callback(s)) => Settled(s) /\ s \in attached
  /\ \A s \in Scripts : Unbegun(s) => s \notin attached /\ verdict[s].how = "none"

\* Unless a script was left behind, only the current one can still be spoken
\* for by a callback.
OwnOK ==
  NothingLeftBehind =>
    /\ \A s \in attached : \/ s = current /\ phase = "jobs"
                           \/ Settled(s) /\ ~Due(Callback(s))
    /\ phase = "jobs" /\ promise_state # "pending" =>
         /\ promise_state = state[current]
         /\ promise_state = "rejected" => error_strace = current
    /\ VerdictIsOwn

RuntimeInv == RuntimeTypes /\ PhaseOK /\ JobOK /\ OwnOK

\* What can happen in the runtime, at whatever moment.
RuntimeStep ==
  RunJsFileStep \/ ScriptYields \/ (\E s \in Scripts : Wake(s)) \/ UNCHANGED runtimeVars

-----------------------------------------------------------------------------
(* The queue of jobs.                                                      *)

\* A job at the end of the queue is due, and so are those before it.
LEMMA Appended ==
  ASSUME NEW q \in Seq(Job), NEW job \in Job
  PROVE  /\ Append(q, job) \in Seq(Job) /\ Len(Append(q, job)) = Len(q) + 1
         /\ \A i \in 1..Len(q) : i \in 1..Len(Append(q, job)) /\ Append(q, job)[i] = q[i]
         /\ Append(q, job)[Len(q) + 1] = job
         /\ \A i \in 1..Len(Append(q, job)) : i \in 1..Len(q) \/ i = Len(q) + 1
  OBVIOUS

\* The jobs behind the first one move up.
LEMMA Popped ==
  ASSUME NEW q \in Seq(Job), q # <<>>
  PROVE  /\ Head(q) \in Job /\ Head(q) = q[1] /\ 1 \in 1..Len(q)
         /\ Tail(q) \in Seq(Job)
         /\ \A i \in 1..Len(Tail(q)) : i + 1 \in 1..Len(q) /\ Tail(q)[i] = q[i + 1]
  OBVIOUS

\* Types of jobs.
LEMMA JobTypes ==
  ASSUME NEW s \in Scripts
  PROVE  /\ Resume(s) \in Job /\ Callback(s) \in Job
         /\ Resume(s).of = s /\ Callback(s).of = s
         /\ Resume(s).what = "resume" /\ Callback(s).what = "callback"
  BY DEF Resume, Callback, Job

\* A job is one of the two kinds, of its script.
LEMMA JobKinds ==
  ASSUME NEW job \in Job
  PROVE  /\ job.of \in Scripts
         /\ job.what = "resume" => job = Resume(job.of)
         /\ job.what = "callback" => job = Callback(job.of)
         /\ job.what \in {"resume", "callback"}
  BY DEF Resume, Callback, Job

\* What a queue with a new job is due.
LEMMA DueAppended ==
  ASSUME jobs \in Seq(Job), NEW job \in Job, jobs' = Append(jobs, job), NEW g
  PROVE  Due(g)' <=> Due(g) \/ g = job
<1>1. ASSUME Due(g) PROVE Due(g)'
  BY <1>1, Appended DEF Due
<1>2. ASSUME g = job PROVE Due(g)'
  <2>1. Len(jobs) + 1 \in 1..Len(jobs')
    BY Appended
  <2> QED
    BY <2>1, <1>2, Appended DEF Due
<1>3. ASSUME Due(g)' PROVE Due(g) \/ g = job
  BY <1>3, Appended DEF Due
<1> QED
  BY <1>1, <1>2, <1>3

\* What a queue without its first job is due was due before.
LEMMA DuePopped ==
  ASSUME jobs \in Seq(Job), jobs # <<>>, jobs' = Tail(jobs), NEW g
  PROVE  Due(g)' => Due(g)
  BY Popped DEF Due

-----------------------------------------------------------------------------
(* The steps of the runtime keep the types.                                *)

\* Types, when a script begins.
LEMMA RunTypes ==
  ASSUME RuntimeTypes, NEW s \in Scripts, RunJsFile(s) \/ CompileFails(s)
  PROVE  RuntimeTypes'
<1>1. CASE RunJsFile(s)
  BY <1>1 DEF RuntimeTypes, RunJsFile
<1>2. CASE CompileFails(s)
  BY <1>2 DEF RuntimeTypes, CompileFails, Endings
<1> QED
  BY <1>1, <1>2

\* Types, when run_js_file ends.
LEMMA EndsTypes ==
  ASSUME RuntimeTypes, NEW how \in Endings, Ends(how)
  PROVE  /\ phase' = "idle" /\ current' = NoScript
         /\ verdict' \in [Scripts -> [how : Endings, why : Scripts \cup {NoScript}]]
         /\ \A s \in Scripts : s # current => verdict'[s] = verdict[s]
         /\ current \in Scripts =>
              /\ verdict'[current].how = how
              /\ how = "rejected" => verdict'[current].why = error_strace
  BY DEF Ends, RuntimeTypes

\* Types of the queue with a callback.
LEMMA QueuedTypes ==
  ASSUME RuntimeTypes, NEW s \in Scripts, NEW due
  PROVE  Queued(s, due) \in Seq(Job)
<1>1. CASE due
  BY <1>1, JobTypes, Appended DEF Queued, RuntimeTypes
<1>2. CASE ~due
  BY <1>2 DEF Queued, RuntimeTypes
<1> QED
  BY <1>1, <1>2

\* The end of run_js_file, with or without a report.
Reported == IF promise_state = "fulfilled" THEN "returned" ELSE promise_state

\* What the verdict is when run_js_file ends.
LEMMA ReportEnds ==
  ASSUME RuntimeTypes, Report
  PROVE  Reported \in Endings /\ Ends(Reported)
<1>1. CASE promise_state = "pending"
  BY <1>1 DEF Report, Reported, Endings
<1>2. CASE promise_state = "rejected"
  BY <1>2 DEF Report, Reported, Endings
<1>3. CASE promise_state = "fulfilled"
  BY <1>3 DEF Report, Reported, Endings
<1> QED
  BY <1>1, <1>2, <1>3 DEF RuntimeTypes

\* Types after a step of run_js_file.
LEMMA PhaseTypes ==
  ASSUME RuntimeTypes, PhaseOK, JobOK,
         AttachCallbacks \/ ReturnUnchecked \/ ResumeJob \/ CallbackJob \/ JobFails \/ Report
  PROVE  RuntimeTypes'
<1>1. CASE AttachCallbacks
  <2>1. current \in Scripts
    BY <1>1 DEF AttachCallbacks, PhaseOK
  <2>2. jobs' \in Seq(Job)
    BY <1>1, <2>1, QueuedTypes DEF AttachCallbacks
  <2> QED
    BY <1>1, <2>1, <2>2 DEF AttachCallbacks, RuntimeTypes
<1>2. CASE ReturnUnchecked
  <2>1. "unchecked" \in Endings /\ Ends("unchecked")
    BY <1>2 DEF ReturnUnchecked, Endings
  <2> QED
    BY <1>2, <2>1, EndsTypes DEF ReturnUnchecked, RuntimeTypes
<1>3. CASE ResumeJob
  <2>1. Head(jobs).of \in Scripts /\ Tail(jobs) \in Seq(Job)
    BY <1>3, Popped, JobKinds DEF ResumeJob, RuntimeTypes
  <2> QED
    BY <1>3, <2>1 DEF ResumeJob, RuntimeTypes
<1>4. CASE CallbackJob
  <2>1. Head(jobs).of \in Scripts /\ Tail(jobs) \in Seq(Job)
    BY <1>4, Popped, JobKinds DEF CallbackJob, RuntimeTypes
  <2>2. Due(Callback(Head(jobs).of))
    BY <1>4, Popped, JobKinds DEF CallbackJob, RuntimeTypes, Due
  <2>3. state[Head(jobs).of] \in {"fulfilled", "rejected"}
    BY <2>1, <2>2 DEF JobOK, Settled
  <2> QED
    BY <1>4, <2>1, <2>3 DEF CallbackJob, RuntimeTypes
<1>5. CASE JobFails
  <2>1. Head(jobs).of \in Scripts /\ Tail(jobs) \in Seq(Job)
    BY <1>5, Popped, JobKinds DEF JobFails, RuntimeTypes
  <2>2. "job failed" \in Endings /\ Ends("job failed")
    BY <1>5 DEF JobFails, Endings
  <2> QED
    BY <1>5, <2>1, <2>2, EndsTypes DEF JobFails, RuntimeTypes
<1>6. CASE Report
  BY <1>6, ReportEnds, EndsTypes DEF Report, RuntimeTypes
<1> QED
  BY <1>1, <1>2, <1>3, <1>4, <1>5, <1>6

\* Types after a step of the script on the stack.
LEMMA ScriptTypes ==
  ASSUME RuntimeTypes, ScriptYields \/ \E s \in Scripts : Wake(s)
  PROVE  RuntimeTypes'
<1>1. ASSUME NEW to \in {"waiting", "hanging", "fulfilled", "rejected"}, Yields(to)
      PROVE  /\ running \in Scripts /\ running' = NoScript
             /\ state' = [state EXCEPT ![running] = to]
             /\ state' \in [Scripts -> {"absent", "new", "started", "waiting", "hanging",
                                        "lost", "fulfilled", "rejected"}]
             /\ UNCHANGED <<phase, current, check_error, promise_state, error_strace, verdict>>
  BY <1>1 DEF Yields, RuntimeTypes
<1>2. CASE Await
  <2>1. jobs' \in Seq(Job) /\ awaits' \in [Scripts -> Nat]
    BY <1>1, <1>2, JobTypes, Appended DEF Await, RuntimeTypes
  <2> QED
    BY <1>1, <1>2, <2>1 DEF Await, RuntimeTypes
<1>3. CASE AwaitOther
  <2>1. awaits' \in [Scripts -> Nat]
    BY <1>1, <1>3 DEF AwaitOther, RuntimeTypes
  <2> QED
    BY <1>1, <1>3, <2>1 DEF AwaitOther, RuntimeTypes
<1>4. ASSUME NEW how \in {"fulfilled", "rejected"}, Settle(how)
      PROVE  RuntimeTypes'
  <2>1. jobs' \in Seq(Job)
    BY <1>1, <1>4, QueuedTypes DEF Settle
  <2> QED
    BY <1>1, <1>4, <2>1 DEF Settle, RuntimeTypes
<1>5. ASSUME NEW s \in Scripts, Wake(s)
      PROVE  RuntimeTypes'
  <2>1. jobs' \in Seq(Job)
    BY <1>5, JobTypes, Appended DEF Wake, RuntimeTypes
  <2> QED
    BY <1>5, <2>1 DEF Wake, RuntimeTypes
<1> QED
  BY <1>2, <1>3, <1>4, <1>5 DEF ScriptYields

-----------------------------------------------------------------------------
(* The steps of the runtime keep what it knows.                            *)

\* A script that was left behind stays so: a verdict is not taken back.
LEMMA LeftBehindStays ==
  ASSUME \A s \in Scripts : verdict[s].how = "none" \/ verdict'[s] = verdict[s],
         NothingLeftBehind'
  PROVE  NothingLeftBehind
  BY DEF NothingLeftBehind

\* What moves the state of one script that is not settled takes back nothing
\* that was said of the settled ones.
LEMMA OwnStays ==
  ASSUME RuntimeTypes, PhaseOK, OwnOK, NEW s \in Scripts, ~Settled(s), NEW to,
         state' = [state EXCEPT ![s] = to],
         UNCHANGED <<phase, current, attached, verdict, promise_state, error_strace>>,
         \A r \in Scripts : r # s => (Due(Callback(r))' => Due(Callback(r)))
  PROVE  OwnOK'
<1>1. \A r \in Scripts : r # s => state'[r] = state[r]
  BY DEF RuntimeTypes
<1> SUFFICES ASSUME NothingLeftBehind'
             PROVE  /\ \A r \in attached : \/ r = current /\ phase = "jobs"
                                           \/ Settled(r)' /\ ~Due(Callback(r))'
                    /\ phase = "jobs" /\ promise_state # "pending" =>
                         /\ promise_state = state'[current]
                         /\ promise_state = "rejected" => error_strace = current
                    /\ VerdictIsOwn'
  BY DEF OwnOK
<1>2. NothingLeftBehind
  BY DEF NothingLeftBehind
<1>3. ASSUME NEW r \in attached
      PROVE  (r = current /\ phase = "jobs") \/ (Settled(r)' /\ ~Due(Callback(r))')
  <2>1. (r = current /\ phase = "jobs") \/ (Settled(r) /\ ~Due(Callback(r)))
    BY <1>2, <1>3 DEF OwnOK
  <2>2. CASE Settled(r) /\ ~Due(Callback(r))
    <3>1. r # s /\ r \in Scripts
      BY <2>2, <1>3 DEF RuntimeTypes
    <3> QED
      BY <2>2, <3>1, <1>1 DEF Settled
  <2> QED
    BY <2>1, <2>2
<1>4. ASSUME phase = "jobs", promise_state # "pending"
      PROVE  /\ promise_state = state'[current]
             /\ promise_state = "rejected" => error_strace = current
  <2>1. promise_state = state[current] /\ (promise_state = "rejected" => error_strace = current)
    BY <1>2, <1>4 DEF OwnOK
  <2>2. current \in Scripts /\ Settled(current)
    BY <1>4, <2>1 DEF PhaseOK, Settled, RuntimeTypes
  <2> QED
    BY <2>1, <2>2, <1>1
<1>5. VerdictIsOwn'
  <2> SUFFICES ASSUME NEW r \in Scripts
               PROVE  /\ verdict[r].how = "returned" => state'[r] = "fulfilled"
                      /\ verdict[r].how = "rejected" =>
                           state'[r] = "rejected" /\ verdict[r].why = r
    BY DEF VerdictIsOwn
  <2>1. /\ verdict[r].how = "returned" => state[r] = "fulfilled"
        /\ verdict[r].how = "rejected" => state[r] = "rejected" /\ verdict[r].why = r
    BY <1>2 DEF OwnOK, VerdictIsOwn
  <2> QED
    BY <2>1, <1>1 DEF Settled
<1> QED
  BY <1>3, <1>4, <1>5

\* A new job that is no second one for its script leaves the queue in order.
LEMMA QueueGrows ==
  ASSUME jobs \in Seq(Job), NEW job \in Job, jobs' = Append(jobs, job),
         job.what = "resume" => ~Due(job),
         \A i, j \in 1..Len(jobs) : jobs[i] = jobs[j] /\ jobs[i].what = "resume" => i = j
  PROVE  \A i, j \in 1..Len(jobs') :
           jobs'[i] = jobs'[j] /\ jobs'[i].what = "resume" => i = j
<1> SUFFICES ASSUME NEW i \in 1..Len(jobs'), NEW j \in 1..Len(jobs'),
                    jobs'[i] = jobs'[j], jobs'[i].what = "resume"
             PROVE  i = j
  OBVIOUS
<1>1. CASE i \in 1..Len(jobs) /\ j \in 1..Len(jobs)
  BY <1>1, Appended
<1>2. CASE i \in 1..Len(jobs) /\ j = Len(jobs) + 1
  BY <1>2, Appended DEF Due
<1>3. CASE i = Len(jobs) + 1 /\ j \in 1..Len(jobs)
  BY <1>3, Appended DEF Due
<1>4. CASE i = Len(jobs) + 1 /\ j = Len(jobs) + 1
  BY <1>4
<1> QED
  BY <1>1, <1>2, <1>3, <1>4, Appended

\* Without its first job the queue is in order, and that job is not due again.
LEMMA QueueShrinks ==
  ASSUME jobs \in Seq(Job), jobs # <<>>, jobs' = Tail(jobs),
         \A i, j \in 1..Len(jobs) : jobs[i] = jobs[j] /\ jobs[i].what = "resume" => i = j
  PROVE  /\ \A i, j \in 1..Len(jobs') :
              jobs'[i] = jobs'[j] /\ jobs'[i].what = "resume" => i = j
         /\ Head(jobs).what = "resume" =>
              \A i \in 1..Len(jobs') : jobs'[i] # Head(jobs)
<1>1. \A i \in 1..Len(jobs') : i + 1 \in 1..Len(jobs) /\ jobs'[i] = jobs[i + 1] /\ i + 1 # 1
  BY Popped
<1>2. Head(jobs) = jobs[1] /\ 1 \in 1..Len(jobs)
  BY Popped
<1>3. ASSUME NEW i \in 1..Len(jobs'), NEW j \in 1..Len(jobs'),
             jobs'[i] = jobs'[j], jobs'[i].what = "resume"
      PROVE  i = j
  <2>1. i + 1 = j + 1
    BY <1>1, <1>3
  <2> QED
    BY <2>1
<1>4. ASSUME Head(jobs).what = "resume", NEW i \in 1..Len(jobs')
      PROVE  jobs'[i] # Head(jobs)
  BY <1>1, <1>2, <1>4
<1> QED
  BY <1>3, <1>4

\* run_js_file begins.
LEMMA RunKeeps ==
  ASSUME RuntimeInv, NEW s \in Scripts, RunJsFile(s)
  PROVE  PhaseOK' /\ JobOK' /\ OwnOK'
<1>1. /\ phase = "idle" /\ state[s] = "new" /\ phase' = "eval" /\ current' = s /\ running' = s
      /\ state' = [state EXCEPT ![s] = "started"]
      /\ UNCHANGED <<attached, jobs, promise_state, error_strace, verdict>>
  BY DEF RunJsFile
<1>2. \A r \in Scripts : state'[r] = IF r = s THEN "started" ELSE state[r]
  BY <1>1 DEF RuntimeInv, RuntimeTypes
<1>3. s \notin attached /\ verdict[s].how = "none" /\ ~Settled(s)
  BY <1>1 DEF RuntimeInv, JobOK, Unbegun, Settled
<1>4. \A g : Due(g)' <=> Due(g)
  BY <1>1 DEF Due
<1>5. PhaseOK'
  BY <1>1, <1>2, <1>3 DEF PhaseOK, Unbegun
<1>6. JobOK'
  <2>1. \A r \in Scripts : Due(Resume(r))' => state'[r] = "waiting"
    BY <1>1, <1>2, <1>4 DEF RuntimeInv, JobOK, Resume
  <2>2. \A r \in Scripts : Due(Callback(r))' => Settled(r)' /\ r \in attached'
    BY <1>1, <1>2, <1>3, <1>4 DEF RuntimeInv, JobOK, Callback, Settled
  <2>3. \A r \in Scripts : Unbegun(r)' => r \notin attached' /\ verdict'[r].how = "none"
    BY <1>1, <1>2 DEF RuntimeInv, JobOK, Unbegun
  <2>4. \A i, j \in 1..Len(jobs') : jobs'[i] = jobs'[j] /\ jobs'[i].what = "resume" => i = j
    BY <1>1 DEF RuntimeInv, JobOK
  <2> QED
    BY <1>1, <1>2, <2>1, <2>2, <2>3, <2>4 DEF JobOK
<1>7. OwnOK'
  <2> SUFFICES ASSUME NothingLeftBehind'
               PROVE  (\A r \in attached : Settled(r)' /\ ~Due(Callback(r))') /\ VerdictIsOwn'
    BY <1>1 DEF OwnOK
  <2>1. NothingLeftBehind
    BY <1>1 DEF NothingLeftBehind
  <2>2. \A r \in attached : r \in Scripts /\ r # s /\ Settled(r) /\ ~Due(Callback(r))
    BY <1>1, <1>3, <2>1 DEF RuntimeInv, OwnOK, RuntimeTypes
  <2>3. \A r \in attached : Settled(r)' /\ ~Due(Callback(r))'
    BY <1>2, <1>4, <2>2 DEF Settled, Callback
  <2>4. VerdictIsOwn'
    BY <1>1, <1>2, <1>3, <2>1 DEF RuntimeInv, OwnOK, VerdictIsOwn
  <2> QED
    BY <2>3, <2>4
<1> QED
  BY <1>5, <1>6, <1>7

\* A text that does not compile ends nothing but its own run.
LEMMA CompileKeeps ==
  ASSUME RuntimeInv, NEW s \in Scripts, CompileFails(s)
  PROVE  PhaseOK' /\ JobOK' /\ OwnOK'
<1>1. /\ phase = "idle" /\ state[s] = "new" /\ state' = [state EXCEPT ![s] = "rejected"]
      /\ verdict' = [verdict EXCEPT ![s] = [how |-> "not compiled", why |-> NoScript]]
      /\ UNCHANGED <<phase, current, running, attached, jobs, promise_state, error_strace>>
  BY DEF CompileFails
<1>2. /\ \A r \in Scripts : r # s => state'[r] = state[r] /\ verdict'[r] = verdict[r]
      /\ state'[s] = "rejected" /\ verdict'[s].how = "not compiled"
  BY <1>1 DEF RuntimeInv, RuntimeTypes
<1>3. s \notin attached /\ verdict[s].how = "none" /\ ~Settled(s)
  BY <1>1 DEF RuntimeInv, JobOK, Unbegun, Settled
<1>4. \A g : Due(g)' <=> Due(g)
  BY <1>1 DEF Due
<1>5. PhaseOK'
  BY <1>1 DEF RuntimeInv, PhaseOK, Unbegun
<1>6. JobOK'
  <2>1. \A r \in Scripts : Due(Resume(r))' => state'[r] = "waiting"
    BY <1>1, <1>2, <1>4, ZenonT(30) DEF RuntimeInv, JobOK, Resume
  <2>2. \A r \in Scripts : Due(Callback(r))' => Settled(r)' /\ r \in attached'
    BY <1>1, <1>2, <1>3, <1>4 DEF RuntimeInv, JobOK, Callback, Settled
  <2>3. \A r \in Scripts : Unbegun(r)' => r \notin attached' /\ verdict'[r].how = "none"
    BY <1>1, <1>2 DEF RuntimeInv, JobOK, Unbegun
  <2>4. \A i, j \in 1..Len(jobs') : jobs'[i] = jobs'[j] /\ jobs'[i].what = "resume" => i = j
    BY <1>1 DEF RuntimeInv, JobOK
  <2>5. running' \in Scripts => state'[running'] = "started"
    BY <1>1, ScriptsAssumption DEF RuntimeInv, PhaseOK
  <2> QED
    BY <2>1, <2>2, <2>3, <2>4, <2>5 DEF JobOK
<1>7. OwnOK'
  <2> SUFFICES ASSUME NothingLeftBehind'
               PROVE  (\A r \in attached : Settled(r)' /\ ~Due(Callback(r))') /\ VerdictIsOwn'
    BY <1>1 DEF OwnOK
  <2>1. NothingLeftBehind
    BY <1>2, <1>3, LeftBehindStays
  <2>2. \A r \in attached : r \in Scripts /\ r # s /\ Settled(r) /\ ~Due(Callback(r))
    BY <1>1, <1>3, <2>1 DEF RuntimeInv, OwnOK, RuntimeTypes
  <2>3. \A r \in attached : Settled(r)' /\ ~Due(Callback(r))'
    BY <1>2, <1>4, <2>2 DEF Settled, Callback
  <2>4. VerdictIsOwn'
    BY <1>1, <1>2, <1>3, <2>1, ZenonT(30) DEF RuntimeInv, OwnOK, VerdictIsOwn
  <2> QED
    BY <2>3, <2>4
<1> QED
  BY <1>5, <1>6, <1>7

\* A job for a callback leaves the order of the others alone.
LEMMA QueuedDue ==
  ASSUME RuntimeTypes, JobOK, NEW s \in Scripts, NEW due \in BOOLEAN, jobs' = Queued(s, due)
  PROVE  /\ \A g : Due(g)' <=> (Due(g) \/ (due /\ g = Callback(s)))
         /\ \A i, j \in 1..Len(jobs') :
              jobs'[i] = jobs'[j] /\ jobs'[i].what = "resume" => i = j
<1>1. CASE due
  <2>1. jobs' = Append(jobs, Callback(s)) /\ jobs \in Seq(Job)
    BY <1>1 DEF Queued, RuntimeTypes
  <2>2. Callback(s) \in Job /\ Callback(s).what # "resume"
    BY JobTypes
  <2>3. \A g : Due(g)' <=> Due(g) \/ g = Callback(s)
    BY <2>1, <2>2, DueAppended
  <2>4. \A i, j \in 1..Len(jobs) : jobs[i] = jobs[j] /\ jobs[i].what = "resume" => i = j
    BY DEF JobOK
  <2>5. \A i, j \in 1..Len(jobs') : jobs'[i] = jobs'[j] /\ jobs'[i].what = "resume" => i = j
    BY <2>1, <2>2, <2>4, QueueGrows
  <2> QED
    BY <1>1, <2>3, <2>5
<1>2. CASE ~due
  <2>1. jobs' = jobs
    BY <1>2 DEF Queued
  <2> QED
    BY <1>2, <2>1 DEF JobOK, Due
<1> QED
  BY <1>1, <1>2

\* The callbacks are attached to the current script's promise.
LEMMA AttachKeeps ==
  ASSUME RuntimeInv, AttachCallbacks
  PROVE  PhaseOK' /\ JobOK' /\ OwnOK'
<1>1. /\ phase = "eval" /\ phase' = "jobs" /\ running = NoScript /\ promise_state' = "pending"
      /\ attached' = attached \cup {current} /\ jobs' = Queued(current, Settled(current))
      /\ UNCHANGED <<current, running, state, error_strace, verdict>>
  BY DEF AttachCallbacks
<1>2. /\ current \in Scripts /\ ~Unbegun(current) /\ verdict[current].how = "none"
      /\ current \notin attached
  BY <1>1 DEF RuntimeInv, PhaseOK
<1>3. /\ \A g : Due(g)' <=> (Due(g) \/ (Settled(current) /\ g = Callback(current)))
      /\ \A i, j \in 1..Len(jobs') : jobs'[i] = jobs'[j] /\ jobs'[i].what = "resume" => i = j
  <2>1. Settled(current) \in BOOLEAN
    BY DEF Settled
  <2> QED
    BY <1>1, <1>2, <2>1, QueuedDue DEF RuntimeInv
<1>4. PhaseOK'
  BY <1>1, <1>2 DEF PhaseOK, Unbegun
<1>5. JobOK'
  <2>1. \A r \in Scripts : Due(Resume(r))' => state'[r] = "waiting"
    BY <1>1, <1>2, <1>3, JobTypes DEF RuntimeInv, JobOK
  <2>2. \A r \in Scripts : Due(Callback(r))' => Settled(r)' /\ r \in attached'
    <3> SUFFICES ASSUME NEW r \in Scripts, Due(Callback(r))'
                 PROVE  Settled(r)' /\ r \in attached'
      OBVIOUS
    <3>1. CASE Due(Callback(r))
      BY <1>1, <3>1 DEF RuntimeInv, JobOK, Settled
    <3>2. CASE Settled(current) /\ Callback(r) = Callback(current)
      <4>1. r = current
        BY <1>2, <3>2, JobTypes
      <4> QED
        BY <1>1, <3>2, <4>1 DEF Settled
    <3> QED
      BY <1>3, <3>1, <3>2
  <2>3. \A r \in Scripts : Unbegun(r)' => r \notin attached' /\ verdict'[r].how = "none"
    BY <1>1, <1>2 DEF RuntimeInv, JobOK, Unbegun
  <2>4. running' \in Scripts => state'[running'] = "started"
    BY <1>1, ScriptsAssumption
  <2> QED
    BY <1>3, <2>1, <2>2, <2>3, <2>4 DEF JobOK
<1>6. OwnOK'
  <2> SUFFICES ASSUME NothingLeftBehind'
               PROVE  /\ \A r \in attached' : r = current \/ (Settled(r)' /\ ~Due(Callback(r))')
                      /\ VerdictIsOwn'
    BY <1>1 DEF OwnOK
  <2>1. NothingLeftBehind
    BY <1>1, LeftBehindStays
  <2>2. ASSUME NEW r \in attached', r # current
        PROVE  Settled(r)' /\ ~Due(Callback(r))'
    <3>1. r \in Scripts /\ Settled(r) /\ ~Due(Callback(r))
      BY <1>1, <2>1, <2>2 DEF RuntimeInv, OwnOK, RuntimeTypes
    <3>2. Callback(r) # Callback(current)
      BY <1>2, <2>2, <3>1, JobTypes
    <3> QED
      BY <1>1, <1>3, <3>1, <3>2 DEF Settled
  <2>3. VerdictIsOwn'
    BY <1>1, <2>1 DEF RuntimeInv, OwnOK, VerdictIsOwn
  <2> QED
    BY <2>2, <2>3
<1> QED
  BY <1>4, <1>5, <1>6

\* A run without check_error ends at once.
LEMMA UncheckedKeeps ==
  ASSUME RuntimeInv, ReturnUnchecked
  PROVE  PhaseOK' /\ JobOK' /\ OwnOK'
<1>1. /\ phase = "eval" /\ running = NoScript /\ Ends("unchecked")
      /\ UNCHANGED <<running, state, attached, jobs, promise_state, error_strace>>
  BY DEF ReturnUnchecked
<1>2. /\ current \in Scripts /\ ~Unbegun(current) /\ verdict[current].how = "none"
      /\ current \notin attached
  BY <1>1 DEF RuntimeInv, PhaseOK
<1>3. /\ phase' = "idle" /\ current' = NoScript
      /\ \A r \in Scripts : r # current => verdict'[r] = verdict[r]
      /\ verdict'[current].how = "unchecked"
  <2>1. "unchecked" \in Endings
    BY DEF Endings
  <2> QED
    BY <1>1, <1>2, <2>1, EndsTypes DEF RuntimeInv
<1>4. PhaseOK'
  BY <1>1, <1>3 DEF PhaseOK
<1>5. JobOK'
  BY <1>1, <1>2, <1>3, ScriptsAssumption DEF RuntimeInv, JobOK, Unbegun, Due, Settled, Resume, Callback
<1>6. OwnOK'
  <2> SUFFICES ASSUME NothingLeftBehind'
               PROVE  (\A r \in attached : Settled(r)' /\ ~Due(Callback(r))') /\ VerdictIsOwn'
    BY <1>1, <1>3 DEF OwnOK
  <2>1. NothingLeftBehind
    BY <1>2, <1>3, LeftBehindStays
  <2>2. \A r \in attached : Settled(r)' /\ ~Due(Callback(r))'
    BY <1>1, <1>2, <2>1 DEF RuntimeInv, OwnOK, Settled, Due, Callback
  <2>3. VerdictIsOwn'
    BY <1>1, <1>2, <1>3, <2>1 DEF RuntimeInv, OwnOK, VerdictIsOwn
  <2> QED
    BY <2>2, <2>3
<1> QED
  BY <1>4, <1>5, <1>6

\* The first job of the queue, and the queue without it.
LEMMA FirstJob ==
  ASSUME RuntimeTypes, JobOK, jobs # <<>>, jobs' = Tail(jobs), NEW h, h = Head(jobs)
  PROVE  /\ h \in Job /\ Due(h)
         /\ \A g : Due(g)' => Due(g)
         /\ h.what = "resume" => ~Due(h)'
         /\ \A i, j \in 1..Len(jobs') :
              jobs'[i] = jobs'[j] /\ jobs'[i].what = "resume" => i = j
<1>1. jobs \in Seq(Job)
  BY DEF RuntimeTypes
<1>2. h \in Job /\ Due(h)
  BY <1>1, Popped DEF Due
<1>3. \A g : Due(g)' => Due(g)
  BY <1>1, DuePopped
<1>4. \A i, j \in 1..Len(jobs) : jobs[i] = jobs[j] /\ jobs[i].what = "resume" => i = j
  BY DEF JobOK
<1>5. /\ \A i, j \in 1..Len(jobs') : jobs'[i] = jobs'[j] /\ jobs'[i].what = "resume" => i = j
      /\ h.what = "resume" => \A i \in 1..Len(jobs') : jobs'[i] # h
  BY <1>1, <1>4, QueueShrinks
<1> QED
  BY <1>2, <1>3, <1>5 DEF Due

\* A job resumes its script.
LEMMA ResumeKeeps ==
  ASSUME RuntimeInv, ResumeJob
  PROVE  PhaseOK' /\ JobOK' /\ OwnOK'
<1>1. PICK s, h : s = Head(jobs).of /\ h = Head(jobs)
  OBVIOUS
<1>2. /\ phase = "jobs" /\ running = NoScript /\ jobs # <<>> /\ h.what = "resume"
      /\ jobs' = Tail(jobs) /\ running' = s /\ state' = [state EXCEPT ![s] = "started"]
      /\ UNCHANGED <<phase, current, attached, promise_state, error_strace, verdict>>
  BY <1>1 DEF ResumeJob
<1>3. /\ h \in Job /\ Due(h) /\ ~Due(h)'
      /\ \A g : Due(g)' => Due(g)
      /\ \A i, j \in 1..Len(jobs') : jobs'[i] = jobs'[j] /\ jobs'[i].what = "resume" => i = j
  BY <1>1, <1>2, FirstJob DEF RuntimeInv
<1>4. s \in Scripts /\ h = Resume(s) /\ state[s] = "waiting"
  BY <1>1, <1>2, <1>3, JobKinds DEF RuntimeInv, JobOK
<1>5. /\ \A r \in Scripts : r # s => state'[r] = state[r]
      /\ state'[s] = "started" /\ ~Settled(s)
  BY <1>2, <1>4 DEF RuntimeInv, RuntimeTypes, Settled
<1>6. PhaseOK'
  BY <1>2, <1>5 DEF RuntimeInv, PhaseOK, Unbegun
<1>7. JobOK'
  <2>1. \A r \in Scripts : Due(Resume(r))' => state'[r] = "waiting"
    <3> SUFFICES ASSUME NEW r \in Scripts, Due(Resume(r))'
                 PROVE  state'[r] = "waiting"
      OBVIOUS
    <3>1. Due(Resume(r)) /\ Resume(r) # Resume(s)
      BY <1>3, <1>4 DEF Resume
    <3> QED
      BY <1>5, <3>1 DEF RuntimeInv, JobOK
  <2>2. \A r \in Scripts : Due(Callback(r))' => Settled(r)' /\ r \in attached'
    BY <1>2, <1>3, <1>5 DEF RuntimeInv, JobOK, Settled, Callback
  <2>3. \A r \in Scripts : Unbegun(r)' => r \notin attached' /\ verdict'[r].how = "none"
    BY <1>2, <1>5 DEF RuntimeInv, JobOK, Unbegun
  <2> QED
    BY <1>2, <1>3, <1>5, <2>1, <2>2, <2>3 DEF JobOK
<1>8. OwnOK'
  <2>1. \A r \in Scripts : r # s => (Due(Callback(r))' => Due(Callback(r)))
    BY <1>3 DEF Callback
  <2> QED
    BY <1>2, <1>4, <1>5, <2>1, OwnStays DEF RuntimeInv
<1> QED
  BY <1>6, <1>7, <1>8

\* A callback that runs is the current script's, unless one was left behind.
LEMMA CallbackKeeps ==
  ASSUME RuntimeInv, CallbackJob
  PROVE  PhaseOK' /\ JobOK' /\ OwnOK'
<1>1. PICK s, h : s = Head(jobs).of /\ h = Head(jobs)
  OBVIOUS
<1>2. /\ phase = "jobs" /\ jobs # <<>> /\ h.what = "callback" /\ jobs' = Tail(jobs)
      /\ promise_state' = state[s]
      /\ error_strace' = IF state[s] = "rejected" THEN s ELSE error_strace
      /\ UNCHANGED <<phase, current, running, state, attached, verdict>>
  BY <1>1 DEF CallbackJob
<1>3. /\ h \in Job /\ Due(h)
      /\ \A g : Due(g)' => Due(g)
      /\ \A i, j \in 1..Len(jobs') : jobs'[i] = jobs'[j] /\ jobs'[i].what = "resume" => i = j
  BY <1>1, <1>2, FirstJob DEF RuntimeInv
<1>4. s \in Scripts /\ h = Callback(s) /\ s \in attached
  BY <1>1, <1>2, <1>3, JobKinds DEF RuntimeInv, JobOK
<1>5. PhaseOK'
  BY <1>2 DEF RuntimeInv, PhaseOK, Unbegun
<1>6. JobOK'
  BY <1>2, <1>3 DEF RuntimeInv, JobOK, Unbegun, Settled, Callback, Resume
<1>7. OwnOK'
  <2> SUFFICES ASSUME NothingLeftBehind'
               PROVE  /\ \A r \in attached : r = current \/ (Settled(r)' /\ ~Due(Callback(r))')
                      /\ promise_state' = state[current]
                      /\ promise_state' = "rejected" => error_strace' = current
                      /\ VerdictIsOwn'
    BY <1>2 DEF OwnOK
  <2>1. NothingLeftBehind
    BY <1>2, LeftBehindStays
  <2>2. s = current
    BY <1>3, <1>4, <2>1 DEF RuntimeInv, OwnOK
  <2>3. \A r \in attached : r = current \/ (Settled(r)' /\ ~Due(Callback(r))')
    BY <1>2, <1>3, <2>1 DEF RuntimeInv, OwnOK, Settled, Callback
  <2>4. VerdictIsOwn'
    BY <1>2, <2>1 DEF RuntimeInv, OwnOK, VerdictIsOwn
  <2> QED
    BY <1>2, <2>2, <2>3, <2>4
<1> QED
  BY <1>5, <1>6, <1>7

\* A job fails.
LEMMA FailKeeps ==
  ASSUME RuntimeInv, JobFails
  PROVE  PhaseOK' /\ JobOK' /\ OwnOK'
<1>1. PICK s, h : s = Head(jobs).of /\ h = Head(jobs)
  OBVIOUS
<1>2. /\ phase = "jobs" /\ running = NoScript /\ jobs # <<>> /\ h.what = "resume"
      /\ jobs' = Tail(jobs) /\ state' = [state EXCEPT ![s] = "lost"] /\ Ends("job failed")
      /\ UNCHANGED <<running, attached, promise_state, error_strace>>
  BY <1>1 DEF JobFails
<1>3. /\ h \in Job /\ Due(h) /\ ~Due(h)'
      /\ \A g : Due(g)' => Due(g)
      /\ \A i, j \in 1..Len(jobs') : jobs'[i] = jobs'[j] /\ jobs'[i].what = "resume" => i = j
  BY <1>1, <1>2, FirstJob DEF RuntimeInv
<1>4. s \in Scripts /\ h = Resume(s) /\ state[s] = "waiting"
  BY <1>1, <1>2, <1>3, JobKinds DEF RuntimeInv, JobOK
<1>5. /\ \A r \in Scripts : r # s => state'[r] = state[r]
      /\ state'[s] = "lost" /\ ~Settled(s)
  BY <1>2, <1>4 DEF RuntimeInv, RuntimeTypes, Settled
<1>6. /\ current \in Scripts /\ ~Unbegun(current)
      /\ phase' = "idle" /\ current' = NoScript
      /\ \A r \in Scripts : r # current => verdict'[r] = verdict[r]
      /\ verdict'[current].how = "job failed"
  <2>1. "job failed" \in Endings
    BY DEF Endings
  <2> QED
    BY <1>2, <2>1, EndsTypes DEF RuntimeInv, PhaseOK
<1>7. PhaseOK'
  BY <1>2, <1>6 DEF PhaseOK
<1>8. JobOK'
  <2>1. \A r \in Scripts : Due(Resume(r))' => state'[r] = "waiting"
    <3> SUFFICES ASSUME NEW r \in Scripts, Due(Resume(r))'
                 PROVE  state'[r] = "waiting"
      OBVIOUS
    <3>1. Due(Resume(r)) /\ Resume(r) # Resume(s)
      BY <1>3, <1>4 DEF Resume
    <3> QED
      BY <1>5, <3>1 DEF RuntimeInv, JobOK
  <2>2. \A r \in Scripts : Due(Callback(r))' => Settled(r)' /\ r \in attached'
    BY <1>2, <1>3, <1>5 DEF RuntimeInv, JobOK, Settled, Callback
  <2>3. \A r \in Scripts : Unbegun(r)' => r \notin attached' /\ verdict'[r].how = "none"
    <3> SUFFICES ASSUME NEW r \in Scripts, Unbegun(r)'
                 PROVE  r \notin attached' /\ verdict'[r].how = "none"
      OBVIOUS
    <3>1. r # s /\ Unbegun(r)
      BY <1>5 DEF Unbegun
    <3>2. r # current
      BY <1>6, <3>1
    <3> QED
      BY <1>2, <1>6, <3>1, <3>2 DEF RuntimeInv, JobOK
  <2> QED
    BY <1>2, <1>3, <2>1, <2>2, <2>3, ScriptsAssumption DEF JobOK
<1>9. OwnOK'
  BY <1>6 DEF OwnOK, NothingLeftBehind
<1> QED
  BY <1>7, <1>8, <1>9

\* No callback is due any more: what promise_state says stands.
LEMMA ReportKeeps ==
  ASSUME RuntimeInv, Report
  PROVE  PhaseOK' /\ JobOK' /\ OwnOK'
<1>1. /\ phase = "jobs" /\ running = NoScript /\ jobs = <<>>
      /\ UNCHANGED <<running, state, attached, jobs, promise_state, error_strace>>
  BY DEF Report
<1>2. /\ current \in Scripts /\ ~Unbegun(current) /\ verdict[current].how = "none"
      /\ current \in attached
  BY <1>1 DEF RuntimeInv, PhaseOK
<1>3. /\ phase' = "idle" /\ current' = NoScript
      /\ \A r \in Scripts : r # current => verdict'[r] = verdict[r]
      /\ verdict'[current].how = Reported
      /\ Reported = "rejected" => verdict'[current].why = error_strace
  BY <1>2, ReportEnds, EndsTypes DEF RuntimeInv
<1>4. \A g : ~Due(g) /\ ~Due(g)'
  BY <1>1 DEF Due
<1>5. PhaseOK'
  BY <1>1, <1>3 DEF PhaseOK
<1>6. JobOK'
  <2>1. \A r \in Scripts : ~Due(Resume(r))' /\ ~Due(Callback(r))'
    BY <1>4 DEF Resume, Callback
  <2>2. \A r \in Scripts : Unbegun(r)' => r \notin attached' /\ verdict'[r].how = "none"
    BY <1>1, <1>2, <1>3 DEF RuntimeInv, JobOK, Unbegun
  <2> QED
    BY <1>1, <2>1, <2>2, ScriptsAssumption DEF JobOK
<1>7. OwnOK'
  <2> SUFFICES ASSUME NothingLeftBehind'
               PROVE  (\A r \in attached : Settled(r)' /\ ~Due(Callback(r))') /\ VerdictIsOwn'
    BY <1>1, <1>3 DEF OwnOK
  <2>1. NothingLeftBehind
    BY <1>2, <1>3, LeftBehindStays
  <2>2. promise_state # "pending"
    BY <1>2, <1>3 DEF NothingLeftBehind, Reported
  <2>3. promise_state = state[current] /\ (promise_state = "rejected" => error_strace = current)
    BY <1>1, <2>1, <2>2 DEF RuntimeInv, OwnOK
  <2>4. promise_state \in {"fulfilled", "rejected"}
    BY <2>2 DEF RuntimeInv, RuntimeTypes
  <2>5. \A r \in attached : Settled(r)' /\ ~Due(Callback(r))'
    BY <1>1, <1>4, <2>1, <2>3, <2>4 DEF RuntimeInv, OwnOK, Settled, Callback
  <2>6. VerdictIsOwn'
    <3> SUFFICES ASSUME NEW r \in Scripts
                 PROVE  /\ verdict'[r].how = "returned" => state[r] = "fulfilled"
                        /\ verdict'[r].how = "rejected" =>
                             state[r] = "rejected" /\ verdict'[r].why = r
      BY <1>1 DEF VerdictIsOwn
    <3>1. CASE r = current
      BY <1>3, <2>3, <2>4, <3>1 DEF Reported
    <3>2. CASE r # current
      BY <1>3, <2>1, <3>2 DEF RuntimeInv, OwnOK, VerdictIsOwn
    <3> QED
      BY <3>1, <3>2
  <2> QED
    BY <2>5, <2>6
<1> QED
  BY <1>5, <1>6, <1>7

\* What a step of the scripts does to the state of one script, which had begun
\* and was not settled.
Moves(s, to) ==
  /\ state' = [state EXCEPT ![s] = to]
  /\ running' \in {running, NoScript}
  /\ UNCHANGED <<phase, current, attached, promise_state, error_strace, verdict>>

\* A script on the stack goes to another state.
LEMMA MoveKeeps ==
  ASSUME RuntimeInv, NEW s \in Scripts, state[s] \in {"started", "waiting", "hanging"},
         NEW to \in {"waiting", "hanging", "fulfilled", "rejected"}, Moves(s, to),
         running' = s => FALSE,
         phase # "idle",
         \A r \in Scripts :
           Due(Resume(r))' => Due(Resume(r)) \/ (r = s /\ to = "waiting"),
         ~Due(Resume(s)),
         \A r \in Scripts :
           Due(Callback(r))' =>
             Due(Callback(r)) \/ (r = s /\ s \in attached /\ to \in {"fulfilled", "rejected"}),
         \A i, j \in 1..Len(jobs') : jobs'[i] = jobs'[j] /\ jobs'[i].what = "resume" => i = j
  PROVE  PhaseOK' /\ JobOK' /\ OwnOK'
<1>1. /\ \A r \in Scripts : r # s => state'[r] = state[r]
      /\ state'[s] = to /\ ~Settled(s) /\ ~Unbegun(s)
  BY DEF RuntimeInv, RuntimeTypes, Moves, Settled, Unbegun
<1>2. PhaseOK'
  BY <1>1 DEF RuntimeInv, PhaseOK, Unbegun, Moves
<1>3. JobOK'
  <2>1. \A r \in Scripts : Due(Resume(r))' => state'[r] = "waiting"
    BY <1>1 DEF RuntimeInv, JobOK
  <2>2. \A r \in Scripts : Due(Callback(r))' => Settled(r)' /\ r \in attached'
    BY <1>1 DEF RuntimeInv, JobOK, Settled, Moves
  <2>3. \A r \in Scripts : Unbegun(r)' => r \notin attached' /\ verdict'[r].how = "none"
    BY <1>1 DEF RuntimeInv, JobOK, Unbegun, Moves
  <2>4. running' \in Scripts => state'[running'] = "started"
    BY <1>1, ScriptsAssumption DEF RuntimeInv, JobOK, Moves
  <2> QED
    BY <2>1, <2>2, <2>3, <2>4 DEF JobOK
<1>4. OwnOK'
  BY <1>1, OwnStays DEF RuntimeInv, Moves
<1> QED
  BY <1>2, <1>3, <1>4

\* Every yield is such a move.
LEMMA YieldMoves ==
  ASSUME RuntimeInv, NEW to, Yields(to)
  PROVE  /\ running \in Scripts /\ state[running] = "started" /\ running' = NoScript
         /\ phase # "idle" /\ ~Due(Resume(running)) /\ running' # running
         /\ state' = [state EXCEPT ![running] = to]
         /\ UNCHANGED <<phase, current, promise_state, error_strace, verdict>>
<1>1. running \in Scripts /\ running' = NoScript
  BY DEF Yields, RuntimeInv, RuntimeTypes
<1> QED
  BY <1>1 DEF Yields, RuntimeInv, JobOK, PhaseOK

\* The script on the stack yields.
LEMMA YieldKeeps ==
  ASSUME RuntimeInv, ScriptYields
  PROVE  PhaseOK' /\ JobOK' /\ OwnOK'
<1> PICK s : s = running
  OBVIOUS
<1>1. jobs \in Seq(Job)
  BY DEF RuntimeInv, RuntimeTypes
<1>2. \A i, j \in 1..Len(jobs) : jobs[i] = jobs[j] /\ jobs[i].what = "resume" => i = j
  BY DEF RuntimeInv, JobOK
<1>3. CASE Await
  <2>1. Yields("waiting") /\ jobs' = Append(jobs, Resume(s)) /\ attached' = attached
    BY <1>3 DEF Await
  <2>2. /\ s \in Scripts /\ state[s] = "started" /\ ~Due(Resume(s)) /\ phase # "idle"
        /\ running' # s /\ Moves(s, "waiting")
    BY <2>1, YieldMoves DEF Moves
  <2>3. Resume(s) \in Job
    BY <2>2, JobTypes
  <2>4. \A g : Due(g)' <=> Due(g) \/ g = Resume(s)
    BY <1>1, <2>1, <2>3, DueAppended
  <2>5. \A r \in Scripts : /\ Due(Resume(r))' => Due(Resume(r)) \/ r = s
                           /\ Due(Callback(r))' => Due(Callback(r))
    BY <2>2, <2>4 DEF Resume, Callback
  <2>6. \A i, j \in 1..Len(jobs') : jobs'[i] = jobs'[j] /\ jobs'[i].what = "resume" => i = j
    BY <1>1, <1>2, <2>1, <2>2, <2>3, QueueGrows
  <2> QED
    BY <2>2, <2>5, <2>6, MoveKeeps
<1>4. CASE AwaitOther
  <2>1. Yields("hanging") /\ jobs' = jobs /\ attached' = attached
    BY <1>4 DEF AwaitOther
  <2>2. /\ s \in Scripts /\ state[s] = "started" /\ ~Due(Resume(s)) /\ phase # "idle"
        /\ running' # s /\ Moves(s, "hanging")
    BY <2>1, YieldMoves DEF Moves
  <2>3. \A r \in Scripts : /\ Due(Resume(r))' => Due(Resume(r))
                           /\ Due(Callback(r))' => Due(Callback(r))
    BY <2>1 DEF Due, Resume, Callback
  <2> QED
    BY <1>2, <2>1, <2>2, <2>3, MoveKeeps
<1>5. ASSUME NEW how \in {"fulfilled", "rejected"}, Settle(how)
      PROVE  PhaseOK' /\ JobOK' /\ OwnOK'
  <2>1. Yields(how) /\ jobs' = Queued(s, s \in attached) /\ attached' = attached
    BY <1>5 DEF Settle
  <2>2. /\ s \in Scripts /\ state[s] = "started" /\ ~Due(Resume(s)) /\ phase # "idle"
        /\ running' # s /\ Moves(s, how)
    BY <2>1, YieldMoves DEF Moves
  <2>3. /\ \A g : Due(g)' <=> (Due(g) \/ (s \in attached /\ g = Callback(s)))
        /\ \A i, j \in 1..Len(jobs') :
             jobs'[i] = jobs'[j] /\ jobs'[i].what = "resume" => i = j
    <3>1. (s \in attached) \in BOOLEAN
      OBVIOUS
    <3> QED
      BY <2>1, <2>2, <3>1, QueuedDue DEF RuntimeInv
  <2>4. \A r \in Scripts :
          /\ Due(Resume(r))' => Due(Resume(r))
          /\ Due(Callback(r))' => Due(Callback(r)) \/ (r = s /\ s \in attached)
    BY <2>2, <2>3 DEF Resume, Callback
  <2> QED
    BY <2>2, <2>3, <2>4, MoveKeeps
<1> QED
  BY <1>3, <1>4, <1>5 DEF ScriptYields

\* A script settles what another awaits.
LEMMA WakeKeeps ==
  ASSUME RuntimeInv, NEW s \in Scripts, Wake(s)
  PROVE  PhaseOK' /\ JobOK' /\ OwnOK'
<1>1. /\ running # NoScript /\ state[s] = "hanging" /\ jobs' = Append(jobs, Resume(s))
      /\ Moves(s, "waiting") /\ running' = running
  BY DEF Wake, Moves
<1>2. jobs \in Seq(Job) /\ Resume(s) \in Job
  BY JobTypes DEF RuntimeInv, RuntimeTypes
<1>3. /\ ~Due(Resume(s)) /\ running' # s /\ phase # "idle"
      /\ \A i, j \in 1..Len(jobs) : jobs[i] = jobs[j] /\ jobs[i].what = "resume" => i = j
  BY <1>1 DEF RuntimeInv, JobOK, PhaseOK
<1>4. \A g : Due(g)' <=> Due(g) \/ g = Resume(s)
  BY <1>1, <1>2, DueAppended
<1>5. \A r \in Scripts : /\ Due(Resume(r))' => Due(Resume(r)) \/ r = s
                         /\ Due(Callback(r))' => Due(Callback(r))
  BY <1>4 DEF Resume, Callback
<1>6. \A i, j \in 1..Len(jobs') : jobs'[i] = jobs'[j] /\ jobs'[i].what = "resume" => i = j
  BY <1>1, <1>2, <1>3, QueueGrows
<1> QED
  BY <1>1, <1>3, <1>5, <1>6, MoveKeeps

-----------------------------------------------------------------------------
(* The runtime's invariant.                                                *)

\* Every step of the runtime keeps its invariant.
LEMMA RuntimeKeeps ==
  ASSUME RuntimeInv, RuntimeStep
  PROVE  RuntimeInv'
<1>1. ASSUME NEW s \in Scripts, RunJsFile(s) \/ CompileFails(s)
      PROVE  RuntimeInv'
  BY <1>1, RunTypes, RunKeeps, CompileKeeps DEF RuntimeInv
<1>2. CASE AttachCallbacks \/ ReturnUnchecked \/ ResumeJob \/ CallbackJob \/ JobFails \/ Report
  <2>1. RuntimeTypes'
    BY <1>2, PhaseTypes DEF RuntimeInv
  <2>2. PhaseOK' /\ JobOK' /\ OwnOK'
    BY <1>2, AttachKeeps, UncheckedKeeps, ResumeKeeps, CallbackKeeps, FailKeeps, ReportKeeps
  <2> QED
    BY <2>1, <2>2 DEF RuntimeInv
<1>3. CASE ScriptYields \/ \E s \in Scripts : Wake(s)
  <2>1. RuntimeTypes'
    BY <1>3, ScriptTypes DEF RuntimeInv
  <2>2. PhaseOK' /\ JobOK' /\ OwnOK'
    BY <1>3, YieldKeeps, WakeKeeps
  <2> QED
    BY <2>1, <2>2 DEF RuntimeInv
<1>4. CASE UNCHANGED runtimeVars
  <2>1. RuntimeTypes' /\ PhaseOK'
    BY <1>4 DEF runtimeVars, RuntimeInv, RuntimeTypes, PhaseOK, Unbegun
  <2>2. JobOK'
    BY <1>4 DEF runtimeVars, RuntimeInv, JobOK, Due, Unbegun, Settled, Resume, Callback
  <2>3. OwnOK'
    BY <1>4 DEF runtimeVars, RuntimeInv, OwnOK, Due, Settled, Callback, NothingLeftBehind,
                VerdictIsOwn
  <2> QED
    BY <2>1, <2>2, <2>3 DEF RuntimeInv
<1> QED
  BY <1>1, <1>2, <1>3, <1>4 DEF RuntimeStep, RunJsFileStep

\* The runtime's invariant holds at first.
LEMMA RuntimeBegins ==
  ASSUME NEW present \in SUBSET Scripts, RuntimeInit(present)
  PROVE  RuntimeInv
<1>1. RuntimeTypes
  BY DEF RuntimeInit, RuntimeTypes, Endings
<1>2. \A g : ~Due(g)
  BY DEF RuntimeInit, Due
<1>3. JobOK
  <2>1. \A s \in Scripts : ~Due(Resume(s)) /\ ~Due(Callback(s))
    BY <1>2 DEF Resume, Callback
  <2> QED
    BY <2>1, ScriptsAssumption DEF JobOK, RuntimeInit
<1>4. PhaseOK
  BY DEF RuntimeInit, PhaseOK
<1>5. OwnOK
  BY DEF RuntimeInit, OwnOK, VerdictIsOwn
<1> QED
  BY <1>1, <1>3, <1>4, <1>5 DEF RuntimeInv

\* Every step of the system is one of the runtime or leaves it alone.
LEMMA StepsOfRuntime ==
  ASSUME [Next]_vars
  PROVE  RuntimeStep
  BY DEF Next, vars, Calls, Reads, Yield, WakesOther, Runs, RuntimeStep

\* The runtime's invariant: run_js_file's phases, the queue, and what speaks
\* for whom (js.cc:131-175).
THEOREM RuntimeCorrect == Spec => []RuntimeInv
<1>1. Init => RuntimeInv
  BY RuntimeBegins, WorldsAssumption DEF Init
<1>2. RuntimeInv /\ [Next]_vars => RuntimeInv'
  BY RuntimeKeeps, StepsOfRuntime
<1> QED
  BY <1>1, <1>2, PTL DEF Spec

\* run_js_file returns only for a script whose module was fulfilled and throws
\* the reason of that script and no other, as long as no script before it was
\* left pending or its jobs were (js.cc:131-175): for any scripts, awaits and
\* wake-ups, in any order.
THEOREM VerdictIsTheScriptsOwn == Spec => []VerdictIsOwn
<1>1. RuntimeInv => VerdictIsOwn
  BY DEF RuntimeInv, OwnOK, VerdictIsOwn
<1> QED
  BY <1>1, RuntimeCorrect, PTL

-----------------------------------------------------------------------------
(* The runtime and the streams together.                                   *)

\* A script leaves the stack only between calls of `with'.
NothingRuns == running = NoScript => frames = <<>>

\* A call of `with' is over when its script leaves the stack.
LEMMA NothingRunsKeeps ==
  ASSUME StreamsInv, RuntimeInv, NothingRuns, [Next]_vars
  PROVE  NothingRuns'
<1>1. CASE Calls
  BY <1>1 DEF Calls, runtimeVars, NothingRuns
<1>2. CASE Reads
  BY <1>2 DEF Reads, ReadingStep, ReadChunk, EndLine, EndLines, Done, runtimeVars, NothingRuns
<1>3. CASE Yield
  BY <1>3 DEF Yield, NothingRuns
<1>4. CASE WakesOther
  BY <1>4 DEF WakesOther, Wake, streamVars, NothingRuns
<1>5. CASE Runs
  <2>1. frames' = frames
    BY <1>5 DEF Runs, streamVars
  <2>2. running = NoScript \/ running' = running
    BY <1>5 DEF Runs, RunJsFileStep, RunJsFile, CompileFails, AttachCallbacks,
                ReturnUnchecked, ResumeJob, CallbackJob, JobFails, Report, RuntimeInv, PhaseOK
  <2> QED
    BY <2>1, <2>2 DEF NothingRuns
<1>6. CASE UNCHANGED vars
  BY <1>6 DEF vars, streamVars, runtimeVars, NothingRuns
<1> QED
  BY <1>1, <1>2, <1>3, <1>4, <1>5, <1>6 DEF Next

\* No stream that `with' opened outlives its callback, on whatever way it ended,
\* nested or closed by itself: none is open when no script runs (io.ts:378-406).
THEOREM NothingIsLeftOpen == Spec => []WithHoldsNothing
<1>1. Init => NothingRuns
  BY DEF Init, StreamsInit, NothingRuns
<1>2. StreamsInv /\ RuntimeInv /\ NothingRuns /\ [Next]_vars => NothingRuns'
  BY NothingRunsKeeps
<1>3. StreamsInv /\ NothingRuns => WithHoldsNothing
  <2> SUFFICES ASSUME StreamsInv, NothingRuns, running = NoScript,
                      NEW s \in DOMAIN streams, streams[s].by = "with", Open(s)
               PROVE  FALSE
    BY DEF WithHoldsNothing
  <2>1. s \in 1..Len(streams)
    BY DEF StreamsInv, StreamsOK
  <2>2. \E i \in 1..Len(frames) : frames[i] = s
    BY <2>1 DEF StreamsInv, FramesOK
  <2>3. 1..Len(frames) = {}
    BY DEF NothingRuns
  <2> QED
    BY <2>2, <2>3
<1> QED
  BY <1>1, <1>2, <1>3, StreamsCorrect, RuntimeCorrect, PTL DEF Spec

\* Every variable holds a value of its kind: every open file is a file there is
\* and its position within the bound (io.cc:42-52, js.cc:131-175).
THEOREM TypeCorrect == Spec => []TypeOK
<1>1. StreamsInv /\ RuntimeInv => TypeOK
  <2> SUFFICES ASSUME StreamsInv, RuntimeInv PROVE TypeOK
    OBVIOUS
  <2>1. \A p \in DOMAIN files : files[p] \in Seq(Chars) /\ Len(files[p]) <= MaxSize[p]
    BY DEF StreamsInv, FilesOK
  <2>2. /\ file_id_cnt \in 1..(MaxOpens + 1) /\ MaxOpens \in Nat
        /\ \A id \in DOMAIN open_files : id \in 1..(file_id_cnt - 1) /\ Fits(open_files[id])
    BY BoundsAssumption DEF StreamsInv, TableOK
  <2>3. DOMAIN open_files \subseteq 1..MaxOpens
    BY <2>2
  <2>4. \A id \in DOMAIN open_files :
          /\ open_files[id].path \in DOMAIN files
          /\ open_files[id].pos \in 0..MaxSize[open_files[id].path]
          /\ open_files[id].fail \in BOOLEAN
    <3> TAKE id \in DOMAIN open_files
    <3>1. Fits(open_files[id])
      BY <2>2
    <3>2. /\ open_files[id].path \in DOMAIN files /\ open_files[id].path \in Paths
          /\ open_files[id].pos \in Nat /\ open_files[id].fail \in BOOLEAN
          /\ open_files[id].pos <= MaxSize[open_files[id].path]
      BY <3>1, Fields DEF Fits
    <3> QED
      BY <3>2, BoundsAssumption
  <2>5. \A s \in DOMAIN streams : streams[s].fd \in 1..MaxOpens
    <3>1. streams \in Seq(Stream) /\ \A s \in 1..Len(streams) : streams[s].fd < file_id_cnt
      BY DEF StreamsInv, StreamsOK
    <3>2. ASSUME NEW s \in 1..Len(streams)
          PROVE  streams[s].fd \in 1..MaxOpens
      <4>1. streams[s] \in Stream
        BY <3>1
      <4> QED
        BY <4>1 DEF Stream
    <3> QED
      BY <3>1, <3>2
  <2>6. \A i \in DOMAIN frames : frames[i] \in DOMAIN streams
    BY SMTT(30) DEF StreamsInv, StreamsOK, FramesOK
  <2>7. /\ phase \in {"idle", "eval", "jobs"}
        /\ {current, running, error_strace} \subseteq Scripts \cup {NoScript}
        /\ promise_state \in {"pending", "fulfilled", "rejected"}
        /\ jobs \in Seq(Job)
    BY DEF RuntimeInv, RuntimeTypes
  <2>8. \A i \in DOMAIN jobs : jobs[i].of \in Scripts
    <3>1. \A i \in 1..Len(jobs) : jobs[i] \in Job
      BY <2>7
    <3>2. DOMAIN jobs = 1..Len(jobs)
      BY <2>7
    <3> QED
      BY <3>1, <3>2 DEF Job
  <2> QED
    BY <2>1, <2>2, <2>3, <2>4, <2>5, <2>6, <2>7, <2>8 DEF TypeOK
<1> QED
  BY <1>1, StreamsCorrect, RuntimeCorrect, PTL
=============================================================================
