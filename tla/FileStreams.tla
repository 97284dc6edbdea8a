----------------------------- MODULE FileStreams -----------------------------
(***************************************************************************)
(* The file streams of the scripts' API: FileStream and TextFileStream     *)
(* (api/src/io.ts) on the functions of src/catter/core/capi/io.cc, which   *)
(* keep one std::fstream per open file in the table open_files.            *)
(*                                                                         *)
(* A std::fstream on a file has one position for reads and writes.  Once a *)
(* read came short, or a seek went before the beginning, its failbit is    *)
(* set: it then reads nothing and writes nothing, and says nothing of it,  *)
(* until a seek or a tell clears the state.                                *)
(*                                                                         *)
(* A call of a method is one step, but for the line-reading methods, which *)
(* are a loop over chunks and advance chunk by chunk.  A file is open once *)
(* at a time, so that what one stream buffers is nobody else's business.   *)
(* MaxOpens and MaxSize bound the calls a script may make.                 *)
(***************************************************************************)
EXTENDS Integers, SequencesExt

CONSTANTS
  Paths,      \* the paths scripts open
  Chars,      \* the characters of a file
  NewLine,    \* "\n"
  Return,     \* "\r"
  Hole,       \* what a write behind the end leaves before it
  Data,       \* the Uint8Arrays that scripts write
  ChunkSize,  \* bufSize of readUntil
  MaxInt,     \* 2^31: what the wrapper makes of an int64_t
  MaxOpens,   \* bound on file_id_cnt
  MaxSize     \* bound on the size of each file and the positions in it

ASSUME ChunkAssumption == ChunkSize \in Nat \ {0} /\ MaxInt \in Nat \ {0}
ASSUME CharsAssumption == {NewLine, Return, Hole} \subseteq Chars
ASSUME DataAssumption ==
  \A data \in Data :
    /\ data = [buffer |-> data.buffer, offset |-> data.offset, length |-> data.length]
    /\ data.buffer \in Seq(Chars) /\ data.offset \in Nat /\ data.length \in Nat
    /\ data.offset + data.length <= Len(data.buffer)
ASSUME BoundsAssumption == MaxOpens \in Nat /\ MaxSize \in [Paths -> Nat]

VARIABLES
  files,        \* the files there are and their contents
  open_files,
  file_id_cnt,
  streams,      \* the stream objects of the scripts: their fd, path and origin
  frames,       \* the calls of `with' whose callbacks run, innermost last
  task,         \* the line-reading call in progress
  outcome       \* what the last call returned

streamVars == <<files, open_files, file_id_cnt, streams, frames, task, outcome>>

Idle == [call |-> "none"]
Nothing == [call |-> "none"]

-----------------------------------------------------------------------------
(* std::fstream.                                                           *)

Size(st) == Len(files[st.path])

\* Mutant of Seek: no clear() before it.
SeekUncleared(st, offset, whence) ==
  LET to == offset + CASE whence = "set" -> 0
                       [] whence = "cur" -> st.pos
                       [] whence = "end" -> Size(st)
  IN IF to < 0 \/ st.fail THEN [st EXCEPT !.fail = TRUE]
                          ELSE [st EXCEPT !.pos = to]

\* Mutant of Seek: before the beginning as well.
SeekAnywhere(st, offset, whence) ==
  LET to == offset + CASE whence = "set" -> 0
                       [] whence = "cur" -> st.pos
                       [] whence = "end" -> Size(st)
  IN [st EXCEPT !.pos = to, !.fail = FALSE]

\* clear(), then seekg or seekp.
Seek(st, offset, whence) ==
  LET to == offset + CASE whence = "set" -> 0
                       [] whence = "cur" -> st.pos
                       [] whence = "end" -> Size(st)
  IN IF to < 0 THEN [st EXCEPT !.fail = TRUE]
               ELSE [st EXCEPT !.pos = to, !.fail = FALSE]

\* clear(), then tellg or tellp: the position is st.pos.
Tell(st) == [st EXCEPT !.fail = FALSE]

\* How many characters read(n) gets, and the stream after it.
Got(st, n) ==
  IF st.fail \/ st.pos >= Size(st) THEN 0
  ELSE IF n < Size(st) - st.pos THEN n ELSE Size(st) - st.pos
Characters(st, n) == SubSeq(files[st.path], st.pos + 1, st.pos + Got(st, n))
Read(st, n) == [st EXCEPT !.pos = @ + Got(st, n), !.fail = Got(st, n) < n]

\* The contents after write(data), and the stream.
Overwritten(content, pos, data) ==
  [i \in 1..(IF pos + Len(data) > Len(content) THEN pos + Len(data)
                                               ELSE Len(content)) |->
     IF i \in (pos + 1)..(pos + Len(data)) THEN data[i - pos]
     ELSE IF i <= Len(content) THEN content[i] ELSE Hole]
Contents(st, data) ==
  IF st.fail \/ data = <<>> THEN files[st.path]
  ELSE Overwritten(files[st.path], st.pos, data)
Write(st, data) == IF st.fail THEN st ELSE [st EXCEPT !.pos = @ + Len(data)]

-----------------------------------------------------------------------------
(* Opening and closing.                                                    *)

\* Mutant of NextId: ids are used again.
NumberOfOpen == Cardinality(DOMAIN open_files) + 1
NextId == file_id_cnt

Including(fd, entry) ==
  [f \in DOMAIN open_files \cup {fd} |-> IF f = fd THEN entry ELSE open_files[f]]
Without(fd) == [f \in DOMAIN open_files \ {fd} |-> open_files[f]]

\* The entry of a stream object, and whether it has one.
Open(s) == streams[s].fd \in DOMAIN open_files
Entry(s) == open_files[streams[s].fd]

\* What a call returned is kept when a property speaks of it.
Returned == outcome' = Nothing
Throws == outcome' = [call |-> "threw"]

\* file_open, called by the constructors: an fstream in|out needs the file.
\* `how' is the constructor: of a FileStream or a TextFileStream ("new"), of
\* one of these in `with' ("with"), or of a TextFileStream with an encoding
\* that is not supported ("encoding"), which throws when the file is open
\* already and leaves nobody who could close it.
Construct(path, how) ==
  /\ task = Idle
  /\ file_id_cnt <= MaxOpens
  /\ \A s \in DOMAIN streams : Open(s) => streams[s].path # path
  /\ IF path \notin DOMAIN files
       THEN Throws /\ UNCHANGED <<open_files, file_id_cnt, streams, frames>>
       ELSE /\ file_id_cnt' = file_id_cnt + 1
            /\ open_files' = Including(NextId, [path |-> path, pos |-> 0, fail |-> FALSE])
            /\ IF how = "encoding"
                 THEN Throws /\ UNCHANGED <<streams, frames>>
                 ELSE /\ Returned
                      /\ streams' = Append(streams,
                                           [fd |-> NextId, path |-> path, by |-> how])
                      /\ frames' = IF how = "with" THEN Append(frames, Len(streams'))
                                                   ELSE frames
  /\ UNCHANGED <<files, task>>

\* file_close.
Close(s) ==
  /\ task = Idle
  /\ open_files' = Without(streams[s].fd)
  /\ IF Open(s) THEN Returned ELSE Throws
  /\ UNCHANGED <<files, file_id_cnt, streams, frames, task>>

\* Mutant of WithEnds: the stream of a callback that threw stays open.
WithEndsOpen(threw) ==
  /\ task = Idle
  /\ frames # <<>>
  /\ frames' = Front(frames)
  /\ open_files' = IF threw THEN open_files ELSE Without(streams[Last(frames)].fd)
  /\ IF threw \/ ~Open(Last(frames)) THEN Throws ELSE Returned
  /\ UNCHANGED <<files, file_id_cnt, streams, task>>

\* The callback of the innermost `with' is over: close, on either way out.  A
\* callback that has closed the stream itself makes that close throw.
WithEnds(threw) ==
  /\ task = Idle
  /\ frames # <<>>
  /\ frames' = Front(frames)
  /\ open_files' = Without(streams[Last(frames)].fd)
  /\ IF threw \/ ~Open(Last(frames)) THEN Throws ELSE Returned
  /\ UNCHANGED <<files, file_id_cnt, streams, task>>

-----------------------------------------------------------------------------
(* Reading and writing.                                                    *)

\* A method on an id that is not in the table throws; on one that is, `entry'
\* is the entry after it.
OnStream(s, entry, result) ==
  /\ task = Idle
  /\ IF Open(s)
       THEN open_files' = [open_files EXCEPT ![streams[s].fd] = entry]
            /\ outcome' = result
       ELSE Throws /\ UNCHANGED open_files
  /\ UNCHANGED <<file_id_cnt, streams, frames, task>>

\* seekRead and seekWrite.
SeekStream(s, offset, whence) ==
  /\ Open(s) => Seek(Entry(s), offset, whence).pos <= MaxSize[streams[s].path]
  /\ OnStream(s, Seek(Entry(s), offset, whence), Nothing)
  /\ UNCHANGED files

\* tellRead and tellWrite.
TellStream(s) ==
  /\ OnStream(s, Tell(Entry(s)), Nothing)
  /\ UNCHANGED files

\* read and readBuf.
ReadStream(s, n) ==
  /\ OnStream(s, Read(Entry(s), n), Nothing)
  /\ UNCHANGED files

\* The characters a Uint8Array shows, and those that write makes of it: it
\* passes the buffer and the length on, but not where the view begins.
Given(data) == SubSeq(data.buffer, data.offset + 1, data.offset + data.length)
Passed(data) == SubSeq(data.buffer, 1, data.length)

\* file_write_n, on the entry as an earlier seek left it.
WriteTo(s, entry, data, result) ==
  /\ Open(s) => Len(Contents(entry, Passed(data))) <= MaxSize[entry.path]
  /\ OnStream(s, Write(entry, Passed(data)), result)
  /\ files' = IF Open(s) THEN [files EXCEPT ![entry.path] = Contents(entry, Passed(data))]
                         ELSE files

WriteStream(s, data) == WriteTo(s, Entry(s), data, Nothing)

\* append: seekWrite(0, END), then write.
AppendStream(s, data) ==
  WriteTo(s, Seek(Entry(s), 0, "end"), data, [call |-> "append", of |-> s, value |-> data])

\* An int64_t on its way to a script is cut to 32 bits.
JsInt(n) == ((n + MaxInt) % (2 * MaxInt)) - MaxInt

\* file_size: tell, seek to the end, tell, seek back.
AtEnd(st) == Tell(Seek(Tell(st), 0, "end"))
Sized(st) == Seek(AtEnd(st), JsInt(st.pos), "set")
SizeOfStream(s) ==
  /\ OnStream(s, Sized(Entry(s)),
              [call |-> "size", of |-> s, value |-> JsInt(AtEnd(Entry(s)).pos)])
  /\ UNCHANGED files

\* readEntireFile: file_size, seek to the beginning, read; read(0) reads not,
\* and a size that turned negative makes read throw.
ReadEntireFile(s) ==
  LET begin == Seek(Sized(Entry(s)), 0, "set")
      size == JsInt(AtEnd(Entry(s)).pos)
  IN /\ OnStream(s, IF size <= 0 THEN begin ELSE Read(begin, size),
                 IF size < 0 THEN [call |-> "threw"]
                 ELSE [call |-> "entire", of |-> s, value |-> Characters(begin, size)])
     /\ UNCHANGED files

-----------------------------------------------------------------------------
(* readLine and readLines.                                                 *)

\* readLine without its newline may end with a return.
Chomp(text) ==
  IF text # <<>> /\ Last(text) = Return THEN Front(text) ELSE text

\* A line-reading call begins; readLines asks for the position first.
ReadLine(s, call) ==
  /\ task = Idle
  /\ IF ~Open(s)
       THEN Throws /\ UNCHANGED <<open_files, task>>
       ELSE LET st == IF call = "lines" THEN Tell(Entry(s)) ELSE Entry(s)
            IN /\ open_files' = [open_files EXCEPT ![streams[s].fd] = st]
               /\ task' = [call |-> call, of |-> s, from |-> st.pos, failed |-> st.fail,
                           last |-> JsInt(st.pos), text |-> <<>>, lines |-> <<>>,
                           more |-> TRUE]
               /\ outcome' = Nothing
  /\ UNCHANGED <<files, file_id_cnt, streams, frames>>

\* Mutant of SeekBack: the delimiter is not skipped.
SeekBackOnto(st, i, bytesRead) == Seek(st, i - bytesRead, "cur")

\* The delimiter was byte i, from 0, of a chunk of bytesRead.
SeekBack(st, i, bytesRead) == Seek(st, i - bytesRead + 1, "cur")

\* Mutant of IsLastChunk: only an error ends the loop.
NeverLast(bytesRead) == bytesRead < 0
IsLastChunk(bytesRead) == bytesRead < ChunkSize

\* Where the delimiter is in a chunk, counted from 1, or 0.
Delimiter(chunk) == SelectInSeq(chunk, LAMBDA c : c = NewLine)

\* One round of readUntil: a chunk into the buffer, up to the delimiter.
ReadChunk ==
  /\ task # Idle
  /\ task.more
  /\ LET st == Entry(task.of)
         chunk == Characters(st, ChunkSize)
         after == Read(st, ChunkSize)
         at == Delimiter(chunk)
     IN IF at > 0
          THEN /\ task' = [task EXCEPT !.text = @ \o SubSeq(chunk, 1, at - 1),
                                       !.more = FALSE]
               /\ open_files' = [open_files EXCEPT ![streams[task.of].fd] =
                                   SeekBack(after, at - 1, Len(chunk))]
          ELSE /\ task' = [task EXCEPT !.text = @ \o chunk,
                                       !.more = ~IsLastChunk(Len(chunk))]
               /\ open_files' = [open_files EXCEPT ![streams[task.of].fd] = after]
  /\ UNCHANGED <<files, file_id_cnt, streams, frames, outcome>>

Done(value) ==
  /\ outcome' = [call |-> task.call, of |-> task.of, value |-> value,
                 from |-> task.from, failed |-> task.failed]
  /\ task' = Idle

\* readUntil has returned to readLine.
EndLine ==
  /\ task # Idle
  /\ ~task.more
  /\ task.call = "line"
  /\ Done(Chomp(task.text))
  /\ UNCHANGED <<files, open_files, file_id_cnt, streams, frames>>

\* readLine has returned to readLines, which asks for the position and stops
\* at an empty line that did not move it.
EndLines ==
  /\ task # Idle
  /\ ~task.more
  /\ task.call = "lines"
  /\ LET line == Chomp(task.text)
         here == JsInt(Entry(task.of).pos)
     IN IF line = <<>> /\ here = task.last
          THEN Done(task.lines)
          ELSE /\ task' = [task EXCEPT !.lines = Append(@, line), !.last = here,
                                       !.text = <<>>, !.more = TRUE]
               /\ UNCHANGED outcome
  /\ open_files' = [open_files EXCEPT ![streams[task.of].fd] = Tell(@)]
  /\ UNCHANGED <<files, file_id_cnt, streams, frames>>

ReadingStep == ReadChunk \/ EndLine \/ EndLines

-----------------------------------------------------------------------------
StreamsInit(contents) ==
  /\ files = contents
  /\ open_files = <<>>
  /\ file_id_cnt = 1
  /\ streams = <<>>
  /\ frames = <<>>
  /\ task = Idle
  /\ outcome = Nothing

\* A call a script may make.
StreamCall ==
  \/ \E path \in Paths, how \in {"new", "with", "encoding"} : Construct(path, how)
  \/ \E threw \in BOOLEAN : WithEnds(threw)
  \/ \E s \in DOMAIN streams :
       \/ Close(s)
       \/ \E offset \in -1..1, whence \in {"set", "cur", "end"} :
            SeekStream(s, offset, whence)
       \/ TellStream(s)
       \/ \E n \in 1..2 : ReadStream(s, n)
       \/ \E data \in Data : WriteStream(s, data) \/ AppendStream(s, data)
       \/ SizeOfStream(s)
       \/ ReadEntireFile(s)
       \/ \E call \in {"line", "lines"} : ReadLine(s, call)

-----------------------------------------------------------------------------
(* Properties.                                                             *)

\* Where the lines of a text end: at its newlines, and behind it if it does
\* not end with one.
LineEnds(text) ==
  {i \in 1..Len(text) : text[i] = NewLine}
    \cup (IF text # <<>> /\ Last(text) # NewLine THEN {Len(text) + 1} ELSE {})

\* The lines of a text: the pieces between its ends, in their order.
AreLines(lines, text) ==
  \E end \in [1..Len(lines) -> LineEnds(text)] :
    /\ \A e \in LineEnds(text) : \E k \in 1..Len(lines) : end[k] = e
    /\ \A k \in 1..Len(lines) :
         LET before == IF k = 1 THEN 0 ELSE end[k - 1] IN
         before < end[k] /\ lines[k] = Chomp(SubSeq(text, before + 1, end[k] - 1))

IsFirstLine(line, text) ==
  IF text = <<>> THEN line = <<>>
  ELSE \E e \in LineEnds(text) : /\ \A d \in LineEnds(text) : e <= d
                             /\ line = Chomp(SubSeq(text, 1, e - 1))

Rest(path, from) == SubSeq(files[path], from + 1, Len(files[path]))

\* What the reading methods return is what the file holds: file_size its size
\* and readEntireFile all of it whatever the position was, readLines its lines
\* from the position on, whatever state the stream was in and wherever the
\* chunks end, readLine the first of them unless the stream had already failed
\* (io.ts:317-376, 649-709).
ReadsAreRight ==
  outcome.call \in {"size", "entire", "lines", "line"} =>
    LET path == streams[outcome.of].path IN
    CASE outcome.call = "size" -> outcome.value = Len(files[path])
      [] outcome.call = "entire" -> outcome.value = files[path]
      [] outcome.call = "lines" -> AreLines(outcome.value, Rest(path, outcome.from))
      [] OTHER -> IF outcome.failed THEN outcome.value = <<>>
                  ELSE IsFirstLine(outcome.value, Rest(path, outcome.from))

\* The characters that append was given are the end of the file when it
\* returns, although write loses its data on a stream that has met its end
\* (io.ts:285-300).  Of a view that begins behind the start of its buffer
\* write takes other characters (io.ts:281), so nothing is said of one.
AppendArrives ==
  outcome.call = "append" /\ outcome.value.offset = 0 =>
    IsSuffix(Given(outcome.value), files[streams[outcome.of].path])

\* A stream object that was closed reaches no other's file: its id is never
\* the id of a stream that was opened since (io.cc:49-50).
OwnFile ==
  \A s, t \in DOMAIN streams :
    Open(s) /\ streams[s].fd = streams[t].fd => s = t /\ Entry(s).path = streams[s].path

\* A line-reading call returns, at the end of the file too, where every
\* further chunk is empty.
ReadingEnds == task # Idle ~> task = Idle
=============================================================================
