----------------------------- MODULE ScriptHost -----------------------------
(***************************************************************************)
(* Scripts that use file streams: JsRuntime runs them one after the other  *)
(* and interleaves what they do after an await, FileStreams is what their  *)
(* calls do.  The table of open files belongs to the process, so a stream  *)
(* outlives the call, the job and the script that opened it.               *)
(*                                                                         *)
(* A callback of `with' is called synchronously: the script cannot await   *)
(* or end before it is over.  An async function passed as the callback is  *)
(* over at its first await, and goes on later with a stream that is        *)
(* closed.                                                                 *)
(***************************************************************************)
EXTENDS FileStreams, JsRuntime

CONSTANT Worlds   \* the files and scripts a behaviour begins with

ASSUME WorldsAssumption ==
  \A w \in Worlds :
    /\ DOMAIN w.files \subseteq Paths /\ w.scripts \subseteq Scripts
    /\ \A path \in DOMAIN w.files :
         w.files[path] \in Seq(Chars) /\ Len(w.files[path]) <= MaxSize[path]

vars == <<streamVars, runtimeVars>>

Init == \E w \in Worlds : StreamsInit(w.files) /\ RuntimeInit(w.scripts)

Calls == running # NoScript /\ StreamCall /\ UNCHANGED runtimeVars

Reads == ReadingStep /\ UNCHANGED runtimeVars

\* What the last call returned is gone when the script is off the stack.
Yield ==
  /\ task = Idle /\ frames = <<>>
  /\ ScriptYields
  /\ outcome' = Nothing
  /\ UNCHANGED <<files, open_files, file_id_cnt, streams, frames, task>>

WakesOther ==
  /\ task = Idle
  /\ \E s \in Scripts : Wake(s)
  /\ UNCHANGED streamVars

Runs == RunJsFileStep /\ UNCHANGED streamVars

Next == Calls \/ Reads \/ Yield \/ WakesOther \/ Runs

Spec == Init /\ [][Next]_vars

\* A call that has begun goes on: nothing else is on the thread.
FairSpec == Spec /\ WF_vars(Reads)

-----------------------------------------------------------------------------
(* Properties.                                                             *)

\* Every variable holds a value of its kind, and every position is one.
TypeOK ==
  /\ \A p \in DOMAIN files : files[p] \in Seq(Chars) /\ Len(files[p]) <= MaxSize[p]
  /\ file_id_cnt \in 1..(MaxOpens + 1)
  /\ DOMAIN open_files \subseteq 1..MaxOpens
  /\ \A id \in DOMAIN open_files :
       /\ open_files[id].path \in DOMAIN files
       /\ open_files[id].pos \in 0..MaxSize[open_files[id].path]
       /\ open_files[id].fail \in BOOLEAN
  /\ \A s \in DOMAIN streams : streams[s].fd \in 1..MaxOpens
  /\ \A i \in DOMAIN frames : frames[i] \in DOMAIN streams
  /\ phase \in {"idle", "eval", "jobs"}
  /\ {current, running, error_strace} \subseteq Scripts \cup {NoScript}
  /\ promise_state \in {"pending", "fulfilled", "rejected"}
  /\ \A i \in DOMAIN jobs : jobs[i].of \in Scripts

\* No stream that `with' opened is open when no script is on the stack,
\* whatever its callback did: it returned, threw, closed the stream itself or
\* opened others in a `with' of its own (io.ts:378-406).
WithHoldsNothing ==
  running = NoScript =>
    \A s \in DOMAIN streams : streams[s].by = "with" => ~Open(s)
=============================================================================
