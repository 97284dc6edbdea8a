------------------------------ MODULE JsRuntime ------------------------------
(***************************************************************************)
(* The runtime the scripts run in: run_js_file and the two callbacks it    *)
(* attaches to a module's promise (src/catter/core/js.cc).                 *)
(*                                                                         *)
(* All scripts share one runtime, one queue of jobs and one promise_state. *)
(* A script's module runs until it awaits, ends or throws.  What it awaits *)
(* may be settled already, in which case a job resumes it, or be a promise *)
(* that only another script settles.  run_js_file runs jobs until there is *)
(* none and then reads promise_state, whoever wrote it.                    *)
(*                                                                         *)
(* QuickJS is external: its queue is first in, first out, and a module's   *)
(* promise queues the callback attached to it when it is settled.          *)
(***************************************************************************)
EXTENDS Naturals, Sequences

CONSTANTS
  Scripts,
  NoScript,
  MaxAwaits   \* bound on the awaits of one script

ASSUME ScriptsAssumption == NoScript \notin Scripts /\ MaxAwaits \in Nat

VARIABLES
  phase,          \* of run_js_file: "idle", "eval" or "jobs"
  current,        \* the script run_js_file was called for
  check_error,
  running,        \* the script whose code is on the stack
  state,          \* of the scripts' modules
  awaits,         \* how often each has awaited
  attached,       \* the scripts whose promises have the two callbacks
  jobs,
  promise_state,
  error_strace,   \* the script whose reason it holds
  verdict         \* how run_js_file ended for each script

runtimeVars == <<phase, current, check_error, running, state, awaits, attached,
                 jobs, promise_state, error_strace, verdict>>

Resume(s) == [of |-> s, what |-> "resume"]
Callback(s) == [of |-> s, what |-> "callback"]

Settled(s) == state[s] \in {"fulfilled", "rejected"}

\* The queue when a promise with the callbacks has been settled.
Queued(s, due) == IF due THEN Append(jobs, Callback(s)) ELSE jobs

-----------------------------------------------------------------------------
(* run_js_file.                                                            *)

RunJsFile(s) ==
  /\ phase = "idle"
  /\ state[s] = "new"
  /\ phase' = "eval"
  /\ current' = s
  /\ check_error' \in BOOLEAN
  /\ running' = s
  /\ state' = [state EXCEPT ![s] = "started"]
  /\ UNCHANGED <<awaits, attached, jobs, promise_state, error_strace, verdict>>

Ends(how) ==
  /\ phase' = "idle"
  /\ current' = NoScript
  /\ verdict' = [verdict EXCEPT ![current] =
                   [how |-> how, why |-> IF how = "rejected" THEN error_strace
                                                             ELSE NoScript]]

\* eval throws for a text that does not compile.
CompileFails(s) ==
  /\ phase = "idle"
  /\ state[s] = "new"
  /\ state' = [state EXCEPT ![s] = "rejected"]
  /\ verdict' = [verdict EXCEPT ![s] = [how |-> "not compiled", why |-> NoScript]]
  /\ UNCHANGED <<phase, current, check_error, running, awaits, attached, jobs,
                 promise_state, error_strace>>

\* Mutant of AttachCallbacks: the state of the last script stays.
AttachToOldState ==
  /\ phase = "eval"
  /\ running = NoScript
  /\ check_error
  /\ phase' = "jobs"
  /\ attached' = attached \cup {current}
  /\ UNCHANGED promise_state
  /\ jobs' = Queued(current, Settled(current))
  /\ UNCHANGED <<current, check_error, running, state, awaits, error_strace, verdict>>

\* The module has run as far as it could, and its promise gets the callbacks.
AttachCallbacks ==
  /\ phase = "eval"
  /\ running = NoScript
  /\ check_error
  /\ phase' = "jobs"
  /\ attached' = attached \cup {current}
  /\ promise_state' = "pending"
  /\ jobs' = Queued(current, Settled(current))
  /\ UNCHANGED <<current, check_error, running, state, awaits, error_strace, verdict>>

\* Without check_error that is all: jobs wait for the next script.
ReturnUnchecked ==
  /\ phase = "eval"
  /\ running = NoScript
  /\ ~check_error
  /\ Ends("unchecked")
  /\ UNCHANGED <<check_error, running, state, awaits, attached, jobs, promise_state,
                 error_strace>>

\* JS_ExecutePendingJob: the first job goes on with a module ...
ResumeJob ==
  /\ phase = "jobs" /\ running = NoScript /\ jobs # <<>>
  /\ Head(jobs).what = "resume"
  /\ jobs' = Tail(jobs)
  /\ running' = Head(jobs).of
  /\ state' = [state EXCEPT ![Head(jobs).of] = "started"]
  /\ UNCHANGED <<phase, current, check_error, awaits, attached, promise_state,
                 error_strace, verdict>>

\* ... or is on_promise_resolve or on_promise_reject.
CallbackJob ==
  /\ phase = "jobs" /\ running = NoScript /\ jobs # <<>>
  /\ Head(jobs).what = "callback"
  /\ jobs' = Tail(jobs)
  /\ promise_state' = state[Head(jobs).of]
  /\ error_strace' = IF state[Head(jobs).of] = "rejected" THEN Head(jobs).of
                                                           ELSE error_strace
  /\ UNCHANGED <<phase, current, check_error, running, state, awaits, attached, verdict>>

\* A job fails (the engine is out of memory): those behind it stay queued.
JobFails ==
  /\ phase = "jobs" /\ running = NoScript /\ jobs # <<>>
  /\ Head(jobs).what = "resume"
  /\ jobs' = Tail(jobs)
  /\ state' = [state EXCEPT ![Head(jobs).of] = "lost"]
  /\ Ends("job failed")
  /\ UNCHANGED <<check_error, running, awaits, attached, promise_state, error_strace>>

\* No job is left: run_js_file throws unless the state is fulfilled.
Report ==
  /\ phase = "jobs" /\ running = NoScript /\ jobs = <<>>
  /\ Ends(CASE promise_state = "pending" -> "pending"
            [] promise_state = "rejected" -> "rejected"
            [] promise_state = "fulfilled" -> "returned")
  /\ UNCHANGED <<check_error, running, state, awaits, attached, jobs, promise_state,
                 error_strace>>

-----------------------------------------------------------------------------
(* What the script on the stack may do.                                    *)

Yields(to) ==
  /\ running # NoScript
  /\ running' = NoScript
  /\ state' = [state EXCEPT ![running] = to]
  /\ UNCHANGED <<phase, current, check_error, promise_state, error_strace, verdict>>

\* It awaits what is settled, or something another script will settle.
Await ==
  /\ Yields("waiting")
  /\ awaits[running] < MaxAwaits
  /\ awaits' = [awaits EXCEPT ![running] = @ + 1]
  /\ jobs' = Append(jobs, Resume(running))
  /\ UNCHANGED attached

AwaitOther ==
  /\ Yields("hanging")
  /\ awaits[running] < MaxAwaits
  /\ awaits' = [awaits EXCEPT ![running] = @ + 1]
  /\ UNCHANGED <<attached, jobs>>

\* The module ends, or throws.
Settle(how) ==
  /\ Yields(how)
  /\ UNCHANGED <<awaits, attached>>
  /\ jobs' = Queued(running, running \in attached)

\* It settles what another script awaits.
Wake(s) ==
  /\ running # NoScript
  /\ state[s] = "hanging"
  /\ state' = [state EXCEPT ![s] = "waiting"]
  /\ jobs' = Append(jobs, Resume(s))
  /\ UNCHANGED <<phase, current, check_error, running, awaits, attached,
                 promise_state, error_strace, verdict>>

-----------------------------------------------------------------------------
RuntimeInit(present) ==
  /\ phase = "idle"
  /\ current = NoScript
  /\ check_error = TRUE
  /\ running = NoScript
  /\ state = [s \in Scripts |-> IF s \in present THEN "new" ELSE "absent"]
  /\ awaits = [s \in Scripts |-> 0]
  /\ attached = {}
  /\ jobs = <<>>
  /\ promise_state = "pending"
  /\ error_strace = NoScript
  /\ verdict = [s \in Scripts |-> [how |-> "none", why |-> NoScript]]

RunJsFileStep ==
  \/ \E s \in Scripts : RunJsFile(s) \/ CompileFails(s)
  \/ AttachCallbacks \/ ReturnUnchecked
  \/ ResumeJob \/ CallbackJob \/ JobFails \/ Report

ScriptYields ==
  Await \/ AwaitOther \/ Settle("fulfilled") \/ Settle("rejected")

-----------------------------------------------------------------------------
(* Properties.                                                             *)

\* No run of a script has left behind a promise with callbacks, or a queue.
NothingLeftBehind == \A s \in Scripts : verdict[s].how \notin {"pending", "job failed"}

\* run_js_file returns for a script that ran to its end and throws the reason
\* of one that threw, and that is so whatever unchecked scripts left in the
\* queue before (js.cc:131-175).  A script left pending is the exception: its
\* callbacks can speak for a later one.
VerdictIsOwn ==
  NothingLeftBehind =>
    \A s \in Scripts :
      /\ verdict[s].how = "returned" => state[s] = "fulfilled"
      /\ verdict[s].how = "rejected" => state[s] = "rejected" /\ verdict[s].why = s
=============================================================================
