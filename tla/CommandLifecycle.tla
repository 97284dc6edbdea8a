-------------------------- MODULE CommandLifecycle --------------------------
(***************************************************************************)
(* What catter promises about the commands of a build, whatever becomes of *)
(* the processes that handle them: a command is first registered under a   *)
(* number of its own, with a parent that is already registered, then       *)
(* decided, then run, then over, then reported.  Each of these happens at  *)
(* most once and in this order; any of them may never happen.              *)
(***************************************************************************)
EXTENDS Integers

CONSTANT Command

VARIABLES phase, number, parent

vars == <<phase, number, parent>>

Registered == {c \in Command : phase[c] # "new"}

Init ==
  /\ phase = [c \in Command |-> "new"]
  /\ number = [c \in Command |-> 0]
  /\ parent = [c \in Command |-> 0]

Register(c) ==
  /\ phase[c] = "new"
  /\ phase' = [phase EXCEPT ![c] = "registered"]
  /\ number'[c] \notin {0} \cup {number[d] : d \in Registered}
  /\ number' = [number EXCEPT ![c] = number'[c]]
  /\ parent'[c] \in {0} \cup {number[d] : d \in Registered}
  /\ parent' = [parent EXCEPT ![c] = parent'[c]]

Move(c, from, to) ==
  /\ phase[c] \in from
  /\ phase' = [phase EXCEPT ![c] = to]
  /\ UNCHANGED <<number, parent>>

Decide(c) == Move(c, {"registered"}, "decided")
Run(c) == Move(c, {"decided"}, "running")
End(c) == Move(c, {"running"}, "over")

\* A command that could not be spawned is reported without having run.
Report(c) == Move(c, {"decided", "over"}, "reported")

Next ==
  \E c \in Command :
    Register(c) \/ Decide(c) \/ Run(c) \/ End(c) \/ Report(c)

Spec == Init /\ [][Next]_vars
=============================================================================
