---------------------------- MODULE TaskContract ----------------------------
(***************************************************************************)
(* What HandleWebhook may rely on when it calls RunTaskOnAllMachines: the  *)
(* task seen from outside, with no broker, stream, goroutine or counter.   *)
(*                                                                         *)
(* A command that was accepted is run at least once, however often it is   *)
(* handed out again; until something is handed out again the task is       *)
(* exact: every command runs once, the wait ends after all of them have,   *)
(* nothing runs later, the process survives, and the report is complete.   *)
(***************************************************************************)
EXTENDS FiniteSets

CONSTANTS Workers, Cmds

Execution == [cmd : Cmds, worker : Workers, queue : {"output", "error"}]

VARIABLES
  task,      \* the commands of the task
  phase,     \* "sending", "waiting", "collecting", "nil", "err" or "panic"
  accepted,  \* commands the broker has accepted
  repeated,  \* commands that were handed out again
  settled,   \* accepted commands that nobody will be given any more
  executed,  \* executions so far
  reported   \* the executions the caller is told of

contractVars == <<task, phase, accepted, repeated, settled, executed, reported>>

Done(c) == \E e \in executed : e.cmd = c

Exact == repeated = {}

Init ==
  /\ task \in SUBSET Cmds
  /\ phase = "sending"
  /\ accepted = {}
  /\ repeated = {}
  /\ settled = {}
  /\ executed = {}
  /\ reported = {}

Accept(c) ==
  /\ phase = "sending"
  /\ c \in task \ accepted
  /\ accepted' = accepted \cup {c}
  /\ UNCHANGED <<task, phase, repeated, settled, executed, reported>>

(* A connection breaks: what it held and had not settled goes out again.    *)
Repeat ==
  /\ \E C \in SUBSET (accepted \ settled) : repeated' = repeated \cup C
  /\ UNCHANGED <<task, phase, accepted, settled, executed, reported>>

(* A command that is not handed out again is run once, before it is settled *)
(* and, as long as the task is exact, before the wait is over.              *)
Execute(e) ==
  /\ e.cmd \in accepted
  /\ e.cmd \in repeated \/ (e.cmd \notin settled /\ ~Done(e.cmd))
  /\ Exact => phase \in {"sending", "waiting"}
  /\ executed' = executed \cup {e}
  /\ UNCHANGED <<task, phase, accepted, repeated, settled, reported>>

(* Only a command that was run is settled.                                  *)
Settle(c) ==
  /\ c \in accepted \ settled
  /\ Done(c)
  /\ settled' = settled \cup {c}
  /\ UNCHANGED <<task, phase, accepted, repeated, executed, reported>>

AllSent ==
  /\ phase = "sending"
  /\ phase' = "waiting"
  /\ UNCHANGED <<task, accepted, repeated, settled, executed, reported>>

Finish ==
  /\ phase = "waiting"
  /\ Exact => \A c \in task : Done(c)
  /\ phase' = "collecting"
  /\ UNCHANGED <<task, accepted, repeated, settled, executed, reported>>

(* The call returns nil, with everything that ran or, when a collector      *)
(* failed, with nothing.                                                    *)
Return ==
  /\ phase = "collecting"
  /\ phase' = "nil"
  /\ reported' \in SUBSET executed
  /\ Exact => reported' \in {{}, executed}
  /\ UNCHANGED <<task, accepted, repeated, settled, executed>>

Fail ==
  /\ phase = "collecting"
  /\ phase' = "err"
  /\ UNCHANGED <<task, accepted, repeated, settled, executed, reported>>

Panic ==
  /\ ~Exact
  /\ phase' = "panic"
  /\ UNCHANGED <<task, accepted, repeated, settled, executed, reported>>

Next ==
  \/ \E c \in Cmds : Accept(c) \/ Settle(c)
  \/ \E e \in Execution : Execute(e)
  \/ Repeat \/ AllSent \/ Finish \/ Return \/ Fail \/ Panic

Spec == Init /\ [][Next]_contractVars
=============================================================================
