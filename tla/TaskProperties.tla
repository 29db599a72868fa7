--------------------------- MODULE TaskProperties ---------------------------
(***************************************************************************)
(* What RunTaskOnAllMachines should guarantee, whatever the workers, the   *)
(* broker and its own goroutines do meanwhile.                             *)
(*                                                                         *)
(* Most guarantees are lost once the broker takes a command back from a    *)
(* broken connection and hands it out again: the code counts messages, not *)
(* commands.  They are stated for the behaviours, or for the commands,     *)
(* without redelivery; TaskContract has what remains with it.              *)
(***************************************************************************)
EXTENDS TaskRun

Executed(S, c) == \E e \in S : e.cmd = c

HandlerGone(w) == handler[w] \in {"none", "ended", "crashed"}

(* Every variable has its type; both WaitGroup counters are natural         *)
(* numbers, whatever is redelivered (runner.go:26-27, 121-122).             *)
TypeOK == MQTypeOK /\ WorkerTypeOK /\ TaskTypeOK

(* A command the broker accepted is ready, held for a worker, or was run:   *)
(* acknowledging after the run (consume.go:122-141) loses no command,       *)
(* whatever crashes and however connections break.                          *)
NoCommandVanishes ==
  \A c \in Cmds : publication[c] = "queued" =>
    \/ c \in cmdQueue
    \/ \E w \in Workers : c \in unacked[w]
    \/ Executed(ran, c)

(* A command that is never redelivered runs on one worker, once             *)
(* (cmd-queue shared by the consumers of all machines, consume.go:98-120).  *)
RunAtMostOnce ==
  \A e, f \in ran : e.cmd = f.cmd /\ e.cmd \notin redelivered => e = f

(* Without redelivery neither WaitGroup goes below zero (runner.go:74,      *)
(* consume.go:171), with any worker, dial, stream or publish failure.       *)
NeverPanics == redelivered = {} => pc # "panic"

(* Without redelivery, a call that returns nil and met no collector error   *)
(* reports exactly what was run, and every command of the task was; its     *)
(* state tells whether one failed (runner.go:136-152).                      *)
CompleteReport ==
  pc \in {"closing", "done"} /\ ret = "nil" /\ collectErr = {} /\ redelivered = {} =>
    /\ outputs = ran
    /\ \A c \in cmds : Executed(ran, c)
    /\ state = "CompleteTaskWithErrors" <=> \E e \in ran : e.queue = "error"

(* What is known of the result of an execution that was signalled: on its   *)
(* way, in its queue, read by a collector, or destroyed by a fault.         *)
Accounted == inTransit \cup resultQueues \cup read \cup lost

HeldByHandler == {current[w] : w \in {v \in Workers : handler[v] = "ran"}}

(* A command the orchestrator hears is finished has its result sent before  *)
(* it, if not yet queued, so collecting after wg.Wait (runner.go:100-136)   *)
(* waits for nothing a worker has still to do; and only a fault destroys    *)
(* the result of a command that was run (consume.go:121-141, 165-172).      *)
NoResultVanishes ==
  /\ signals \cup received \subseteq Accounted
  /\ ran \subseteq Accounted \cup HeldByHandler

AfterWait == {"openOut", "openErr", "collect", "closing", "done"}

(* Without redelivery, no command runs once wg.Wait has returned            *)
(* (runner.go:100), so cancel interrupts nothing.                           *)
NoCommandRunsAfterWait ==
  [][(pc \in AfterWait /\ redelivered = {}) => (ran' = ran)]_vars

Fresh == \A w \in Workers : consumer[w] = "nil"

(* Without faults, the first task on fresh workers returns, when it has     *)
(* machines to run on or nothing to run (runner.go:85, 100, 136).           *)
TaskReturns ==
  (pc = "ready" /\ Fresh /\ (runsOn # {} \/ cmds = {})) ~> (pc = "done" /\ ret = "nil")

(* A task that returned leaves no command in the broker: what a worker      *)
(* acknowledges late is acknowledged all the same (consume.go:140-141).     *)
QueueDrains ==
  (pc = "done") ~> (cmdQueue = {} /\ \A w \in Workers : unacked[w] = {})

(* A task that returned leaves no dispatcher, collector or handler running: *)
(* cancel ends the streams and with them the handlers (runner.go:101,       *)
(* consume.go:143), done the collectors, also those that lost their broker  *)
(* connection or have it closed under them and spin (runner.go:126,         *)
(* consume.go:166-174).  A panic ends the process but not the handlers.     *)
(* The goroutines of clientConns stay: nobody closes them (runner.go:41).   *)
GoroutinesEnd ==
  (pc = "done") ~>
    /\ \A w \in Workers : HandlerGone(w)
    /\ \/ pc = "panic"
       \/ /\ \A w \in Workers : dispatcher[w] \in {"none", "exited"}
          /\ \A k \in ResultQueueNames : collector[k] \in {"none", "exited"}

(* A command whose worker crashes or loses its broker connection before     *)
(* running it is run by another, as long as the task waits and one of its   *)
(* machines still consumes (manual ack, consume.go:98-106).                 *)
Failover ==
  \A c \in Cmds :
    (publication[c] = "queued") ~>
      \/ Executed(ran, c)
      \/ pc \notin {"publish", "wait"}
      \/ \A w \in runsOn : HandlerGone(w)

-----------------------------------------------------------------------------
(* The task as its caller sees it.                                          *)

Settled ==
  {c \in Cmds : /\ publication[c] = "queued"
                /\ c \notin cmdQueue
                /\ \A w \in Workers : c \notin unacked[w]}

Phase ==
  CASE pc \in {"ready", "publish"} -> "sending"
    [] pc = "wait" -> "waiting"
    [] pc = "panic" -> "panic"
    [] pc \notin {"ready", "publish", "wait", "panic"} ->
         (IF ret = "none" THEN "collecting" ELSE ret)

Contract == INSTANCE TaskContract WITH
  task <- cmds,
  phase <- Phase,
  accepted <- {c \in Cmds : publication[c] = "queued"},
  repeated <- redelivered,
  settled <- Settled,
  executed <- ran,
  reported <- outputs

(* RunTaskOnAllMachines keeps the contract its caller relies on             *)
(* (handler.go:36-49), under every fault: commands are run at least once,   *)
(* and until one is redelivered the task is exact.                          *)
KeepsContract == Contract!Spec

-----------------------------------------------------------------------------
(* What the code does not do.                                               *)

(* RunTaskOnAllMachines is called for every task of the pipeline in turn    *)
(* (handler.go:36-49): a task whose workers served an earlier one returns.  *)
LaterTaskReturns == (pc = "ready" /\ runsOn # {}) ~> (pc = "done")
=============================================================================
