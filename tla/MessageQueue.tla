---------------------------- MODULE MessageQueue ----------------------------
(***************************************************************************)
(* The RabbitMQ broker of ConflowCI as internal/mq uses it: the exchange   *)
(* "x-conflow", the queues cmd-queue, output-queue and error-queue, and    *)
(* the AMQP connection each worker process keeps in ConsumerInstance       *)
(* (internal/mq/consumer_server.go).                                       *)
(*                                                                         *)
(* Messages of cmd-queue are commands, messages of the two result queues   *)
(* are executions: a command, the worker that ran it, and the queue its    *)
(* exit status sent it to.  No property depends on the order of a queue,   *)
(* and every published message is distinct, so queues are sets.            *)
(*                                                                         *)
(* Faults draw on one budget: MaxFaults of them, of the FaultKinds.        *)
(***************************************************************************)
EXTENDS Integers, FiniteSets

CONSTANTS
  Workers,          \* worker processes, one per endpoint of the configuration
  Cmds,             \* entries of te.Cmds; equal texts at two indices are two Cmds
  ConsumersBefore,  \* what earlier tasks may have left in ConsumerInstance
  FaultKinds,       \* the kinds of fault that may happen
  MaxFaults         \* bound: how many faults a behaviour may hold

AllFaultKinds == {"dial", "mq", "stream", "conn", "crash"}

(* "nil": no task has started a consumer in this process.                   *)
(* "open": NewConsumer returned; "subscribed": basic.consume succeeded and  *)
(* was never cancelled, whether or not a ConsumeCommand still reads from    *)
(* it; "dead": the broker connection behind ConsumerInstance is closed.     *)
ConsumerStates == {"nil", "open", "subscribed", "dead"}

ASSUME MessageQueueAssumption ==
  /\ IsFiniteSet(Workers)
  /\ IsFiniteSet(Cmds)
  /\ ConsumersBefore \subseteq ConsumerStates \ {"open"}
  /\ FaultKinds \subseteq AllFaultKinds
  /\ MaxFaults \in Nat

VARIABLES
  declared,      \* the three queues exist and are bound to the exchange
  cmdQueue,      \* ready messages of cmd-queue
  unacked,       \* unacked[w]: commands delivered to w's channel, not acknowledged
  delivered,     \* delivered[w]: commands waiting in the Go channel msgs of w
  redelivered,   \* commands the broker took back from a broken connection
  resultQueues,  \* messages of output-queue and error-queue not acknowledged
  consumer,      \* consumer[w]: what ConsumerInstance of process w is
  faults         \* how many faults have happened

mqVars == <<declared, cmdQueue, unacked, delivered, redelivered, resultQueues,
            consumer, faults>>

(* output-queue and error-queue (internal/mq/types.go).                     *)
ResultQueueNames == {"output", "error"}

Execution == [cmd : Cmds, worker : Workers, queue : ResultQueueNames]

(* The results waiting in queue k.                                          *)
ResultsIn(k) == {e \in resultQueues : e.queue = k}

MQTypeOK ==
  /\ declared \in BOOLEAN
  /\ cmdQueue \subseteq Cmds
  /\ unacked \in [Workers -> SUBSET Cmds]
  /\ delivered \in [Workers -> SUBSET Cmds]
  /\ redelivered \subseteq Cmds
  /\ resultQueues \subseteq Execution
  /\ consumer \in [Workers -> ConsumerStates]
  /\ faults \in Nat

(* The broker may have been up for an earlier run of the orchestrator, so   *)
(* the queues may exist; they are empty.                                    *)
MQInit ==
  /\ declared \in BOOLEAN
  /\ cmdQueue = {}
  /\ unacked = [w \in Workers |-> {}]
  /\ delivered = [w \in Workers |-> {}]
  /\ redelivered = {}
  /\ resultQueues = {}
  /\ consumer \in [Workers -> ConsumersBefore]
  /\ (\E w \in Workers : consumer[w] # "nil") => declared
  /\ faults = 0

Fault(kind) ==
  /\ kind \in FaultKinds
  /\ faults < MaxFaults
  /\ faults' = faults + 1

-----------------------------------------------------------------------------

(* The connection of w is gone: what it held unacknowledged is ready again, *)
(* and its ConsumerInstance is s.                                           *)
Disconnect(w, s) ==
  /\ cmdQueue' = cmdQueue \cup unacked[w]
  /\ redelivered' = redelivered \cup unacked[w]
  /\ unacked' = [unacked EXCEPT ![w] = {}]
  /\ consumer' = [consumer EXCEPT ![w] = s]

(* Mutation: a command that is handed out stays ready for other consumers.  *)
Bug_DeliverKeepsReady(w) ==
  /\ consumer[w] = "subscribed"
  /\ \E c \in cmdQueue \ unacked[w] :
       /\ unacked' = [unacked EXCEPT ![w] = @ \cup {c}]
       /\ delivered' = [delivered EXCEPT ![w] = @ \cup {c}]
  /\ UNCHANGED <<declared, cmdQueue, redelivered, resultQueues, consumer, faults>>

(* Mutation: commands are consumed with auto-ack.                           *)
Bug_AutoAck(w) ==
  /\ consumer[w] = "subscribed"
  /\ \E c \in cmdQueue :
       /\ cmdQueue' = cmdQueue \ {c}
       /\ delivered' = [delivered EXCEPT ![w] = @ \cup {c}]
  /\ UNCHANGED <<declared, unacked, redelivered, resultQueues, consumer, faults>>

(* No Qos is set, so the broker pushes ready commands to any subscribed     *)
(* channel at once, up to all of them.                                      *)
Deliver(w) ==
  /\ consumer[w] = "subscribed"
  /\ \E c \in cmdQueue :
       /\ cmdQueue' = cmdQueue \ {c}
       /\ unacked' = [unacked EXCEPT ![w] = @ \cup {c}]
       /\ delivered' = [delivered EXCEPT ![w] = @ \cup {c}]
  /\ UNCHANGED <<declared, redelivered, resultQueues, consumer, faults>>

(* The broker connection of w breaks while the process lives on.  What is   *)
(* in msgs may still be read before the Go channel is seen closed.          *)
ConnectionLost(w) ==
  /\ consumer[w] \in {"open", "subscribed"}
  /\ Fault("conn")
  /\ Disconnect(w, "dead")
  /\ UNCHANGED <<declared, delivered, resultQueues>>
=============================================================================
