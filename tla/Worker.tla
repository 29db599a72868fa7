------------------------------- MODULE Worker -------------------------------
(***************************************************************************)
(* The worker side of a task: the gRPC handler StartConsumer               *)
(* (internal/mq/consumer_server.go) and the loop of ConsumeCommand         *)
(* (internal/mq/consume.go) that runs commands and sends their results.    *)
(*                                                                         *)
(* One handler per worker and task.  Its steps are the points where it     *)
(* meets the broker, the stream or the process that dials it:              *)
(*                                                                         *)
(*   called -> created -> loop -> ran -> published -> signalled -> loop    *)
(*                                                                         *)
(* and ended (the handler returned) or crashed (the process died).         *)
(*                                                                         *)
(* Results travel on an AMQP connection of their own, the publisher's: the *)
(* breaks of the consumer's connection do not touch it.  There are no      *)
(* publisher confirms, so the handler goes on when the frame is written;   *)
(* when the broker has the result is the broker's affair (ResultArrives).  *)
(***************************************************************************)
EXTENDS MessageQueue

CONSTANT NoExec  \* no command in hand

ASSUME WorkerAssumption == NoExec \notin Execution

VARIABLES
  handler,  \* handler[w]: how far StartConsumer of w is
  current,  \* current[w]: the command being run, its result queue
  ran,      \* history: every execution of a command by /bin/sh
  inTransit,  \* results written to a publisher's connection, not yet at the broker
  lost,     \* history: executions whose result a fault has destroyed
  signals,  \* FinishedCommand messages sent and not yet received
  ctxDone   \* workers whose stream context is cancelled or broken

transitVars == <<inTransit, lost>>

workerVars == <<handler, current, ran, transitVars, signals, ctxDone>>

Busy == {"ran", "published", "signalled"}

HandlerStates == {"none", "called", "created", "loop", "ended", "crashed"} \cup Busy

WorkerTypeOK ==
  /\ handler \in [Workers -> HandlerStates]
  /\ current \in [Workers -> Execution \cup {NoExec}]
  /\ ran \subseteq Execution
  /\ inTransit \subseteq Execution
  /\ lost \subseteq Execution
  /\ signals \subseteq Execution
  /\ ctxDone \subseteq Workers

WorkerInit ==
  /\ handler = [w \in Workers |-> "none"]
  /\ current = [w \in Workers |-> NoExec]
  /\ ran = {}
  /\ inTransit = {}
  /\ lost = {}
  /\ signals = {}
  /\ ctxDone = {}

Goto(w, h) == handler' = [handler EXCEPT ![w] = h]

-----------------------------------------------------------------------------

(* getConsumer: the first task of a process creates its Consumer, and with  *)
(* it the queues; later tasks reuse it, whatever became of it.              *)
GetConsumer(w) ==
  /\ handler[w] = "called"
  /\ Goto(w, "created")
  /\ IF consumer[w] = "nil"
       THEN /\ consumer' = [consumer EXCEPT ![w] = "open"]
            /\ declared' = TRUE
       ELSE UNCHANGED <<consumer, declared>>
  /\ UNCHANGED <<cmdQueue, unacked, delivered, redelivered, resultQueues, faults,
                 current, ran, transitVars, signals, ctxDone>>

(* NewConsumer fails somewhere on its way: the queues may exist by then,    *)
(* ConsumerInstance stays nil, StartConsumer returns the error.             *)
GetConsumerFails(w) ==
  /\ handler[w] = "called"
  /\ consumer[w] = "nil"
  /\ Fault("mq")
  /\ declared' \in BOOLEAN
  /\ declared => declared'
  /\ Goto(w, "ended")
  /\ UNCHANGED <<cmdQueue, unacked, delivered, redelivered, resultQueues, consumer,
                 current, ran, transitVars, signals, ctxDone>>

(* channel.Consume on a fresh channel.                                      *)
Consume(w) ==
  /\ handler[w] = "created"
  /\ consumer[w] = "open"
  /\ consumer' = [consumer EXCEPT ![w] = "subscribed"]
  /\ Goto(w, "loop")
  /\ UNCHANGED <<declared, cmdQueue, unacked, delivered, redelivered, resultQueues,
                 faults, current, ran, transitVars, signals, ctxDone>>

(* channel.Consume on a closed channel returns an error.                    *)
ConsumeOnClosed(w) ==
  /\ handler[w] = "created"
  /\ consumer[w] = "dead"
  /\ Goto(w, "ended")
  /\ UNCHANGED <<mqVars, current, ran, transitVars, signals, ctxDone>>

(* channel.Consume with the tag an earlier task subscribed with: nothing    *)
(* cancelled that subscription, c.tag is the same, and AMQP answers a tag   *)
(* in use by closing the connection (530 NOT_ALLOWED).                      *)
ConsumeTagInUse(w) ==
  /\ handler[w] = "created"
  /\ consumer[w] = "subscribed"
  /\ Disconnect(w, "dead")
  /\ delivered' = [delivered EXCEPT ![w] = {}]
  /\ Goto(w, "ended")
  /\ UNCHANGED <<declared, resultQueues, faults, current, ran, transitVars, signals,
                 ctxDone>>

(* The loop receives a command from msgs and runs it; its exit status       *)
(* decides the result queue.                                                *)
Run(w) ==
  /\ handler[w] = "loop"
  /\ \E c \in delivered[w], k \in ResultQueueNames :
       LET e == [cmd |-> c, worker |-> w, queue |-> k] IN
       /\ delivered' = [delivered EXCEPT ![w] = @ \ {c}]
       /\ current' = [current EXCEPT ![w] = e]
       /\ ran' = ran \cup {e}
  /\ Goto(w, "ran")
  /\ UNCHANGED <<declared, cmdQueue, unacked, redelivered, resultQueues, consumer,
                 faults, transitVars, signals, ctxDone>>

(* c.publisher.Publish to the output or error queue returns nil: the frame  *)
(* is on its way.                                                           *)
PublishResult(w) ==
  /\ handler[w] = "ran"
  /\ inTransit' = inTransit \cup {current[w]}
  /\ Goto(w, "published")
  /\ UNCHANGED <<mqVars, current, ran, lost, signals, ctxDone>>

(* It returns an error, every attempt to write having failed, or the frame  *)
(* is on a connection that breaks; the handler goes on as if it were not.   *)
PublishResultFails(w) ==
  /\ handler[w] = "ran"
  /\ Fault("mq")
  /\ lost' = lost \cup {current[w]}
  /\ Goto(w, "published")
  /\ UNCHANGED <<declared, cmdQueue, unacked, delivered, redelivered, resultQueues,
                 consumer, current, ran, inTransit, signals, ctxDone>>

(* Mutation: tell the orchestrator before the result is published.          *)
Bug_SignalBeforePublish(w) ==
  /\ \/ /\ handler[w] = "published"
        /\ Goto(w, "signalled")
        /\ UNCHANGED signals
     \/ /\ handler[w] = "ran"
        /\ current[w] \notin signals
        /\ signals' = signals \cup {current[w]}
        /\ UNCHANGED handler
  /\ UNCHANGED <<mqVars, current, ran, transitVars, ctxDone>>

(* stream.Send with FinishedCommand; its error is ignored, so a message to  *)
(* a stream that is gone is lost.                                           *)
Signal(w) ==
  /\ handler[w] = "published"
  /\ signals' = IF w \in ctxDone THEN signals ELSE signals \cup {current[w]}
  /\ Goto(w, "signalled")
  /\ UNCHANGED <<mqVars, current, ran, transitVars, ctxDone>>

(* Mutation: the loop goes on without d.Ack.                                *)
Bug_NoAck(w) ==
  /\ handler[w] = "signalled"
  /\ current' = [current EXCEPT ![w] = NoExec]
  /\ Goto(w, "loop")
  /\ UNCHANGED <<mqVars, ran, transitVars, signals, ctxDone>>

(* d.Ack(false); on a dead connection it fails, and unacked[w] is empty.    *)
Ack(w) ==
  /\ handler[w] = "signalled"
  /\ unacked' = [unacked EXCEPT ![w] = @ \ {current[w].cmd}]
  /\ current' = [current EXCEPT ![w] = NoExec]
  /\ Goto(w, "loop")
  /\ UNCHANGED <<declared, cmdQueue, delivered, redelivered, resultQueues, consumer,
                 faults, ran, transitVars, signals, ctxDone>>

(* The loop sees ctx.Done and returns.  The subscription stays.             *)
ContextDone(w) ==
  /\ handler[w] = "loop"
  /\ w \in ctxDone
  /\ Goto(w, "ended")
  /\ UNCHANGED <<mqVars, current, ran, transitVars, signals, ctxDone>>

(* The loop reads from a closed msgs and returns an error; what was in msgs *)
(* is dropped.                                                              *)
DeliveriesClosed(w) ==
  /\ handler[w] = "loop"
  /\ consumer[w] = "dead"
  /\ delivered' = [delivered EXCEPT ![w] = {}]
  /\ Goto(w, "ended")
  /\ UNCHANGED <<declared, cmdQueue, unacked, redelivered, resultQueues, consumer,
                 faults, current, ran, transitVars, signals, ctxDone>>

(* The process dies, and its broker connections and its stream with it: a   *)
(* result it has not published is lost, and any it has may be.  It does not *)
(* come back within the task.                                               *)
Crash(w) ==
  /\ handler[w] # "crashed"
  /\ Fault("crash")
  /\ Disconnect(w, "nil")
  /\ delivered' = [delivered EXCEPT ![w] = {}]
  /\ current' = [current EXCEPT ![w] = NoExec]
  /\ \E R \in SUBSET {e \in inTransit : e.worker = w} :
       /\ inTransit' = inTransit \ R
       /\ lost' = lost \cup R \cup (IF handler[w] = "ran" THEN {current[w]} ELSE {})
  /\ Goto(w, "crashed")
  /\ ctxDone' = ctxDone \cup {w}
  /\ UNCHANGED <<declared, resultQueues, ran, signals>>

(* The broker takes a result to its queue, in its own time.                 *)
ResultArrives(e) ==
  /\ e \in inTransit
  /\ inTransit' = inTransit \ {e}
  /\ resultQueues' = resultQueues \cup {e}
  /\ UNCHANGED <<declared, cmdQueue, unacked, delivered, redelivered, consumer, faults,
                 handler, current, ran, lost, signals, ctxDone>>

(* The connection of the publisher breaks first.                            *)
ResultLost(e) ==
  /\ e \in inTransit
  /\ Fault("mq")
  /\ inTransit' = inTransit \ {e}
  /\ lost' = lost \cup {e}
  /\ UNCHANGED <<declared, cmdQueue, unacked, delivered, redelivered, resultQueues,
                 consumer, handler, current, ran, signals, ctxDone>>

-----------------------------------------------------------------------------

(* What StartConsumer of w does of itself.                                  *)
HandlerStep(w) ==
  \/ GetConsumer(w)
  \/ Consume(w)
  \/ ConsumeOnClosed(w)
  \/ ConsumeTagInUse(w)
  \/ Run(w)
  \/ PublishResult(w)
  \/ Signal(w)
  \/ Ack(w)
  \/ ContextDone(w)
  \/ DeliveriesClosed(w)

HandlerFault(w) ==
  \/ GetConsumerFails(w)
  \/ PublishResultFails(w)
  \/ Crash(w)
=============================================================================
