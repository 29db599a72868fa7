------------------------------ MODULE TaskRun -------------------------------
(***************************************************************************)
(* One call of TaskExecutor.RunTaskOnAllMachines (internal/sync/runner.go) *)
(* with the workers and the broker it uses: the orchestrator goroutine,    *)
(* one dispatcher goroutine per endpoint of te.RunsOn, the two goroutines  *)
(* running ConsumeQueueContents, and the one that closes done.             *)
(*                                                                         *)
(*   pc: ready -> publish -> wait -> openOut -> openErr -> collect         *)
(*             -> closing -> done                                          *)
(*                                                                         *)
(* or panic, when a WaitGroup counter would become negative.               *)
(***************************************************************************)
EXTENDS Worker

CONSTANTS
  SleepSuffices,  \* every dialled worker is past getConsumer after the 3 s sleep
  MaxRetries      \* bound: maxRetries of PublishWithRetry, 10 in the code

ASSUME TaskRunAssumption ==
  /\ SleepSuffices \in BOOLEAN
  /\ MaxRetries \in Nat \ {0}

VARIABLES
  pc,              \* where RunTaskOnAllMachines is
  cmds,            \* te.Cmds
  runsOn,          \* te.RunsOn
  consumersReady,  \* endpoints that have not called consumersReady.Done
  clientConns,     \* endpoints a grpc.ClientConn was created for; none is closed
  dispatcher,      \* dispatcher[w]: the goroutine of endpoint w
  publication,     \* publication[c]: what became of publishing c
  attempt,         \* attempts of the publish under way that were returned
  wg,              \* counter of the WaitGroup wg
  received,        \* history: the executions whose wg.Done was called
  cmdRes,          \* counter of the WaitGroup cmdResWg
  doneClosed,      \* the channel done is closed
  collector,       \* collector[k]: the ConsumeQueueContents of queue k
  collectErr,      \* queues whose error variable is set
  read,            \* the contents of outputsRes and errorsRes
  state,           \* te.State
  outputs,         \* te.Outputs and te.Errors
  ret              \* what the call returned

teVars == <<cmds, runsOn, state, outputs, ret>>
publishVars == <<publication, attempt>>
waitVars == <<consumersReady, clientConns, dispatcher, wg, received>>
collectVars == <<cmdRes, doneClosed, collector, collectErr, read>>

vars == <<mqVars, workerVars, pc, teVars, publishVars, waitVars, collectVars>>

PCs == {"ready", "publish", "wait", "openOut", "openErr", "collect", "closing",
        "done", "panic"}

TaskStates == {"StartingTask", "RunningTask", "CompletedTask", "ErrorInTask",
               "CompleteTaskWithErrors"}

TaskTypeOK ==
  /\ pc \in PCs
  /\ cmds \subseteq Cmds
  /\ runsOn \subseteq Workers
  /\ consumersReady \subseteq Workers
  /\ clientConns \subseteq Workers
  /\ dispatcher \in [Workers -> {"none", "dial", "recv", "exited"}]
  /\ publication \in [Cmds -> {"unpublished", "queued", "dropped", "refused"}]
  /\ attempt \in Nat
  /\ wg \in Nat
  /\ received \subseteq Execution
  /\ cmdRes \in Nat
  /\ doneClosed \in BOOLEAN
  /\ collector \in
       [ResultQueueNames -> {"none", "start", "loop", "ack", "spin", "exited"}]
  /\ collectErr \subseteq ResultQueueNames
  /\ read \subseteq Execution
  /\ state \in TaskStates
  /\ outputs \subseteq Execution
  /\ ret \in {"none", "nil", "err"}

(* The WaitGroups are set up and the dispatchers started.                   *)
TaskInit ==
  /\ pc = "ready"
  /\ cmds \in SUBSET Cmds
  /\ runsOn \in SUBSET Workers
  /\ consumersReady = runsOn
  /\ clientConns = {}
  /\ dispatcher = [w \in Workers |-> IF w \in runsOn THEN "dial" ELSE "none"]
  /\ publication = [c \in Cmds |-> "unpublished"]
  /\ attempt = 0
  /\ wg = Cardinality(cmds)
  /\ received = {}
  /\ cmdRes = 0
  /\ doneClosed = FALSE
  /\ collector = [k \in ResultQueueNames |-> "none"]
  /\ collectErr = {}
  /\ read = {}
  /\ state = "RunningTask"
  /\ outputs = {}
  /\ ret = "none"

Running == pc # "panic"

(* Mutation: sync.WaitGroup notices a negative counter one Done too late.   *)
Bug_BelowZero(n) == n < 0

(* Done takes a WaitGroup counter that is n below zero.                     *)
BelowZero(n) == n = 0

(* Done on such a counter: the process panics, and every stream and         *)
(* connection of it is gone.                                                *)
Panic ==
  /\ pc' = "panic"
  /\ ctxDone' = Workers

-----------------------------------------------------------------------------
(* The dispatcher goroutines (runner.go:40-81).                             *)

(* grpc.CreateNewClientConnection and client.StartConsumer succeed, then    *)
(* consumersReady.Done.  The handler starts on its own time.  Whatever      *)
(* becomes of the stream, nothing closes the ClientConn.                    *)
Dial(w) ==
  /\ Running
  /\ dispatcher[w] = "dial"
  /\ handler[w] = "none"
  /\ handler' = [handler EXCEPT ![w] = "called"]
  /\ dispatcher' = [dispatcher EXCEPT ![w] = "recv"]
  /\ clientConns' = clientConns \cup {w}
  /\ consumersReady' = consumersReady \ {w}
  /\ UNCHANGED <<mqVars, current, ran, transitVars, signals, ctxDone, pc, teVars,
                 publishVars, wg, received, collectVars>>

(* Either of them fails: the goroutine returns and consumersReady.Done is   *)
(* never called.                                                            *)
DialFails(w) ==
  /\ Running
  /\ dispatcher[w] = "dial"
  /\ Fault("dial")
  /\ clientConns' \in {clientConns, clientConns \cup {w}}
  /\ dispatcher' = [dispatcher EXCEPT ![w] = "exited"]
  /\ UNCHANGED <<declared, cmdQueue, unacked, delivered, redelivered, resultQueues,
                 consumer, workerVars, pc, teVars, publishVars, consumersReady, wg,
                 received, collectVars>>

(* StartConsumer fails because the worker process is gone.                  *)
DialCrashed(w) ==
  /\ Running
  /\ dispatcher[w] = "dial"
  /\ handler[w] = "crashed"
  /\ clientConns' = clientConns \cup {w}
  /\ dispatcher' = [dispatcher EXCEPT ![w] = "exited"]
  /\ UNCHANGED <<mqVars, workerVars, pc, teVars, publishVars, consumersReady, wg,
                 received, collectVars>>

(* stream.Recv returns a message with FinishedCommand set: wg.Done.         *)
Recv(w) ==
  /\ Running
  /\ dispatcher[w] = "recv"
  /\ \E e \in signals :
       /\ e.worker = w
       /\ signals' = signals \ {e}
       /\ received' = received \cup {e}
  /\ IF BelowZero(wg)
       THEN Panic /\ UNCHANGED wg
       ELSE wg' = wg - 1 /\ UNCHANGED <<pc, ctxDone>>
  /\ UNCHANGED <<mqVars, handler, current, ran, transitVars, teVars, publishVars,
                 consumersReady, clientConns, dispatcher, collectVars>>

(* stream.Recv returns an error: the context is cancelled or the stream     *)
(* broken, or the handler returned and every message has been read.         *)
RecvEnds(w) ==
  /\ Running
  /\ dispatcher[w] = "recv"
  /\ \/ w \in ctxDone
     \/ /\ handler[w] = "ended"
        /\ \A e \in signals : e.worker # w
  /\ dispatcher' = [dispatcher EXCEPT ![w] = "exited"]
  /\ signals' = {e \in signals : e.worker # w}
  /\ UNCHANGED <<mqVars, handler, current, ran, transitVars, ctxDone, pc, teVars,
                 publishVars, consumersReady, clientConns, wg, received, collectVars>>

(* The gRPC connection to w breaks; messages in transit are lost.           *)
StreamBreaks(w) ==
  /\ Running
  /\ dispatcher[w] = "recv"
  /\ w \notin ctxDone
  /\ Fault("stream")
  /\ dispatcher' = [dispatcher EXCEPT ![w] = "exited"]
  /\ signals' = {e \in signals : e.worker # w}
  /\ ctxDone' = ctxDone \cup {w}
  /\ UNCHANGED <<declared, cmdQueue, unacked, delivered, redelivered, resultQueues,
                 consumer, handler, current, ran, transitVars, pc, teVars,
                 publishVars, consumersReady, clientConns, wg, received, collectVars>>

-----------------------------------------------------------------------------
(* The orchestrator goroutine up to wg.Wait (runner.go:85-101).             *)

(* consumersReady.Wait, then time.Sleep(3 s).                               *)
ConsumersReady ==
  /\ pc = "ready"
  /\ consumersReady = {}
  /\ SleepSuffices => \A w \in runsOn : handler[w] # "called"
  /\ pc' = "publish"
  /\ UNCHANGED <<mqVars, workerVars, teVars, publishVars, waitVars, collectVars>>

Unpublished == {c \in cmds : publication[c] = "unpublished"}

(* c is the next entry of te.Cmds.  Which one it is matters to nothing      *)
(* before its fate is decided, so it is chosen then.                        *)
Settle(c, fate) ==
  /\ pc = "publish"
  /\ c \in Unpublished
  /\ publication' = [publication EXCEPT ![c] = fate]
  /\ attempt' = 0

(* NewPublisher and Publish succeed, and a queue is bound to the key.       *)
Publish(c) ==
  /\ declared
  /\ Settle(c, "queued")
  /\ cmdQueue' = cmdQueue \cup {c}
  /\ UNCHANGED <<declared, unacked, delivered, redelivered, resultQueues, consumer,
                 faults, workerVars, pc, teVars, waitVars, collectVars>>

(* No queue is bound: the broker returns the message, which arrives before  *)
(* the timer of 1 ms; back off and publish again.                           *)
PublishReturned ==
  /\ pc = "publish"
  /\ ~declared
  /\ Unpublished # {}
  /\ attempt + 1 < MaxRetries
  /\ attempt' = attempt + 1
  /\ UNCHANGED <<mqVars, workerVars, pc, teVars, publication, waitVars, collectVars>>

(* The last attempt is returned: Publish returns an error, which is ignored.*)
PublishGivesUp(c) ==
  /\ ~declared
  /\ attempt + 1 = MaxRetries
  /\ Settle(c, "refused")
  /\ UNCHANGED <<mqVars, workerVars, pc, teVars, waitVars, collectVars>>

(* The timer of 1 ms fires first: Publish returns nil, the message is gone. *)
PublishDropped(c) ==
  /\ ~declared
  /\ Settle(c, "dropped")
  /\ UNCHANGED <<mqVars, workerVars, pc, teVars, waitVars, collectVars>>

(* NewPublisher fails and the loop continues, or every attempt of Publish   *)
(* fails and its error is ignored.                                          *)
PublisherFails(c) ==
  /\ Fault("mq")
  /\ Settle(c, "refused")
  /\ UNCHANGED <<declared, cmdQueue, unacked, delivered, redelivered, resultQueues,
                 consumer, workerVars, pc, teVars, waitVars, collectVars>>

AllPublished ==
  /\ pc = "publish"
  /\ Unpublished = {}
  /\ pc' = "wait"
  /\ UNCHANGED <<mqVars, workerVars, teVars, publishVars, waitVars, collectVars>>

(* Mutation: wg.Add is one short.                                           *)
Bug_OneShort == wg <= 1

(* Mutation: wait for the streams to end as well.                           *)
Bug_WaitForStreams == wg = 0 /\ \A w \in runsOn : dispatcher[w] = "exited"

(* wg.Wait returns.                                                         *)
FinishedAll == wg = 0

(* Mutation: cancel is never called.                                        *)
Bug_NoCancel == UNCHANGED ctxDone

Cancel == ctxDone' = Workers

CommandsFinished ==
  /\ pc = "wait"
  /\ FinishedAll
  /\ pc' = "openOut"
  /\ Cancel
  /\ UNCHANGED <<mqVars, handler, current, ran, transitVars, signals, teVars,
                 publishVars, waitVars, collectVars>>

-----------------------------------------------------------------------------
(* Collecting the results (runner.go:105-152).                              *)

(* NewConsumer for the output queue.                                        *)
OpenOutputConsumer ==
  /\ pc = "openOut"
  /\ pc' = "openErr"
  /\ declared' = TRUE
  /\ UNCHANGED <<cmdQueue, unacked, delivered, redelivered, resultQueues, consumer,
                 faults, workerVars, teVars, publishVars, waitVars, collectVars>>

(* NewConsumer for the error queue; then cmdResWg and the three goroutines. *)
OpenErrorConsumer ==
  /\ pc = "openErr"
  /\ pc' = "collect"
  /\ cmdRes' = Cardinality(cmds)
  /\ collector' = [k \in ResultQueueNames |-> "start"]
  /\ UNCHANGED <<mqVars, workerVars, teVars, publishVars, waitVars, doneClosed,
                 collectErr, read>>

(* Either NewConsumer fails: the call returns its error.                    *)
OpenConsumerFails ==
  /\ pc \in {"openOut", "openErr"}
  /\ Fault("mq")
  /\ pc' = "done"
  /\ ret' = "err"
  /\ declared' \in BOOLEAN
  /\ declared => declared'
  /\ UNCHANGED <<cmdQueue, unacked, delivered, redelivered, resultQueues, consumer,
                 workerVars, cmds, runsOn, state, outputs, publishVars, waitVars,
                 collectVars>>

MoveCollector(k, s) == collector' = [collector EXCEPT ![k] = s]

(* channel.Consume on queue k.                                              *)
Subscribe(k) ==
  /\ Running
  /\ collector[k] = "start"
  /\ pc # "done"
  /\ MoveCollector(k, "loop")
  /\ UNCHANGED <<mqVars, workerVars, pc, teVars, publishVars, waitVars, cmdRes,
                 doneClosed, collectErr, read>>

(* channel.Consume fails: *e is set and the goroutine returns, without a    *)
(* word to cmdResWg.                                                        *)
NotSubscribed(k) ==
  /\ collector[k] = "start"
  /\ MoveCollector(k, "exited")
  /\ collectErr' = collectErr \cup {k}

SubscribeFails(k) ==
  /\ Running
  /\ NotSubscribed(k)
  /\ Fault("mq")
  /\ UNCHANGED <<declared, cmdQueue, unacked, delivered, redelivered, resultQueues,
                 consumer, workerVars, pc, teVars, publishVars, waitVars, cmdRes,
                 doneClosed, read>>

(* The same, because the call has returned and closed the channel.          *)
SubscribeOnClosed(k) ==
  /\ pc = "done"
  /\ NotSubscribed(k)
  /\ UNCHANGED <<mqVars, workerVars, pc, teVars, publishVars, waitVars, cmdRes,
                 doneClosed, read>>

(* A result is appended to the buffer, then cmdResWg.Done.                  *)
ReadResult(k) ==
  /\ Running
  /\ collector[k] = "loop"
  /\ \E e \in ResultsIn(k) \ read : read' = read \cup {e}
  /\ MoveCollector(k, "ack")
  /\ IF BelowZero(cmdRes)
       THEN Panic /\ UNCHANGED cmdRes
       ELSE cmdRes' = cmdRes - 1 /\ UNCHANGED <<pc, ctxDone>>
  /\ UNCHANGED <<mqVars, handler, current, ran, transitVars, signals, teVars,
                 publishVars, waitVars, doneClosed, collectErr>>

(* d.Ack(false) for the one result of k that is read and still the broker's.*)
AckResult(k) ==
  /\ Running
  /\ collector[k] = "ack"
  /\ MoveCollector(k, "loop")
  /\ resultQueues' = resultQueues \ (ResultsIn(k) \cap read)
  /\ UNCHANGED <<declared, cmdQueue, unacked, delivered, redelivered, consumer,
                 faults, workerVars, pc, teVars, publishVars, waitVars, cmdRes,
                 doneClosed, collectErr, read>>

(* The broker connection of a collector breaks.  From then on the select    *)
(* finds msgs closed at every turn and spins until done is closed.          *)
CollectorConnLost(k) ==
  /\ Running
  /\ collector[k] \in {"loop", "ack"}
  /\ Fault("conn")
  /\ MoveCollector(k, "spin")
  /\ UNCHANGED <<declared, cmdQueue, unacked, delivered, redelivered, resultQueues,
                 consumer, workerVars, pc, teVars, publishVars, waitVars, cmdRes,
                 doneClosed, collectErr, read>>

(* Mutation: cmdResWg.Add is one short.                                     *)
Bug_ResultsOneShort == cmdRes <= 1

(* cmdResWg.Wait returns.                                                   *)
ResultsRead == cmdRes = 0

(* The third goroutine: close(done).                                        *)
CloseDone ==
  /\ pc \in {"collect", "closing", "done"}
  /\ ret # "err"
  /\ ResultsRead
  /\ ~doneClosed
  /\ doneClosed' = TRUE
  /\ UNCHANGED <<mqVars, workerVars, pc, teVars, publishVars, waitVars, cmdRes,
                 collector, collectErr, read>>

(* The select sees done.                                                    *)
CollectorExits(k) ==
  /\ Running
  /\ collector[k] \in {"loop", "spin"}
  /\ doneClosed
  /\ MoveCollector(k, "exited")
  /\ UNCHANGED <<mqVars, workerVars, pc, teVars, publishVars, waitVars, cmdRes,
                 doneClosed, collectErr, read>>

(* cmdResWg.Wait returns.  An error of a collector is logged, but the err   *)
(* returned is that of the last NewConsumer, nil.                           *)
Collected ==
  /\ pc = "collect"
  /\ ResultsRead
  /\ pc' = "closing"
  /\ ret' = "nil"
  /\ IF collectErr # {}
       THEN UNCHANGED <<state, outputs>>
       ELSE /\ outputs' = read
            /\ state' = IF \E e \in read : e.queue = "error"
                          THEN "CompleteTaskWithErrors" ELSE state
  /\ UNCHANGED <<mqVars, workerVars, cmds, runsOn, publishVars, waitVars,
                 collectVars>>

(* The deferred Close calls: a collector not done with its channel finds it *)
(* closed, and a result read but not acknowledged is the broker's again.    *)
CloseConsumers ==
  /\ pc = "closing"
  /\ pc' = "done"
  /\ collector' = [k \in ResultQueueNames |->
                     IF collector[k] \in {"loop", "ack"} THEN "spin" ELSE collector[k]]
  /\ UNCHANGED <<mqVars, workerVars, teVars, publishVars, waitVars, cmdRes,
                 doneClosed, collectErr, read>>

-----------------------------------------------------------------------------

DispatcherStep(w) == Dial(w) \/ DialCrashed(w) \/ Recv(w) \/ RecvEnds(w)

CollectorStep(k) ==
  \/ Subscribe(k)
  \/ SubscribeOnClosed(k)
  \/ ReadResult(k)
  \/ AckResult(k)
  \/ CollectorExits(k)

MainStep ==
  \/ ConsumersReady
  \/ PublishReturned
  \/ \E c \in Cmds : Publish(c) \/ PublishGivesUp(c) \/ PublishDropped(c)
  \/ AllPublished
  \/ CommandsFinished
  \/ OpenOutputConsumer
  \/ OpenErrorConsumer
  \/ Collected
  \/ CloseConsumers

OrchestratorIdle == UNCHANGED <<pc, teVars, publishVars, waitVars, collectVars>>

WorkerStep(w) == HandlerStep(w) /\ OrchestratorIdle

DeliverStep ==
  (\E w \in Workers : Deliver(w)) /\ UNCHANGED workerVars /\ OrchestratorIdle

TaskFault ==
  \/ \E w \in Workers : DialFails(w) \/ StreamBreaks(w)
  \/ \E c \in Cmds : PublisherFails(c)
  \/ \E k \in ResultQueueNames : SubscribeFails(k) \/ CollectorConnLost(k)
  \/ OpenConsumerFails

WorkerFault(w) == HandlerFault(w) /\ OrchestratorIdle

ArriveStep == (\E e \in Execution : ResultArrives(e)) /\ OrchestratorIdle

TransitFault == (\E e \in Execution : ResultLost(e)) /\ OrchestratorIdle

ConnectionFault(w) == ConnectionLost(w) /\ UNCHANGED workerVars /\ OrchestratorIdle

Init == MQInit /\ WorkerInit /\ TaskInit

Next ==
  \/ MainStep
  \/ CloseDone
  \/ \E w \in Workers : DispatcherStep(w) \/ WorkerStep(w)
  \/ \E k \in ResultQueueNames : CollectorStep(k)
  \/ DeliverStep
  \/ ArriveStep
  \/ TaskFault
  \/ TransitFault
  \/ \E w \in Workers : WorkerFault(w) \/ ConnectionFault(w)

(* Every goroutine, every handler and the broker keep running; no fault has *)
(* to happen.                                                               *)
Fairness ==
  /\ WF_vars(MainStep)
  /\ WF_vars(CloseDone)
  /\ \A w \in Workers : WF_vars(DispatcherStep(w)) /\ WF_vars(WorkerStep(w))
  /\ \A k \in ResultQueueNames : WF_vars(CollectorStep(k))
  /\ WF_vars(DeliverStep)
  /\ WF_vars(ArriveStep)

Spec == Init /\ [][Next]_vars

FairSpec == Spec /\ Fairness
=============================================================================
