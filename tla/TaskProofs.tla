----------------------------- MODULE TaskProofs -----------------------------
(***************************************************************************)
(* Proofs about TaskRun, for every set of workers and commands, every      *)
(* number and kind of faults, and both answers to the 3 s sleep.           *)
(*                                                                         *)
(* The inductive invariant IInv is built in layers, each proved with the   *)
(* ones before it: TypeInv; Placement, where a command can be; Unique, that*)
(* a command never redelivered is in one place; Waiting, what the first    *)
(* WaitGroup counts; Results, what the second one counts and what is       *)
(* reported.  In each proof an action that changes a variable the layer    *)
(* speaks of has a step of its own; the others share one.                  *)
(***************************************************************************)
EXTENDS TaskProperties, TLAPS, FiniteSetTheorems

-----------------------------------------------------------------------------
(* Types.                                                                   *)

(* A handler between running a command and acknowledging it has the command *)
(* in hand, and the command is one that was run.                            *)
BusyHasCommand ==
  \A w \in Workers : handler[w] \in Busy => current[w] \in ran /\ current[w].worker = w

TypeInv == TypeOK /\ BusyHasCommand

LEMMA TypeInit == Init => TypeInv
<1> SUFFICES ASSUME Init PROVE TypeInv
  OBVIOUS
<1>1. consumer \in [Workers -> ConsumerStates]
  BY MessageQueueAssumption DEF Init, MQInit, ConsumerStates
<1>2. Cardinality(cmds) \in Nat
  BY FS_Subset, FS_CardinalityType, MessageQueueAssumption DEF Init, TaskInit
<1>3. MQTypeOK
  BY <1>1 DEF Init, MQInit, MQTypeOK
<1>4. WorkerTypeOK /\ BusyHasCommand
  BY DEF Init, WorkerInit, WorkerTypeOK, HandlerStates, Busy, BusyHasCommand
<1>5. TaskTypeOK
  BY <1>2 DEF Init, TaskInit, TaskTypeOK, PCs, TaskStates, ResultQueueNames
<1> QED
  BY <1>3, <1>4, <1>5 DEF TypeInv, TypeOK

LEMMA TypeNext == TypeInv /\ [Next]_vars => TypeInv'
<1> SUFFICES ASSUME TypeInv, [Next]_vars PROVE TypeInv'
  OBVIOUS
<1> USE DEF TypeInv, BusyHasCommand, TypeOK, MQTypeOK, WorkerTypeOK, TaskTypeOK,
            ConsumerStates, HandlerStates, Busy, PCs, TaskStates, ResultQueueNames,
            Execution, mqVars, workerVars, transitVars, teVars, publishVars, waitVars,
            collectVars
<1>1. ASSUME MainStep PROVE TypeInv'
  <2>1. CASE ConsumersReady
    BY <2>1 DEF ConsumersReady
  <2>2. ASSUME NEW c \in Cmds, Publish(c) PROVE TypeInv'
    BY <2>2 DEF Publish, Settle, Unpublished
  <2>3. CASE PublishReturned
    BY <2>3 DEF PublishReturned, Unpublished
  <2>4. ASSUME NEW c \in Cmds, PublishGivesUp(c) PROVE TypeInv'
    BY <2>4 DEF PublishGivesUp, Settle, Unpublished
  <2>5. ASSUME NEW c \in Cmds, PublishDropped(c) PROVE TypeInv'
    BY <2>5 DEF PublishDropped, Settle, Unpublished
  <2>6. CASE AllPublished
    BY <2>6 DEF AllPublished, Unpublished
  <2>7. CASE CommandsFinished
    BY <2>7 DEF CommandsFinished, FinishedAll, Cancel
  <2>8. CASE OpenOutputConsumer
    BY <2>8 DEF OpenOutputConsumer
  <2>9. CASE OpenErrorConsumer
    BY <2>9, FS_Subset, FS_CardinalityType, MessageQueueAssumption
       DEF OpenErrorConsumer
  <2>10. CASE Collected
    BY <2>10 DEF Collected, ResultsRead
  <2>11. CASE CloseConsumers
    BY <2>11 DEF CloseConsumers
  <2> QED
    BY <1>1, <2>1, <2>2, <2>3, <2>4, <2>5, <2>6, <2>7, <2>8, <2>9, <2>10, <2>11
       DEF MainStep
<1>2. ASSUME CloseDone PROVE TypeInv'
  BY <1>2 DEF CloseDone, ResultsRead
<1>3. ASSUME NEW w \in Workers, DispatcherStep(w) PROVE TypeInv'
  <2>1. CASE Dial(w)
    BY <2>1 DEF Dial
  <2>2. CASE DialCrashed(w)
    BY <2>2 DEF DialCrashed
  <2>3. CASE Recv(w)
    BY <2>3 DEF Recv, BelowZero, Panic
  <2>4. CASE RecvEnds(w)
    BY <2>4 DEF RecvEnds
  <2> QED
    BY <1>3, <2>1, <2>2, <2>3, <2>4 DEF DispatcherStep
<1>4. ASSUME NEW w \in Workers, WorkerStep(w) PROVE TypeInv'
  <2>1. OrchestratorIdle
    BY <1>4 DEF WorkerStep, HandlerStep
  <2>2. CASE GetConsumer(w)
    <3>1. MQTypeOK'
      <4>1. consumer' \in [Workers -> ConsumerStates]
        BY <2>2 DEF GetConsumer
      <4>2. declared' \in BOOLEAN
        BY <2>2, Zenon DEF GetConsumer
      <4> QED
        BY <2>2, <4>1, <4>2 DEF GetConsumer
    <3>2. WorkerTypeOK' /\ BusyHasCommand'
      BY <2>2 DEF GetConsumer, Goto
    <3>3. TaskTypeOK'
      BY <2>1 DEF OrchestratorIdle
    <3> HIDE DEF MQTypeOK, WorkerTypeOK, TaskTypeOK, BusyHasCommand
    <3> QED
      BY <3>1, <3>2, <3>3
  <2>3. CASE Consume(w)
    BY <2>3, <2>1 DEF Consume, Goto, OrchestratorIdle
  <2>4. CASE ConsumeOnClosed(w)
    BY <2>4, <2>1 DEF ConsumeOnClosed, Goto, OrchestratorIdle
  <2>5. CASE ConsumeTagInUse(w)
    BY <2>5, <2>1 DEF ConsumeTagInUse, Goto, Disconnect, OrchestratorIdle
  <2>6. CASE Run(w)
    BY <2>6, <2>1 DEF Run, Goto, OrchestratorIdle
  <2>7. CASE PublishResult(w)
    BY <2>7, <2>1 DEF PublishResult, Goto, OrchestratorIdle
  <2>8. CASE Signal(w)
    BY <2>8, <2>1 DEF Signal, Goto, OrchestratorIdle
  <2>9. CASE Ack(w)
    BY <2>9, <2>1 DEF Ack, Goto, OrchestratorIdle
  <2>10. CASE ContextDone(w)
    BY <2>10, <2>1 DEF ContextDone, Goto, OrchestratorIdle
  <2>11. CASE DeliveriesClosed(w)
    BY <2>11, <2>1 DEF DeliveriesClosed, Goto, OrchestratorIdle
  <2> QED
    BY <1>4, <2>1, <2>2, <2>3, <2>4, <2>5, <2>6, <2>7, <2>8, <2>9, <2>10, <2>11
       DEF WorkerStep, HandlerStep
<1>5. ASSUME NEW k \in ResultQueueNames, CollectorStep(k) PROVE TypeInv'
  <2>1. CASE Subscribe(k)
    BY <2>1 DEF Subscribe, MoveCollector
  <2>2. CASE SubscribeOnClosed(k)
    BY <2>2 DEF SubscribeOnClosed, NotSubscribed, MoveCollector
  <2>3. CASE ReadResult(k)
    BY <2>3 DEF ReadResult, BelowZero, Panic, MoveCollector, ResultsIn
  <2>4. CASE AckResult(k)
    BY <2>4 DEF AckResult, MoveCollector, ResultsIn
  <2>5. CASE CollectorExits(k)
    BY <2>5 DEF CollectorExits, MoveCollector
  <2> QED
    BY <1>5, <2>1, <2>2, <2>3, <2>4, <2>5 DEF CollectorStep
<1>6. ASSUME DeliverStep PROVE TypeInv'
  BY <1>6 DEF DeliverStep, Deliver, OrchestratorIdle
<1>7. ASSUME TaskFault PROVE TypeInv'
  <2>1. ASSUME NEW w \in Workers, DialFails(w) PROVE TypeInv'
    BY <2>1 DEF DialFails, Fault
  <2>2. ASSUME NEW w \in Workers, StreamBreaks(w) PROVE TypeInv'
    BY <2>2 DEF StreamBreaks, Fault
  <2>3. ASSUME NEW c \in Cmds, PublisherFails(c) PROVE TypeInv'
    BY <2>3 DEF PublisherFails, Settle, Unpublished, Fault
  <2>4. ASSUME NEW k \in ResultQueueNames, SubscribeFails(k) PROVE TypeInv'
    BY <2>4 DEF SubscribeFails, NotSubscribed, MoveCollector, Fault
  <2>5. ASSUME NEW k \in ResultQueueNames, CollectorConnLost(k) PROVE TypeInv'
    BY <2>5 DEF CollectorConnLost, MoveCollector, Fault
  <2>6. CASE OpenConsumerFails
    BY <2>6 DEF OpenConsumerFails, Fault
  <2> QED
    BY <1>7, <2>1, <2>2, <2>3, <2>4, <2>5, <2>6 DEF TaskFault
<1>8. ASSUME NEW w \in Workers, WorkerFault(w) PROVE TypeInv'
  <2>1. OrchestratorIdle
    BY <1>8 DEF WorkerFault, HandlerFault
  <2>2. CASE GetConsumerFails(w)
    BY <2>2, <2>1 DEF GetConsumerFails, Goto, Fault, OrchestratorIdle
  <2>3. CASE PublishResultFails(w)
    BY <2>3, <2>1 DEF PublishResultFails, Goto, Fault, OrchestratorIdle
  <2>4. CASE Crash(w)
    BY <2>4, <2>1 DEF Crash, Goto, Fault, Disconnect, OrchestratorIdle
  <2> QED
    BY <1>8, <2>1, <2>2, <2>3, <2>4 DEF WorkerFault, HandlerFault
<1>9. ASSUME NEW w \in Workers, ConnectionFault(w) PROVE TypeInv'
  BY <1>9 DEF ConnectionFault, ConnectionLost, Fault, Disconnect, OrchestratorIdle
<1>10. ASSUME ArriveStep \/ TransitFault PROVE TypeInv'
  <2>1. OrchestratorIdle
    BY <1>10 DEF ArriveStep, TransitFault
  <2>2. ASSUME NEW e \in Execution, ResultArrives(e) PROVE TypeInv'
    BY <2>1, <2>2 DEF ResultArrives, OrchestratorIdle
  <2>3. ASSUME NEW e \in Execution, ResultLost(e) PROVE TypeInv'
    BY <2>1, <2>3 DEF ResultLost, Fault, OrchestratorIdle
  <2> QED
    BY <1>10, <2>2, <2>3 DEF ArriveStep, TransitFault
<1>11. CASE UNCHANGED vars
  BY <1>11 DEF vars
<1> QED
  BY <1>1, <1>2, <1>3, <1>4, <1>5, <1>6, <1>7, <1>8, <1>9, <1>10, <1>11 DEF Next

(* In every reachable state each variable has its type and no counter is    *)
(* negative.                                                                *)
THEOREM TypeCorrect == Spec => []TypeOK
<1>1. TypeInv => TypeOK
  BY DEF TypeInv
<1> QED
  BY <1>1, TypeInit, TypeNext, PTL DEF Spec

-----------------------------------------------------------------------------
(* Commands are not lost.                                                   *)

(* Only a command the broker accepted is in the broker, in a worker or run. *)
OnlyQueued ==
  \A c \in Cmds :
    IF publication[c] = "queued"
      THEN c \in cmds
      ELSE /\ c \notin cmdQueue
           /\ \A w \in Workers : c \notin unacked[w] /\ c \notin delivered[w]
           /\ ~Executed(ran, c)

Placement == OnlyQueued /\ NoCommandVanishes

LEMMA PlacementNext == TypeInv /\ Placement /\ [Next]_vars => Placement'
<1> SUFFICES ASSUME TypeInv, Placement, [Next]_vars PROVE Placement'
  OBVIOUS
<1> USE DEF TypeInv, BusyHasCommand, TypeOK, MQTypeOK, WorkerTypeOK, TaskTypeOK,
            Busy, Execution, Executed, mqVars, workerVars, transitVars, teVars, publishVars,
            waitVars, collectVars, Placement, OnlyQueued, NoCommandVanishes
<1>1. ASSUME MainStep PROVE Placement'
  <2>1. ASSUME NEW c \in Cmds, Publish(c) PROVE Placement'
    BY <2>1 DEF Publish, Settle, Unpublished
  <2>2. ASSUME NEW c \in Cmds, PublishGivesUp(c) PROVE Placement'
    BY <2>2 DEF PublishGivesUp, Settle, Unpublished
  <2>3. ASSUME NEW c \in Cmds, PublishDropped(c) PROVE Placement'
    BY <2>3 DEF PublishDropped, Settle, Unpublished
  <2>4. CASE ConsumersReady \/ PublishReturned \/ AllPublished \/
           CommandsFinished \/ OpenOutputConsumer \/ OpenErrorConsumer \/
           Collected \/ CloseConsumers
    BY <2>4
       DEF ConsumersReady, PublishReturned, Unpublished, AllPublished,
           CommandsFinished, FinishedAll, Cancel, OpenOutputConsumer,
           OpenErrorConsumer, Collected, ResultsRead, CloseConsumers
  <2> QED
    BY <1>1, <2>1, <2>2, <2>3, <2>4 DEF MainStep
<1>2. ASSUME CloseDone PROVE Placement'
  BY <1>2 DEF CloseDone, ResultsRead
<1>3. ASSUME NEW w \in Workers, DispatcherStep(w) PROVE Placement'
  BY <1>3 DEF DispatcherStep, Dial, DialCrashed, Recv, BelowZero, Panic, RecvEnds
<1>4. ASSUME NEW w \in Workers, WorkerStep(w) PROVE Placement'
  <2>1. OrchestratorIdle
    BY <1>4 DEF WorkerStep, HandlerStep
  <2>2. CASE ConsumeTagInUse(w)
    BY <2>2, <2>1 DEF ConsumeTagInUse, Goto, Disconnect, OrchestratorIdle
  <2>3. CASE Run(w)
    BY <2>3, <2>1 DEF Run, Goto, OrchestratorIdle
  <2>4. CASE Ack(w)
    BY <2>4, <2>1 DEF Ack, Goto, OrchestratorIdle
  <2>5. CASE DeliveriesClosed(w)
    BY <2>5, <2>1 DEF DeliveriesClosed, Goto, OrchestratorIdle
  <2>6. CASE GetConsumer(w) \/ Consume(w) \/ ConsumeOnClosed(w) \/
           PublishResult(w) \/ Signal(w) \/ ContextDone(w)
    BY <2>6, <2>1
       DEF GetConsumer, Goto, Consume, ConsumeOnClosed, PublishResult, Signal,
           ContextDone, OrchestratorIdle
  <2> QED
    BY <1>4, <2>1, <2>2, <2>3, <2>4, <2>5, <2>6 DEF WorkerStep, HandlerStep
<1>5. ASSUME NEW k \in ResultQueueNames, CollectorStep(k) PROVE Placement'
  BY <1>5
     DEF CollectorStep, Subscribe, MoveCollector, SubscribeOnClosed, NotSubscribed,
         ReadResult, BelowZero, Panic, ResultsIn, AckResult, CollectorExits
<1>6. ASSUME DeliverStep PROVE Placement'
  BY <1>6 DEF DeliverStep, Deliver, OrchestratorIdle
<1>7. ASSUME TaskFault PROVE Placement'
  <2>1. ASSUME NEW c \in Cmds, PublisherFails(c) PROVE Placement'
    BY <2>1 DEF PublisherFails, Settle, Unpublished, Fault
  <2>2. CASE (\E w \in Workers : DialFails(w)) \/
           (\E w \in Workers : StreamBreaks(w)) \/
           (\E k \in ResultQueueNames : SubscribeFails(k)) \/
           (\E k \in ResultQueueNames : CollectorConnLost(k)) \/ OpenConsumerFails
    BY <2>2
       DEF DialFails, Fault, StreamBreaks, SubscribeFails, NotSubscribed,
           MoveCollector, CollectorConnLost, OpenConsumerFails
  <2> QED
    BY <1>7, <2>1, <2>2 DEF TaskFault
<1>8. ASSUME NEW w \in Workers, WorkerFault(w) PROVE Placement'
  <2>1. OrchestratorIdle
    BY <1>8 DEF WorkerFault, HandlerFault
  <2>2. CASE Crash(w)
    BY <2>2, <2>1 DEF Crash, Goto, Fault, Disconnect, OrchestratorIdle
  <2>3. CASE GetConsumerFails(w) \/ PublishResultFails(w)
    BY <2>3, <2>1
       DEF GetConsumerFails, Goto, Fault, PublishResultFails, OrchestratorIdle
  <2> QED
    BY <1>8, <2>1, <2>2, <2>3 DEF WorkerFault, HandlerFault
<1>9. ASSUME NEW w \in Workers, ConnectionFault(w) PROVE Placement'
  BY <1>9 DEF ConnectionFault, ConnectionLost, Fault, Disconnect, OrchestratorIdle
<1>10. ASSUME ArriveStep \/ TransitFault PROVE Placement'
  BY <1>10 DEF ArriveStep, TransitFault, ResultArrives, ResultLost, Fault, OrchestratorIdle
<1>11. CASE UNCHANGED vars
  BY <1>11 DEF vars
<1> QED
  BY <1>1, <1>2, <1>3, <1>4, <1>5, <1>6, <1>7, <1>8, <1>9, <1>10, <1>11 DEF Next

(* No command the broker has accepted is lost, under any of the faults.     *)
THEOREM NothingVanishes == Spec => []NoCommandVanishes
<1>1. Init => Placement
  BY DEF Init, MQInit, WorkerInit, TaskInit, Placement, OnlyQueued, NoCommandVanishes,
         Executed
<1>2. Placement => NoCommandVanishes
  BY DEF Placement
<1> QED
  BY <1>1, <1>2, TypeInit, TypeNext, PlacementNext, PTL DEF Spec

-----------------------------------------------------------------------------
(* Commands are not duplicated.                                             *)

(* A command that was never redelivered is in one place: ready, or held for *)
(* one worker; and once it was run it is neither ready nor waiting to run.  *)
OnePlace ==
  \A c \in Cmds \ redelivered :
    /\ c \in cmdQueue => ~Executed(ran, c) /\ \A w \in Workers : c \notin unacked[w]
    /\ \A v, w \in Workers : c \in unacked[v] /\ c \in unacked[w] => v = w
    /\ \A w \in Workers : c \in delivered[w] => c \in unacked[w] /\ ~Executed(ran, c)

Unique == OnePlace /\ RunAtMostOnce

LEMMA UniqueNext == TypeInv /\ Placement /\ Unique /\ [Next]_vars => Unique'
<1> SUFFICES ASSUME TypeInv, Placement, Unique, [Next]_vars PROVE Unique'
  OBVIOUS
<1> USE DEF TypeInv, BusyHasCommand, TypeOK, MQTypeOK, WorkerTypeOK, TaskTypeOK,
            Busy, Execution, Executed, mqVars, workerVars, transitVars, teVars, publishVars,
            waitVars, collectVars, Placement, OnlyQueued, Unique, OnePlace,
            RunAtMostOnce
<1>1. ASSUME MainStep PROVE Unique'
  <2>1. ASSUME NEW c \in Cmds, Publish(c) PROVE Unique'
    BY <2>1 DEF Publish, Settle, Unpublished
  <2>2. CASE ConsumersReady \/ PublishReturned \/
           (\E c \in Cmds : PublishGivesUp(c)) \/
           (\E c \in Cmds : PublishDropped(c)) \/ AllPublished \/
           CommandsFinished \/ OpenOutputConsumer \/ OpenErrorConsumer \/
           Collected \/ CloseConsumers
    BY <2>2
       DEF ConsumersReady, PublishReturned, Unpublished, PublishGivesUp, Settle,
           PublishDropped, AllPublished, CommandsFinished, FinishedAll, Cancel,
           OpenOutputConsumer, OpenErrorConsumer, Collected, ResultsRead,
           CloseConsumers
  <2> QED
    BY <1>1, <2>1, <2>2 DEF MainStep
<1>2. ASSUME CloseDone PROVE Unique'
  BY <1>2 DEF CloseDone, ResultsRead
<1>3. ASSUME NEW w \in Workers, DispatcherStep(w) PROVE Unique'
  BY <1>3 DEF DispatcherStep, Dial, DialCrashed, Recv, BelowZero, Panic, RecvEnds
<1>4. ASSUME NEW w \in Workers, WorkerStep(w) PROVE Unique'
  <2>1. OrchestratorIdle
    BY <1>4 DEF WorkerStep, HandlerStep
  <2>2. CASE ConsumeTagInUse(w)
    BY <2>2, <2>1 DEF ConsumeTagInUse, Goto, Disconnect, OrchestratorIdle
  <2>3. CASE Run(w)
    BY <2>3, <2>1 DEF Run, Goto, OrchestratorIdle
  <2>4. CASE Ack(w)
    BY <2>4, <2>1 DEF Ack, Goto, OrchestratorIdle
  <2>5. CASE DeliveriesClosed(w)
    BY <2>5, <2>1 DEF DeliveriesClosed, Goto, OrchestratorIdle
  <2>6. CASE GetConsumer(w) \/ Consume(w) \/ ConsumeOnClosed(w) \/
           PublishResult(w) \/ Signal(w) \/ ContextDone(w)
    BY <2>6, <2>1
       DEF GetConsumer, Goto, Consume, ConsumeOnClosed, PublishResult, Signal,
           ContextDone, OrchestratorIdle
  <2> QED
    BY <1>4, <2>1, <2>2, <2>3, <2>4, <2>5, <2>6 DEF WorkerStep, HandlerStep
<1>5. ASSUME NEW k \in ResultQueueNames, CollectorStep(k) PROVE Unique'
  BY <1>5
     DEF CollectorStep, Subscribe, MoveCollector, SubscribeOnClosed, NotSubscribed,
         ReadResult, BelowZero, Panic, ResultsIn, AckResult, CollectorExits
<1>6. ASSUME DeliverStep PROVE Unique'
  BY <1>6 DEF DeliverStep, Deliver, OrchestratorIdle
<1>7. ASSUME TaskFault PROVE Unique'
  BY <1>7
     DEF TaskFault, DialFails, Fault, StreamBreaks, PublisherFails, Settle,
         Unpublished, SubscribeFails, NotSubscribed, MoveCollector,
         CollectorConnLost, OpenConsumerFails
<1>8. ASSUME NEW w \in Workers, WorkerFault(w) PROVE Unique'
  <2>1. OrchestratorIdle
    BY <1>8 DEF WorkerFault, HandlerFault
  <2>2. CASE Crash(w)
    BY <2>2, <2>1 DEF Crash, Goto, Fault, Disconnect, OrchestratorIdle
  <2>3. CASE GetConsumerFails(w) \/ PublishResultFails(w)
    BY <2>3, <2>1
       DEF GetConsumerFails, Goto, Fault, PublishResultFails, OrchestratorIdle
  <2> QED
    BY <1>8, <2>1, <2>2, <2>3 DEF WorkerFault, HandlerFault
<1>9. ASSUME NEW w \in Workers, ConnectionFault(w) PROVE Unique'
  BY <1>9 DEF ConnectionFault, ConnectionLost, Fault, Disconnect, OrchestratorIdle
<1>10. ASSUME ArriveStep \/ TransitFault PROVE Unique'
  BY <1>10 DEF ArriveStep, TransitFault, ResultArrives, ResultLost, Fault, OrchestratorIdle
<1>11. CASE UNCHANGED vars
  BY <1>11 DEF vars
<1> QED
  BY <1>1, <1>2, <1>3, <1>4, <1>5, <1>6, <1>7, <1>8, <1>9, <1>10, <1>11 DEF Next

-----------------------------------------------------------------------------
(* Counting finished commands.                                              *)

CmdsOf(S) == {e.cmd : e \in S}

(* One more execution, of a command not counted yet, of a finite set D of   *)
(* commands: the count grows by one and stays within D.                     *)
LEMMA CountOneMore ==
  ASSUME NEW D, IsFiniteSet(D), NEW S, CmdsOf(S) \subseteq D,
         NEW e, e.cmd \in D, e.cmd \notin CmdsOf(S)
  PROVE  /\ Cardinality(CmdsOf(S)) \in Nat
         /\ Cardinality(D) \in Nat
         /\ Cardinality(CmdsOf(S \cup {e})) = Cardinality(CmdsOf(S)) + 1
         /\ Cardinality(CmdsOf(S \cup {e})) <= Cardinality(D)
<1>1. CmdsOf(S \cup {e}) = CmdsOf(S) \cup {e.cmd}
  BY DEF CmdsOf
<1>2. IsFiniteSet(CmdsOf(S))
  BY FS_Subset
<1>3. Cardinality(CmdsOf(S) \cup {e.cmd}) = Cardinality(CmdsOf(S)) + 1
  BY <1>2, FS_AddElement
<1>4. CmdsOf(S) \cup {e.cmd} \in SUBSET D
  OBVIOUS
<1>5. Cardinality(CmdsOf(S) \cup {e.cmd}) <= Cardinality(D)
  BY <1>4, FS_Subset
<1> QED
  BY <1>1, <1>2, <1>3, <1>5, FS_CardinalityType

(* Counting to the number of commands means having seen every one.          *)
LEMMA CountedAll ==
  ASSUME NEW D, IsFiniteSet(D), NEW S, CmdsOf(S) \subseteq D,
         Cardinality(D) - Cardinality(CmdsOf(S)) = 0
  PROVE  CmdsOf(S) = D
<1>1. Cardinality(D) \in Nat /\ Cardinality(CmdsOf(S)) \in Nat
  BY FS_Subset, FS_CardinalityType
<1> QED
  BY <1>1, FS_Subset

LEMMA CmdsFinite == TypeInv => IsFiniteSet(cmds)
BY FS_Subset, MessageQueueAssumption DEF TypeInv, TypeOK, TaskTypeOK

(* A finished command is signalled once, and heard of once.                 *)
SignalledOnce ==
  /\ signals \cup received \subseteq ran
  /\ \A w \in Workers :
       handler[w] \in {"ran", "published"} /\ current[w].cmd \notin redelivered
         => current[w] \notin signals \cup received
  /\ \A e \in signals : e.cmd \notin redelivered => e \notin received

(* wg is the number of commands not heard of; past wg.Wait, all are.        *)
WgCounts ==
  redelivered = {} =>
    /\ wg = Cardinality(cmds) - Cardinality(CmdsOf(received))
    /\ pc \in AfterWait => CmdsOf(received) = cmds

Waiting == SignalledOnce /\ WgCounts

LEMMA WaitingNext == TypeInv /\ Placement /\ Unique /\ Waiting /\ [Next]_vars
  => Waiting'
<1> SUFFICES ASSUME TypeInv, Placement, Unique, Waiting, [Next]_vars PROVE Waiting'
  OBVIOUS
<1> USE DEF TypeInv, BusyHasCommand, TypeOK, MQTypeOK, WorkerTypeOK, TaskTypeOK,
            Busy, Execution, Executed, mqVars, workerVars, transitVars, teVars, publishVars,
            waitVars, collectVars, Placement, OnlyQueued, Unique, OnePlace,
            RunAtMostOnce, Waiting, SignalledOnce, WgCounts, AfterWait
<1>a. CmdsOf(received) \subseteq cmds /\ \A e \in ran : e.cmd \in cmds
  BY DEF CmdsOf
<1>1. ASSUME MainStep PROVE Waiting'
  <2>1. CASE ConsumersReady
    BY <2>1 DEF ConsumersReady
  <2>2. CASE AllPublished
    BY <2>2 DEF AllPublished, Unpublished
  <2>3. CASE CommandsFinished
    <3>1. redelivered = {} => CmdsOf(received) = cmds
      <4> SUFFICES ASSUME redelivered = {} PROVE CmdsOf(received) = cmds
        OBVIOUS
      <4>1. Cardinality(cmds) - Cardinality(CmdsOf(received)) = 0
        BY <2>3 DEF CommandsFinished, FinishedAll, Cancel
      <4> QED
        BY <4>1, <1>a, CmdsFinite, CountedAll
    <3> QED
      BY <2>3, <3>1 DEF CommandsFinished, FinishedAll, Cancel
  <2>4. CASE OpenOutputConsumer
    BY <2>4 DEF OpenOutputConsumer
  <2>5. CASE OpenErrorConsumer
    BY <2>5 DEF OpenErrorConsumer
  <2>6. CASE Collected
    BY <2>6 DEF Collected, ResultsRead
  <2>7. CASE CloseConsumers
    BY <2>7 DEF CloseConsumers
  <2>8. CASE (\E c \in Cmds : Publish(c)) \/ PublishReturned \/
           (\E c \in Cmds : PublishGivesUp(c)) \/
           (\E c \in Cmds : PublishDropped(c))
    BY <2>8
       DEF Publish, Settle, Unpublished, PublishReturned, PublishGivesUp,
           PublishDropped
  <2> QED
    BY <1>1, <2>1, <2>2, <2>3, <2>4, <2>5, <2>6, <2>7, <2>8 DEF MainStep
<1>2. ASSUME CloseDone PROVE Waiting'
  BY <1>2 DEF CloseDone, ResultsRead
<1>3. ASSUME NEW w \in Workers, DispatcherStep(w) PROVE Waiting'
  <2>1. CASE Dial(w)
    BY <2>1 DEF Dial
  <2>2. CASE Recv(w)
    <3> PICK e \in signals :
           /\ signals' = signals \ {e}
           /\ received' = received \cup {e}
      BY <2>2 DEF Recv
    <3>1. SignalledOnce'
      BY <2>2 DEF Recv, BelowZero, Panic
    <3>2. ASSUME redelivered = {}
          PROVE  /\ wg' = Cardinality(cmds) - Cardinality(CmdsOf(received'))
                 /\ pc' = pc
      <4>1. e.cmd \in cmds /\ e.cmd \notin CmdsOf(received)
        BY <3>2, <1>a DEF CmdsOf
      <4>2. Cardinality(CmdsOf(received')) = Cardinality(CmdsOf(received)) + 1
            /\ Cardinality(CmdsOf(received')) <= Cardinality(cmds)
            /\ Cardinality(CmdsOf(received)) \in Nat /\ Cardinality(cmds) \in Nat
        BY <4>1, <1>a, CmdsFinite, CountOneMore
      <4>3. wg = Cardinality(cmds) - Cardinality(CmdsOf(received))
        BY <3>2
      <4>4. wg # 0
        BY <4>2, <4>3
      <4> QED
        BY <2>2, <4>2, <4>3, <4>4 DEF Recv, BelowZero, Panic
    <3>3. (redelivered' = {} /\ pc' \in AfterWait) => CmdsOf(received') = cmds'
      <4> SUFFICES ASSUME redelivered' = {}, pc' \in AfterWait
                   PROVE  CmdsOf(received') = cmds'
        OBVIOUS
      <4>1. redelivered = {} /\ cmds' = cmds
        BY <2>2 DEF Recv, BelowZero, Panic
      <4>2. CmdsOf(received) = cmds /\ e.cmd \in cmds
        BY <4>1, <3>2, <1>a
      <4> QED
        BY <4>1, <4>2 DEF CmdsOf
    <3> QED
      BY <2>2, <3>1, <3>2, <3>3 DEF Recv, BelowZero, Panic
  <2>3. CASE RecvEnds(w)
    BY <2>3 DEF RecvEnds
  <2>4. CASE DialCrashed(w)
    BY <2>4 DEF DialCrashed
  <2> QED
    BY <1>3, <2>1, <2>2, <2>3, <2>4 DEF DispatcherStep
<1>4. ASSUME NEW w \in Workers, WorkerStep(w) PROVE Waiting'
  <2>1. OrchestratorIdle
    BY <1>4 DEF WorkerStep, HandlerStep
  <2>2. CASE GetConsumer(w)
    BY <2>2, <2>1 DEF GetConsumer, Goto, OrchestratorIdle
  <2>3. CASE Consume(w)
    BY <2>3, <2>1 DEF Consume, Goto, OrchestratorIdle
  <2>4. CASE ConsumeOnClosed(w)
    BY <2>4, <2>1 DEF ConsumeOnClosed, Goto, OrchestratorIdle
  <2>5. CASE ConsumeTagInUse(w)
    BY <2>5, <2>1 DEF ConsumeTagInUse, Goto, Disconnect, OrchestratorIdle
  <2>6. CASE Run(w)
    BY <2>6, <2>1 DEF Run, Goto, OrchestratorIdle
  <2>7. CASE PublishResult(w)
    BY <2>7, <2>1 DEF PublishResult, Goto, OrchestratorIdle
  <2>8. CASE Signal(w)
    BY <2>8, <2>1 DEF Signal, Goto, OrchestratorIdle
  <2>9. CASE Ack(w)
    BY <2>9, <2>1 DEF Ack, Goto, OrchestratorIdle
  <2>10. CASE ContextDone(w)
    BY <2>10, <2>1 DEF ContextDone, Goto, OrchestratorIdle
  <2>11. CASE DeliveriesClosed(w)
    BY <2>11, <2>1 DEF DeliveriesClosed, Goto, OrchestratorIdle
  <2> QED
    BY <1>4, <2>1, <2>2, <2>3, <2>4, <2>5, <2>6, <2>7, <2>8, <2>9, <2>10, <2>11
       DEF WorkerStep, HandlerStep
<1>5. ASSUME NEW k \in ResultQueueNames, CollectorStep(k) PROVE Waiting'
  <2>1. CASE ReadResult(k)
    BY <2>1 DEF ReadResult, BelowZero, Panic, MoveCollector, ResultsIn
  <2>2. CASE Subscribe(k) \/ SubscribeOnClosed(k) \/ AckResult(k) \/
           CollectorExits(k)
    BY <2>2
       DEF Subscribe, MoveCollector, SubscribeOnClosed, NotSubscribed, AckResult,
           ResultsIn, CollectorExits
  <2> QED
    BY <1>5, <2>1, <2>2 DEF CollectorStep
<1>6. ASSUME DeliverStep PROVE Waiting'
  BY <1>6 DEF DeliverStep, Deliver, OrchestratorIdle
<1>7. ASSUME TaskFault PROVE Waiting'
  <2>1. ASSUME NEW w \in Workers, StreamBreaks(w) PROVE Waiting'
    BY <2>1 DEF StreamBreaks, Fault
  <2>2. CASE OpenConsumerFails
    BY <2>2 DEF OpenConsumerFails, Fault
  <2>3. CASE (\E w \in Workers : DialFails(w)) \/
           (\E c \in Cmds : PublisherFails(c)) \/
           (\E k \in ResultQueueNames : SubscribeFails(k)) \/
           (\E k \in ResultQueueNames : CollectorConnLost(k))
    BY <2>3
       DEF DialFails, Fault, PublisherFails, Settle, Unpublished, SubscribeFails,
           NotSubscribed, MoveCollector, CollectorConnLost
  <2> QED
    BY <1>7, <2>1, <2>2, <2>3 DEF TaskFault
<1>8. ASSUME NEW w \in Workers, WorkerFault(w) PROVE Waiting'
  <2>1. OrchestratorIdle
    BY <1>8 DEF WorkerFault, HandlerFault
  <2>2. CASE GetConsumerFails(w)
    BY <2>2, <2>1 DEF GetConsumerFails, Goto, Fault, OrchestratorIdle
  <2>3. CASE PublishResultFails(w)
    BY <2>3, <2>1 DEF PublishResultFails, Goto, Fault, OrchestratorIdle
  <2>4. CASE Crash(w)
    BY <2>4, <2>1 DEF Crash, Goto, Fault, Disconnect, OrchestratorIdle
  <2> QED
    BY <1>8, <2>1, <2>2, <2>3, <2>4 DEF WorkerFault, HandlerFault
<1>9. ASSUME NEW w \in Workers, ConnectionFault(w) PROVE Waiting'
  BY <1>9 DEF ConnectionFault, ConnectionLost, Fault, Disconnect, OrchestratorIdle
<1>10. ASSUME ArriveStep \/ TransitFault PROVE Waiting'
  BY <1>10 DEF ArriveStep, TransitFault, ResultArrives, ResultLost, Fault, OrchestratorIdle
<1>11. CASE UNCHANGED vars
  BY <1>11 DEF vars
<1> QED
  BY <1>1, <1>2, <1>3, <1>4, <1>5, <1>6, <1>7, <1>8, <1>9, <1>10, <1>11 DEF Next

-----------------------------------------------------------------------------
(* Counting results.                                                        *)

BeforeCollect == {"ready", "publish", "wait", "openOut", "openErr"}

Collecting == \E k \in ResultQueueNames : collector[k] # "none"

(* The collectors start once, and until the task is collected nothing is    *)
(* returned.                                                                *)
CollectOnce ==
  /\ pc \in BeforeCollect => ~Collecting /\ ret = "none"
  /\ pc = "collect" => Collecting /\ ret = "none"
  /\ pc = "closing" => Collecting /\ ret = "nil"
  /\ pc = "done" => Collecting = (ret = "nil")
  /\ ret = "none" => state = "RunningTask" /\ outputs = {}
  /\ ~Collecting => read = {}
  /\ inTransit \cup resultQueues \cup read \subseteq ran

(* cmdResWg is the number of results not read.                              *)
ResultsCount ==
  redelivered = {} /\ Collecting =>
    cmdRes = Cardinality(cmds) - Cardinality(CmdsOf(read))

(* Past cmdResWg.Wait every command has a result read, and the report is    *)
(* made of what was read.                                                   *)
Reported ==
  redelivered = {} /\ pc \in {"closing", "done"} /\ ret = "nil" =>
    /\ CmdsOf(read) = cmds
    /\ collectErr = {} =>
         /\ outputs = read
         /\ state = "CompleteTaskWithErrors" <=> \E e \in read : e.queue = "error"

resultsVars == <<pc, collector, ret, state, read, inTransit, resultQueues, ran,
                 redelivered, cmdRes, cmds, outputs, collectErr>>

Results == CollectOnce /\ ResultsCount /\ Reported /\ NeverPanics

LEMMA ResultsNext == TypeInv /\ Placement /\ Unique /\ Waiting /\ Results /\
  [Next]_vars => Results'
<1> SUFFICES ASSUME TypeInv, Placement, Unique, Waiting, Results, [Next]_vars
             PROVE  Results'
  OBVIOUS
<1> USE DEF TypeInv, BusyHasCommand, TypeOK, MQTypeOK, WorkerTypeOK, TaskTypeOK,
            Busy, Execution, Executed, mqVars, workerVars, transitVars, teVars, publishVars,
            waitVars, collectVars, Placement, OnlyQueued, Unique, OnePlace,
            RunAtMostOnce, Results, CollectOnce, ResultsCount, Reported,
            NeverPanics, BeforeCollect, Collecting, ResultQueueNames
<1>a. CmdsOf(read) \subseteq cmds /\ \A e \in ran : e.cmd \in cmds
  BY DEF CmdsOf
<1>1. ASSUME MainStep PROVE Results'
  <2>1. CASE ConsumersReady
    BY <2>1 DEF ConsumersReady
  <2>2. CASE AllPublished
    BY <2>2 DEF AllPublished, Unpublished
  <2>3. CASE CommandsFinished
    BY <2>3 DEF CommandsFinished, FinishedAll, Cancel
  <2>4. CASE OpenOutputConsumer
    BY <2>4 DEF OpenOutputConsumer
  <2>5. CASE OpenErrorConsumer
    <3>1. read = {} /\ CmdsOf(read) = {}
      BY <2>5 DEF OpenErrorConsumer, CmdsOf
    <3>2. Cardinality(cmds) \in Nat /\ Cardinality(CmdsOf(read)) = 0
      BY <3>1, CmdsFinite, FS_CardinalityType, FS_EmptySet
    <3> QED
      BY <2>5, <3>1, <3>2 DEF OpenErrorConsumer
  <2>6. CASE Collected
    <3>1. ASSUME redelivered = {} PROVE CmdsOf(read) = cmds
      <4>1. Cardinality(cmds) - Cardinality(CmdsOf(read)) = 0
        BY <2>6, <3>1 DEF Collected, ResultsRead
      <4> QED
        BY <4>1, <1>a, CmdsFinite, CountedAll
    <3> QED
      BY <2>6, <3>1 DEF Collected, ResultsRead
  <2>7. CASE CloseConsumers
    BY <2>7 DEF CloseConsumers
  <2>8. CASE (\E c \in Cmds : Publish(c)) \/ PublishReturned \/
           (\E c \in Cmds : PublishGivesUp(c)) \/
           (\E c \in Cmds : PublishDropped(c))
    <3>1. UNCHANGED resultsVars
      BY <2>8
         DEF Publish, Settle, Unpublished, PublishReturned, PublishGivesUp,
             PublishDropped, resultsVars
    <3> QED
      BY <3>1 DEF resultsVars
  <2> QED
    BY <1>1, <2>1, <2>2, <2>3, <2>4, <2>5, <2>6, <2>7, <2>8 DEF MainStep
<1>2. ASSUME CloseDone PROVE Results'
  BY <1>2 DEF CloseDone, ResultsRead
<1>3. ASSUME NEW w \in Workers, DispatcherStep(w) PROVE Results'
  <2>1. CASE Recv(w)
    <3> PICK e \in signals :
           /\ signals' = signals \ {e}
           /\ received' = received \cup {e}
      BY <2>1 DEF Recv
    <3>1. ASSUME redelivered = {} PROVE wg # 0
      <4>1. /\ e.cmd \in cmds
            /\ e.cmd \notin CmdsOf(received)
            /\ CmdsOf(received) \subseteq cmds
        BY <3>1, <1>a DEF CmdsOf, Waiting, SignalledOnce
      <4>2. /\ Cardinality(CmdsOf(received)) \in Nat
            /\ Cardinality(cmds) \in Nat
            /\ Cardinality(CmdsOf(received \cup {e})) = Cardinality(CmdsOf(received)) + 1
            /\ Cardinality(CmdsOf(received \cup {e})) <= Cardinality(cmds)
        BY <4>1, CmdsFinite, CountOneMore
      <4>3. Cardinality(CmdsOf(received)) # Cardinality(cmds)
        BY <4>2
      <4> QED
        BY <3>1, <4>2, <4>3 DEF Waiting, WgCounts
    <3> QED
      BY <2>1, <3>1 DEF Recv, BelowZero, Panic
  <2>2. CASE Dial(w) \/ DialCrashed(w) \/ RecvEnds(w)
    <3>1. UNCHANGED resultsVars
      BY <2>2 DEF Dial, DialCrashed, RecvEnds, resultsVars
    <3> QED
      BY <3>1 DEF resultsVars
  <2> QED
    BY <1>3, <2>1, <2>2 DEF DispatcherStep
<1>4. ASSUME NEW w \in Workers, WorkerStep(w) PROVE Results'
  <2>1. OrchestratorIdle
    BY <1>4 DEF WorkerStep, HandlerStep
  <2>2. CASE ConsumeTagInUse(w)
    BY <2>2, <2>1 DEF ConsumeTagInUse, Goto, Disconnect, OrchestratorIdle
  <2>3. CASE Run(w)
    BY <2>3, <2>1 DEF Run, Goto, OrchestratorIdle
  <2>4. CASE PublishResult(w)
    <3>1. inTransit' \cup resultQueues' \cup read' \subseteq ran'
      BY <2>4, <2>1 DEF PublishResult, Goto, OrchestratorIdle
    <3> QED
      BY <2>4, <2>1, <3>1 DEF PublishResult, Goto, OrchestratorIdle
  <2>5. CASE GetConsumer(w) \/ Consume(w) \/ ConsumeOnClosed(w) \/ Signal(w) \/
           Ack(w) \/ ContextDone(w) \/ DeliveriesClosed(w)
    <3>1. UNCHANGED resultsVars
      BY <2>5, <2>1
         DEF GetConsumer, Goto, Consume, ConsumeOnClosed, Signal, Ack, ContextDone,
             DeliveriesClosed, OrchestratorIdle, resultsVars
    <3> QED
      BY <3>1 DEF resultsVars
  <2> QED
    BY <1>4, <2>1, <2>2, <2>3, <2>4, <2>5 DEF WorkerStep, HandlerStep
<1>5. ASSUME NEW k \in ResultQueueNames, CollectorStep(k) PROVE Results'
  <2>1. CASE Subscribe(k)
    BY <2>1 DEF Subscribe, MoveCollector
  <2>2. CASE SubscribeOnClosed(k)
    BY <2>2 DEF SubscribeOnClosed, NotSubscribed, MoveCollector
  <2>3. CASE ReadResult(k)
    <3> PICK e \in ResultsIn(k) \ read : read' = read \cup {e}
      BY <2>3 DEF ReadResult
    <3>1. Collecting /\ e \in ran
      BY <2>3 DEF ReadResult, BelowZero, Panic, MoveCollector, ResultsIn
    <3>2. ASSUME redelivered = {}
          PROVE  /\ cmdRes' = Cardinality(cmds) - Cardinality(CmdsOf(read'))
                 /\ pc' = pc
                 /\ CmdsOf(read) # cmds
      <4>1. e.cmd \in cmds /\ e.cmd \notin CmdsOf(read)
        BY <3>1, <3>2, <1>a DEF CmdsOf
      <4>2. /\ Cardinality(CmdsOf(read)) \in Nat
            /\ Cardinality(cmds) \in Nat
            /\ Cardinality(CmdsOf(read \cup {e})) = Cardinality(CmdsOf(read)) + 1
            /\ Cardinality(CmdsOf(read \cup {e})) <= Cardinality(cmds)
        BY <4>1, <1>a, CmdsFinite, CountOneMore
      <4>3. cmdRes = Cardinality(cmds) - Cardinality(CmdsOf(read))
        BY <3>1, <3>2
      <4>4. cmdRes # 0
        BY <4>2, <4>3
      <4> QED
        BY <2>3, <4>1, <4>2, <4>3, <4>4
           DEF ReadResult, BelowZero, Panic, MoveCollector, ResultsIn
    <3>3. Collecting' /\ UNCHANGED <<ret, state, outputs, inTransit, resultQueues, ran>>
      BY <2>3 DEF ReadResult, BelowZero, Panic, MoveCollector
    <3>4. pc' \in {pc, "panic"}
      BY <2>3 DEF ReadResult, BelowZero, Panic
    <3>5. CollectOnce'
      <4> HIDE DEF TypeInv, Placement, Unique, Waiting, ResultsCount, Reported,
                   NeverPanics, Collecting
      <4> QED
        BY <3>1, <3>3, <3>4
    <3> QED
      BY <2>3, <3>1, <3>2, <3>5
         DEF ReadResult, BelowZero, Panic, MoveCollector, ResultsIn
  <2>4. CASE AckResult(k)
    BY <2>4 DEF AckResult, MoveCollector, ResultsIn
  <2>5. CASE CollectorExits(k)
    BY <2>5 DEF CollectorExits, MoveCollector
  <2> QED
    BY <1>5, <2>1, <2>2, <2>3, <2>4, <2>5 DEF CollectorStep
<1>6. ASSUME DeliverStep PROVE Results'
  BY <1>6 DEF DeliverStep, Deliver, OrchestratorIdle
<1>7. ASSUME TaskFault PROVE Results'
  <2>1. ASSUME NEW k \in ResultQueueNames, SubscribeFails(k) PROVE Results'
    BY <2>1 DEF SubscribeFails, NotSubscribed, MoveCollector, Fault
  <2>2. ASSUME NEW k \in ResultQueueNames, CollectorConnLost(k) PROVE Results'
    BY <2>2 DEF CollectorConnLost, MoveCollector, Fault
  <2>3. CASE OpenConsumerFails
    BY <2>3 DEF OpenConsumerFails, Fault
  <2>4. CASE (\E w \in Workers : DialFails(w)) \/
           (\E w \in Workers : StreamBreaks(w)) \/
           (\E c \in Cmds : PublisherFails(c))
    <3>1. UNCHANGED resultsVars
      BY <2>4
         DEF DialFails, Fault, StreamBreaks, PublisherFails, Settle, Unpublished,
             resultsVars
    <3> QED
      BY <3>1 DEF resultsVars
  <2> QED
    BY <1>7, <2>1, <2>2, <2>3, <2>4 DEF TaskFault
<1>8. ASSUME NEW w \in Workers, WorkerFault(w) PROVE Results'
  <2>1. OrchestratorIdle
    BY <1>8 DEF WorkerFault, HandlerFault
  <2>2. CASE Crash(w)
    BY <2>2, <2>1 DEF Crash, Goto, Fault, Disconnect, OrchestratorIdle
  <2>3. CASE GetConsumerFails(w) \/ PublishResultFails(w)
    <3>1. UNCHANGED resultsVars
      BY <2>3, <2>1
         DEF GetConsumerFails, Goto, Fault, PublishResultFails, OrchestratorIdle,
             resultsVars
    <3> QED
      BY <3>1 DEF resultsVars
  <2> QED
    BY <1>8, <2>1, <2>2, <2>3 DEF WorkerFault, HandlerFault
<1>9. ASSUME NEW w \in Workers, ConnectionFault(w) PROVE Results'
  BY <1>9 DEF ConnectionFault, ConnectionLost, Fault, Disconnect, OrchestratorIdle
<1>10. ASSUME ArriveStep \/ TransitFault PROVE Results'
  <2>1. OrchestratorIdle
    BY <1>10 DEF ArriveStep, TransitFault
  <2>2. ASSUME NEW e \in Execution, ResultArrives(e) PROVE Results'
    <3>1. inTransit' \cup resultQueues' \cup read' \subseteq ran'
      BY <2>1, <2>2 DEF ResultArrives, OrchestratorIdle
    <3> QED
      BY <2>1, <2>2, <3>1 DEF ResultArrives, OrchestratorIdle
  <2>3. ASSUME NEW e \in Execution, ResultLost(e) PROVE Results'
    BY <2>1, <2>3 DEF ResultLost, Fault, OrchestratorIdle
  <2> QED
    BY <1>10, <2>2, <2>3 DEF ArriveStep, TransitFault
<1>11. CASE UNCHANGED vars
  BY <1>11 DEF vars
<1> QED
  BY <1>1, <1>2, <1>3, <1>4, <1>5, <1>6, <1>7, <1>8, <1>9, <1>10, <1>11 DEF Next

-----------------------------------------------------------------------------
(* The theorems that rest on IInv.                                          *)

IInv == TypeInv /\ Placement /\ Unique /\ Waiting /\ Results

LEMMA IInvInit == Init => IInv
<1> SUFFICES ASSUME Init PROVE IInv
  OBVIOUS
<1> USE DEF Init, MQInit, WorkerInit, TaskInit
<1>1. Placement
  BY DEF Placement, OnlyQueued, NoCommandVanishes, Executed
<1>2. Unique
  BY DEF Unique, OnePlace, RunAtMostOnce, Executed
<1>3. CmdsOf(received) = {} /\ Cardinality(CmdsOf(received)) = 0
  BY FS_EmptySet DEF CmdsOf
<1>4. Cardinality(cmds) \in Nat
  BY TypeInit, CmdsFinite, FS_CardinalityType
<1>5. Waiting
  BY <1>3, <1>4 DEF Waiting, SignalledOnce, WgCounts, AfterWait
<1>6. Results
  BY DEF Results, CollectOnce, ResultsCount, Reported, NeverPanics, BeforeCollect,
         Collecting
<1> QED
  BY TypeInit, <1>1, <1>2, <1>5, <1>6 DEF IInv

LEMMA IInvNext == IInv /\ [Next]_vars => IInv'
BY TypeNext, PlacementNext, UniqueNext, WaitingNext, ResultsNext DEF IInv

LEMMA IInvAlways == Spec => []IInv
BY IInvInit, IInvNext, PTL DEF Spec

(* Only a redelivered command can run twice.                                *)
THEOREM AtMostOnce == Spec => []RunAtMostOnce
<1>1. IInv => RunAtMostOnce
  BY DEF IInv, Unique
<1> QED
  BY <1>1, IInvAlways, PTL

(* Without redelivery no WaitGroup goes below zero.                         *)
THEOREM NoPanic == Spec => []NeverPanics
<1>1. IInv => NeverPanics
  BY DEF IInv, Results
<1> QED
  BY <1>1, IInvAlways, PTL

LEMMA FullReport == IInv => CompleteReport
<1>1. ASSUME IInv PROVE CompleteReport
  <2> SUFFICES ASSUME pc \in {"closing", "done"}, ret = "nil", collectErr = {},
                      redelivered = {}
               PROVE  /\ outputs = ran
                      /\ \A c \in cmds : Executed(ran, c)
                      /\ state = "CompleteTaskWithErrors"
                           <=> \E e \in ran : e.queue = "error"
    BY DEF CompleteReport
  <2>1. /\ CmdsOf(read) = cmds
        /\ outputs = read
        /\ state = "CompleteTaskWithErrors" <=> \E e \in read : e.queue = "error"
        /\ read \subseteq ran
    BY <1>1 DEF IInv, Results, Reported, CollectOnce
  <2>2. \A e \in ran : e.cmd \in cmds /\ \A f \in ran : e.cmd = f.cmd => e = f
    BY <1>1 DEF IInv, Placement, OnlyQueued, Unique, RunAtMostOnce, Executed, TypeInv,
                TypeOK, WorkerTypeOK, Execution
  <2>3. ran \subseteq read
    BY <2>1, <2>2 DEF CmdsOf
  <2>4. \A c \in cmds : Executed(ran, c)
    BY <2>1 DEF CmdsOf, Executed
  <2> QED
    BY <2>1, <2>3, <2>4
<1> QED
  BY <1>1

(* Without redelivery, what is returned with nil and no collector error is  *)
(* the full and exact report of the task.                                   *)
THEOREM ReportIsComplete == Spec => []CompleteReport
BY FullReport, IInvAlways, PTL

LEMMA OnlyRunRuns == [Next]_vars /\ ran' # ran => \E w \in Workers : Run(w)
<1> SUFFICES ASSUME [Next]_vars, ran' # ran, \A w \in Workers : ~Run(w)
             PROVE  FALSE
  OBVIOUS
<1> USE DEF workerVars
<1>1. ASSUME MainStep \/ CloseDone PROVE FALSE
  BY <1>1
     DEF MainStep, ConsumersReady, Publish, Settle, Unpublished, PublishReturned,
         PublishGivesUp, PublishDropped, AllPublished, CommandsFinished,
         FinishedAll, Cancel, OpenOutputConsumer, OpenErrorConsumer, Collected,
         ResultsRead, CloseConsumers, CloseDone
<1>2. ASSUME NEW w \in Workers, DispatcherStep(w) PROVE FALSE
  BY <1>2 DEF DispatcherStep, Dial, DialCrashed, Recv, RecvEnds
<1>3. ASSUME NEW w \in Workers, WorkerStep(w) PROVE FALSE
  BY <1>3 DEF WorkerStep, HandlerStep, GetConsumer, Consume, ConsumeOnClosed,
              ConsumeTagInUse, PublishResult, Signal, Ack, ContextDone, DeliveriesClosed
<1>4. ASSUME NEW k \in ResultQueueNames, CollectorStep(k) PROVE FALSE
  BY <1>4 DEF CollectorStep, Subscribe, SubscribeOnClosed, ReadResult, AckResult,
              CollectorExits
<1>5. ASSUME TaskFault \/ DeliverStep \/ ArriveStep \/ TransitFault PROVE FALSE
  BY <1>5 DEF TaskFault, DeliverStep, DialFails, StreamBreaks, PublisherFails,
              SubscribeFails, CollectorConnLost, OpenConsumerFails, ArriveStep,
              TransitFault, ResultArrives, ResultLost
<1>6. ASSUME NEW w \in Workers, WorkerFault(w) \/ ConnectionFault(w) PROVE FALSE
  BY <1>6 DEF WorkerFault, HandlerFault, ConnectionFault, GetConsumerFails,
              PublishResultFails, Crash
<1> QED
  BY <1>1, <1>2, <1>3, <1>4, <1>5, <1>6 DEF Next, vars

LEMMA NoLateRun == IInv /\ [Next]_vars /\ pc \in AfterWait /\ redelivered = {}
  => ran' = ran
<1>1. ASSUME IInv, [Next]_vars, pc \in AfterWait, redelivered = {}
      PROVE  ran' = ran
  <2> SUFFICES ASSUME ran' # ran PROVE FALSE
    OBVIOUS
  <2>1. PICK w \in Workers : Run(w)
    BY <1>1, OnlyRunRuns
  <2>2. PICK c \in delivered[w] : TRUE
    BY <2>1 DEF Run
  <2>3. c \in Cmds
    BY <1>1 DEF IInv, TypeInv, TypeOK, MQTypeOK
  <2>4. c \in cmds /\ ~Executed(ran, c)
    BY <1>1, <2>3 DEF IInv, Placement, OnlyQueued, Unique, OnePlace
  <2>5. CmdsOf(received) = cmds /\ received \subseteq ran
    BY <1>1 DEF IInv, Waiting, WgCounts, SignalledOnce
  <2> QED
    BY <2>4, <2>5 DEF CmdsOf, Executed
<1> QED
  BY <1>1

(* Without redelivery nothing runs any more once wg.Wait has returned.      *)
THEOREM QuietAfterWait == Spec => NoCommandRunsAfterWait
<1>1. IInv /\ [Next]_vars => [(pc \in AfterWait /\ redelivered = {}) => (ran' = ran)]_vars
  BY NoLateRun
<1> QED
  BY <1>1, IInvAlways, PTL DEF Spec, NoCommandRunsAfterWait

-----------------------------------------------------------------------------
(* Results come before signals, and are not lost but by a fault.            *)

(* NoResultVanishes, with what a handler published and has still to signal. *)
Kept ==
  /\ signals \cup received \subseteq Accounted
  /\ \A e \in ran :
       e \in Accounted \/ \E w \in Workers : handler[w] = "ran" /\ current[w] = e
  /\ \A w \in Workers : handler[w] = "published" => current[w] \in Accounted

keptVars == <<inTransit, lost, resultQueues, read, signals, received, ran, handler, current>>

LEMMA KeptStutters == Kept /\ UNCHANGED keptVars => Kept'
BY DEF Kept, Accounted, keptVars

LEMMA KeptNext == TypeInv /\ Kept /\ [Next]_vars => Kept'
<1> SUFFICES ASSUME TypeInv, Kept, [Next]_vars PROVE Kept'
  OBVIOUS
<1> USE DEF mqVars, workerVars, transitVars, teVars, publishVars, waitVars, collectVars
<1>t. /\ handler \in [Workers -> HandlerStates]
      /\ current \in [Workers -> Execution \cup {NoExec}]
  BY DEF TypeInv, TypeOK, WorkerTypeOK
<1>1. ASSUME MainStep \/ CloseDone \/ DeliverStep PROVE Kept'
  <2>1. UNCHANGED keptVars
    BY <1>1
       DEF MainStep, ConsumersReady, Publish, Settle, Unpublished, PublishReturned,
           PublishGivesUp, PublishDropped, AllPublished, CommandsFinished,
           FinishedAll, Cancel, OpenOutputConsumer, OpenErrorConsumer, Collected,
           ResultsRead, CloseConsumers, CloseDone, DeliverStep, Deliver,
           OrchestratorIdle, keptVars
  <2> QED
    BY <2>1, KeptStutters
<1>2. ASSUME NEW w \in Workers, DispatcherStep(w) PROVE Kept'
  <2>1. CASE Dial(w)
    BY <2>1, <1>t DEF Dial, Kept, Accounted
  <2>2. CASE DialCrashed(w)
    BY <2>2 DEF DialCrashed, Kept, Accounted
  <2>3. CASE Recv(w)
    BY <2>3 DEF Recv, Kept, Accounted
  <2>4. CASE RecvEnds(w)
    BY <2>4 DEF RecvEnds, Kept, Accounted
  <2> QED
    BY <1>2, <2>1, <2>2, <2>3, <2>4 DEF DispatcherStep
<1>3. ASSUME NEW w \in Workers, WorkerStep(w) PROVE Kept'
  <2>1. UNCHANGED <<read, received>>
    BY <1>3 DEF WorkerStep, OrchestratorIdle
  <2>2. CASE GetConsumer(w) \/ Consume(w) \/ ConsumeOnClosed(w) \/ ConsumeTagInUse(w) \/
           ContextDone(w) \/ DeliveriesClosed(w)
    BY <2>1, <2>2, <1>t
       DEF GetConsumer, Consume, ConsumeOnClosed, ConsumeTagInUse, ContextDone,
           DeliveriesClosed, Goto, Kept, Accounted
  <2>3. CASE Run(w)
    BY <2>1, <2>3, <1>t DEF Run, Goto, Kept, Accounted
  <2>4. CASE PublishResult(w)
    BY <2>1, <2>4, <1>t DEF PublishResult, Goto, Kept, Accounted
  <2>5. CASE Signal(w)
    BY <2>1, <2>5, <1>t DEF Signal, Goto, Kept, Accounted
  <2>6. CASE Ack(w)
    BY <2>1, <2>6, <1>t DEF Ack, Goto, Kept, Accounted
  <2> QED
    BY <1>3, <2>2, <2>3, <2>4, <2>5, <2>6 DEF WorkerStep, HandlerStep
<1>4. ASSUME NEW k \in ResultQueueNames, CollectorStep(k) PROVE Kept'
  <2>1. CASE ReadResult(k)
    BY <2>1 DEF ReadResult, Kept, Accounted
  <2>2. CASE AckResult(k)
    BY <2>2 DEF AckResult, Kept, Accounted
  <2>3. CASE Subscribe(k) \/ SubscribeOnClosed(k) \/ CollectorExits(k)
    BY <2>3, KeptStutters DEF Subscribe, SubscribeOnClosed, CollectorExits, keptVars
  <2> QED
    BY <1>4, <2>1, <2>2, <2>3 DEF CollectorStep
<1>5. ASSUME TaskFault PROVE Kept'
  <2>1. ASSUME NEW w \in Workers, StreamBreaks(w) PROVE Kept'
    BY <2>1 DEF StreamBreaks, Kept, Accounted
  <2>2. CASE (\E w \in Workers : DialFails(w)) \/
           (\E c \in Cmds : PublisherFails(c)) \/
           (\E k \in ResultQueueNames : SubscribeFails(k)) \/
           (\E k \in ResultQueueNames : CollectorConnLost(k)) \/ OpenConsumerFails
    BY <2>2, KeptStutters
       DEF DialFails, PublisherFails, Settle, Unpublished, SubscribeFails,
           NotSubscribed, MoveCollector, CollectorConnLost, OpenConsumerFails, keptVars
  <2> QED
    BY <1>5, <2>1, <2>2 DEF TaskFault
<1>6. ASSUME NEW w \in Workers, WorkerFault(w) PROVE Kept'
  <2>1. UNCHANGED <<read, received>>
    BY <1>6 DEF WorkerFault, OrchestratorIdle
  <2>2. CASE GetConsumerFails(w)
    BY <2>1, <2>2, <1>t DEF GetConsumerFails, Goto, Kept, Accounted
  <2>3. CASE PublishResultFails(w)
    BY <2>1, <2>3, <1>t DEF PublishResultFails, Goto, Kept, Accounted
  <2>4. CASE Crash(w)
    BY <2>1, <2>4, <1>t DEF Crash, Goto, Kept, Accounted
  <2> QED
    BY <1>6, <2>2, <2>3, <2>4 DEF WorkerFault, HandlerFault
<1>7. ASSUME NEW w \in Workers, ConnectionFault(w) PROVE Kept'
  BY <1>7, KeptStutters DEF ConnectionFault, ConnectionLost, OrchestratorIdle, keptVars
<1>8. ASSUME ArriveStep \/ TransitFault PROVE Kept'
  BY <1>8 DEF ArriveStep, TransitFault, ResultArrives, ResultLost, OrchestratorIdle,
              Kept, Accounted
<1>9. CASE UNCHANGED vars
  BY <1>9, KeptStutters DEF vars, keptVars
<1> QED
  BY <1>1, <1>2, <1>3, <1>4, <1>5, <1>6, <1>7, <1>8, <1>9 DEF Next

(* A command is reported finished only after its result was sent, and only  *)
(* a fault destroys the result of a command that was run.                   *)
THEOREM ResultsAreKept == Spec => []NoResultVanishes
<1>1. Init => Kept
  BY DEF Init, WorkerInit, TaskInit, Kept
<1>2. Kept => NoResultVanishes
  BY DEF Kept, NoResultVanishes, HeldByHandler
<1> QED
  BY <1>1, <1>2, TypeInit, TypeNext, KeptNext, PTL DEF Spec
=============================================================================
