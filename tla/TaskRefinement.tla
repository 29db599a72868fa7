--------------------------- MODULE TaskRefinement ---------------------------
(***************************************************************************)
(* RunTaskOnAllMachines implements TaskContract, for every set of workers  *)
(* and commands and under every fault.  IInv of TaskProofs says enough of  *)
(* a reachable state; what is left is one step of the contract, or none,   *)
(* for each action.                                                        *)
(***************************************************************************)
EXTENDS TaskProofs

Accepted == {c \in Cmds : publication[c] = "queued"}

ContractStep == [Contract!Next]_(Contract!contractVars)

(* A step that leaves the variables of the contract alone.                  *)
LEMMA Stutters ==
  UNCHANGED <<cmds, Phase, Accepted, redelivered, Settled, ran, outputs>> => ContractStep
BY DEF ContractStep, Contract!contractVars, Accepted

(* Accepted and Settled depend on nothing but where commands are.           *)
LEMMA SameCommands ==
  UNCHANGED <<publication, cmdQueue, unacked>> => UNCHANGED <<Accepted, Settled>>
BY DEF Accepted, Settled

LEMMA SamePhase == UNCHANGED <<pc, ret>> => UNCHANGED Phase
BY DEF Phase

seenVars == <<cmds, pc, ret, publication, redelivered, cmdQueue, unacked, ran, outputs>>

(* A step that changes nothing the contract speaks of.                      *)
LEMMA Unseen == UNCHANGED seenVars => ContractStep
BY Stutters, SameCommands, SamePhase DEF seenVars

LEMMA ContractInit == Init => Contract!Init
BY DEF Init, MQInit, WorkerInit, TaskInit, Contract!Init, Phase, Settled

-----------------------------------------------------------------------------
(* Publishing, and the rest of what the main goroutine does.                *)

LEMMA PublishAccepts ==
  ASSUME IInv, NEW c \in Cmds, Publish(c)
  PROVE  ContractStep
<1> USE DEF Publish, Settle, Unpublished, teVars, workerVars
<1>1. /\ publication \in [Cmds -> {"unpublished", "queued", "dropped", "refused"}]
      /\ c \in cmds \ Accepted
      /\ Accepted' = Accepted \cup {c}
  BY DEF IInv, TypeInv, TypeOK, TaskTypeOK, Accepted
<1>2. Settled' = Settled
  BY <1>1 DEF Settled
<1>3. Phase = "sending" /\ Phase' = "sending"
  BY DEF Phase
<1>4. Contract!Accept(c)
  BY <1>1, <1>2, <1>3 DEF Contract!Accept, Accepted
<1> QED
  BY <1>4 DEF ContractStep, Contract!Next

LEMMA LostPublishUnseen ==
  ASSUME IInv, NEW c \in Cmds,
         PublishGivesUp(c) \/ PublishDropped(c) \/ PublisherFails(c)
  PROVE  ContractStep
<1> USE DEF PublishGivesUp, PublishDropped, PublisherFails, Settle, Unpublished, mqVars,
            teVars, workerVars
<1>1. publication \in [Cmds -> {"unpublished", "queued", "dropped", "refused"}]
  BY DEF IInv, TypeInv, TypeOK, TaskTypeOK
<1>2. Accepted' = Accepted /\ Settled' = Settled
  BY <1>1 DEF Accepted, Settled
<1>3. Phase' = Phase
  BY SamePhase
<1> QED
  BY <1>2, <1>3, Stutters

LEMMA WaitFinishes ==
  ASSUME IInv, IInv', CommandsFinished
  PROVE  ContractStep
<1> USE DEF CommandsFinished, Cancel, mqVars, teVars, publishVars, waitVars
<1>1. Phase = "waiting" /\ Phase' = "collecting"
  BY DEF IInv, Results, CollectOnce, BeforeCollect, Phase
<1>2. UNCHANGED <<Accepted, Settled>>
  BY SameCommands
<1>3. ASSUME redelivered = {}, NEW c \in cmds PROVE Contract!Done(c)
  <2>1. CmdsOf(received)' = cmds' /\ (received \subseteq ran)'
    BY <1>3 DEF IInv, Waiting, WgCounts, SignalledOnce, AfterWait
  <2> QED
    BY <2>1 DEF CmdsOf, Contract!Done
<1>4. Contract!Finish
  BY <1>1, <1>2, <1>3 DEF Contract!Finish, Contract!Exact, Accepted
<1> QED
  BY <1>4 DEF ContractStep, Contract!Next

LEMMA ReportReturns ==
  ASSUME IInv, IInv', Collected
  PROVE  ContractStep
<1> USE DEF Collected, mqVars, workerVars, publishVars, collectVars
<1>1. Phase = "collecting" /\ Phase' = "nil" /\ outputs = {}
  BY DEF IInv, Results, CollectOnce, Phase
<1>2. UNCHANGED <<Accepted, Settled>>
  BY SameCommands
<1>3. outputs' \in SUBSET ran
  BY <1>1 DEF IInv, Results, CollectOnce
<1>4. ASSUME redelivered = {} PROVE outputs' \in {{}, ran}
  <2>1. CASE collectErr # {}
    BY <2>1, <1>1
  <2>2. CASE collectErr = {}
    <3>1. CompleteReport'
      BY FullReport, PTL
    <3> QED
      BY <2>2, <3>1, <1>4 DEF CompleteReport
  <2> QED
    BY <2>1, <2>2
<1>5. Contract!Return
  BY <1>1, <1>2, <1>3, <1>4 DEF Contract!Return, Contract!Exact, Accepted
<1> QED
  BY <1>5 DEF ContractStep, Contract!Next

LEMMA OpenFails ==
  ASSUME IInv, OpenConsumerFails
  PROVE  ContractStep
<1> USE DEF OpenConsumerFails, workerVars, publishVars
<1>1. Phase = "collecting" /\ Phase' = "err"
  BY DEF IInv, Results, CollectOnce, BeforeCollect, Phase
<1>2. UNCHANGED <<Accepted, Settled>>
  BY SameCommands
<1>3. Contract!Fail
  BY <1>1, <1>2 DEF Contract!Fail, Accepted
<1> QED
  BY <1>3 DEF ContractStep, Contract!Next

LEMMA MainRefines ==
  ASSUME IInv, IInv', MainStep
  PROVE  ContractStep
<1> USE DEF mqVars, workerVars, transitVars, teVars, publishVars, waitVars, collectVars
<1>1. CASE AllPublished
  <2>1. Phase = "sending" /\ Phase' = "waiting"
    BY <1>1 DEF AllPublished, Phase
  <2>2. UNCHANGED <<Accepted, Settled>>
    BY <1>1, SameCommands DEF AllPublished
  <2>3. Contract!AllSent
    BY <1>1, <2>1, <2>2 DEF AllPublished, Contract!AllSent, Accepted
  <2> QED
    BY <2>3 DEF ContractStep, Contract!Next
<1>2. CASE ConsumersReady \/ OpenOutputConsumer \/ OpenErrorConsumer \/ CloseConsumers
  <2>1. Phase' = Phase
    BY <1>2 DEF ConsumersReady, OpenOutputConsumer, OpenErrorConsumer, CloseConsumers,
                IInv, Results, CollectOnce, BeforeCollect, Phase
  <2>2. UNCHANGED <<cmds, publication, cmdQueue, unacked, redelivered, ran, outputs>>
    BY <1>2 DEF ConsumersReady, OpenOutputConsumer, OpenErrorConsumer, CloseConsumers
  <2> QED
    BY <2>1, <2>2, SameCommands, Stutters
<1>3. CASE PublishReturned
  BY <1>3, Unseen DEF PublishReturned, seenVars
<1> QED
  BY <1>1, <1>2, <1>3, PublishAccepts, LostPublishUnseen, WaitFinishes, ReportReturns
     DEF MainStep

-----------------------------------------------------------------------------
(* The worker, its connection and the broker.                               *)

LEMMA RunExecutes ==
  ASSUME IInv, [Next]_vars, NEW w \in Workers, Run(w), OrchestratorIdle
  PROVE  ContractStep
<1> USE DEF Run, OrchestratorIdle, teVars, publishVars
<1>1. PICK c \in delivered[w], k \in ResultQueueNames :
        ran' = ran \cup {[cmd |-> c, worker |-> w, queue |-> k]}
  OBVIOUS
<1> DEFINE e == [cmd |-> c, worker |-> w, queue |-> k]
<1>2. c \in Cmds /\ e \in Contract!Execution
  BY DEF IInv, TypeInv, TypeOK, MQTypeOK, Contract!Execution, ResultQueueNames
<1>3. c \in Accepted
  BY <1>2 DEF IInv, Placement, OnlyQueued, Accepted
<1>4. c \in redelivered \/ (c \notin Settled /\ ~Contract!Done(c))
  BY <1>2 DEF IInv, Unique, OnePlace, Executed, Settled, Contract!Done
<1>5. ASSUME redelivered = {} PROVE Phase \in {"sending", "waiting"}
  <2>1. c \notin redelivered /\ ~Executed(ran, c)
    BY <1>2, <1>5 DEF IInv, Unique, OnePlace
  <2>2. ran' # ran
    <3>1. e.cmd = c /\ e \notin ran
      BY <2>1 DEF Executed
    <3> QED
      BY <1>1, <3>1
  <2>3. pc \notin AfterWait /\ pc # "panic"
    BY <2>2, <1>5, NoLateRun DEF IInv, Results, NeverPanics
  <2> QED
    BY <2>3 DEF Phase, AfterWait, PCs, IInv, TypeInv, TypeOK, TaskTypeOK
<1>6. UNCHANGED <<Accepted, Settled, Phase>>
  BY SameCommands, SamePhase
<1>7. Contract!Execute(e)
  BY <1>1, <1>3, <1>4, <1>5, <1>6 DEF Contract!Execute, Contract!Exact, Accepted
<1> QED
  BY <1>2, <1>7 DEF ContractStep, Contract!Next

LEMMA AckSettles ==
  ASSUME IInv, NEW w \in Workers, Ack(w), OrchestratorIdle
  PROVE  ContractStep
<1> USE DEF Ack, OrchestratorIdle, teVars, publishVars
<1> DEFINE c == current[w].cmd
<1>1. Contract!Done(c)
  BY DEF IInv, TypeInv, BusyHasCommand, Busy, Contract!Done
<1>2. /\ unacked \in [Workers -> SUBSET Cmds]
      /\ unacked' = [unacked EXCEPT ![w] = @ \ {c}]
  BY DEF IInv, TypeInv, TypeOK, MQTypeOK
<1>3. UNCHANGED <<Accepted, Phase>>
  BY SamePhase DEF Accepted
<1>4. CASE Settled' = Settled
  BY <1>3, <1>4, Stutters
<1>5. CASE Settled' # Settled
  <2>1. c \in Accepted \ Settled /\ Settled' = Settled \cup {c}
    BY <1>2, <1>5 DEF Settled, Accepted
  <2>2. Contract!Settle(c)
    BY <1>1, <1>3, <2>1 DEF Contract!Settle, Accepted
  <2> QED
    BY <2>1, <2>2 DEF ContractStep, Contract!Next, Accepted
<1> QED
  BY <1>4, <1>5

LEMMA DisconnectRepeats ==
  ASSUME IInv, NEW w \in Workers, NEW s, Disconnect(w, s), UNCHANGED ran,
         OrchestratorIdle
  PROVE  ContractStep
<1> USE DEF Disconnect, OrchestratorIdle, teVars, publishVars
<1>1. unacked \in [Workers -> SUBSET Cmds]
  BY DEF IInv, TypeInv, TypeOK, MQTypeOK
<1>2. unacked[w] \subseteq Accepted \ Settled
  BY <1>1 DEF IInv, Placement, OnlyQueued, Accepted, Settled
<1>3. UNCHANGED <<Accepted, Phase>>
  BY SamePhase DEF Accepted
<1>4. Settled' = Settled
  BY <1>1 DEF Settled
<1>5. Contract!Repeat
  BY <1>2, <1>3, <1>4 DEF Contract!Repeat, Accepted
<1> QED
  BY <1>5 DEF ContractStep, Contract!Next

LEMMA DeliverUnseen ==
  ASSUME IInv, DeliverStep
  PROVE  ContractStep
<1> USE DEF DeliverStep, Deliver, OrchestratorIdle, teVars, publishVars, workerVars
<1>1. unacked \in [Workers -> SUBSET Cmds]
  BY DEF IInv, TypeInv, TypeOK, MQTypeOK
<1>2. Settled' = Settled
  BY <1>1 DEF Settled
<1>3. UNCHANGED <<Accepted, Phase>>
  BY SamePhase DEF Accepted
<1> QED
  BY <1>2, <1>3, Stutters

LEMMA TransitUnseen ==
  ASSUME ArriveStep \/ TransitFault
  PROVE  ContractStep
<1> USE DEF OrchestratorIdle, teVars, publishVars
<1>1. UNCHANGED seenVars
  BY DEF ArriveStep, TransitFault, ResultArrives, ResultLost, seenVars
<1> QED
  BY <1>1, Unseen

LEMMA WorkerRefines ==
  ASSUME IInv, [Next]_vars, NEW w \in Workers,
         WorkerStep(w) \/ WorkerFault(w) \/ ConnectionFault(w)
  PROVE  ContractStep
<1> USE DEF mqVars, workerVars, transitVars, teVars, publishVars
<1>1. OrchestratorIdle
  BY DEF WorkerStep, WorkerFault, ConnectionFault
<1>2. CASE Run(w)
  BY <1>1, <1>2, RunExecutes
<1>3. CASE Ack(w)
  BY <1>1, <1>3, AckSettles
<1>4. CASE ConsumeTagInUse(w) \/ Crash(w) \/ ConnectionFault(w)
  <2>1. UNCHANGED ran /\ \E s \in {"dead", "nil"} : Disconnect(w, s)
    BY <1>4 DEF ConsumeTagInUse, Crash, ConnectionFault, ConnectionLost
  <2> QED
    BY <1>1, <2>1, DisconnectRepeats
<1>5. CASE \/ GetConsumer(w) \/ Consume(w) \/ ConsumeOnClosed(w)
           \/ PublishResult(w) \/ Signal(w) \/ ContextDone(w) \/ DeliveriesClosed(w)
           \/ GetConsumerFails(w) \/ PublishResultFails(w)
  <2>1. UNCHANGED seenVars
    BY <1>1, <1>5 DEF GetConsumer, Consume, ConsumeOnClosed, PublishResult, Signal,
         ContextDone, DeliveriesClosed, GetConsumerFails, PublishResultFails, seenVars,
         OrchestratorIdle
  <2> QED
    BY <2>1, Unseen
<1> QED
  BY <1>2, <1>3, <1>4, <1>5 DEF WorkerStep, WorkerFault, HandlerStep, HandlerFault

-----------------------------------------------------------------------------
(* The other goroutines of the orchestrator.                                *)

(* A negative counter, and the process is gone.                             *)
LEMMA PanicPanics ==
  ASSUME IInv, IInv', Running, Panic,
         UNCHANGED <<cmds, ret, publication, redelivered, cmdQueue, unacked, ran, outputs>>
  PROVE  ContractStep
<1>1. Phase' = "panic"
  BY DEF Panic, Phase
<1>2. redelivered # {}
  BY DEF IInv, Results, NeverPanics, Panic
<1>3. UNCHANGED <<Accepted, Settled>>
  BY SameCommands
<1>4. Contract!Panic
  BY <1>1, <1>2, <1>3 DEF Contract!Panic, Contract!Exact, Accepted
<1> QED
  BY <1>4 DEF ContractStep, Contract!Next

LEMMA DispatcherRefines ==
  ASSUME IInv, IInv', NEW w \in Workers, DispatcherStep(w)
  PROVE  ContractStep
<1> USE DEF mqVars, workerVars, transitVars, teVars, publishVars
<1>1. CASE Recv(w) /\ BelowZero(wg)
  BY <1>1, PanicPanics DEF Recv
<1>2. CASE Recv(w) /\ ~BelowZero(wg)
  BY <1>2, Unseen DEF Recv, seenVars
<1>3. CASE Dial(w) \/ DialCrashed(w) \/ RecvEnds(w)
  BY <1>3, Unseen DEF Dial, DialCrashed, RecvEnds, seenVars
<1> QED
  BY <1>1, <1>2, <1>3 DEF DispatcherStep

LEMMA CollectorRefines ==
  ASSUME IInv, IInv', NEW k \in ResultQueueNames, CollectorStep(k)
  PROVE  ContractStep
<1> USE DEF mqVars, workerVars, transitVars, teVars, publishVars
<1>1. CASE ReadResult(k) /\ BelowZero(cmdRes)
  BY <1>1, PanicPanics DEF ReadResult
<1>2. CASE ReadResult(k) /\ ~BelowZero(cmdRes)
  BY <1>2, Unseen DEF ReadResult, seenVars
<1>3. CASE Subscribe(k) \/ SubscribeOnClosed(k) \/ AckResult(k) \/ CollectorExits(k)
  BY <1>3, Unseen DEF Subscribe, SubscribeOnClosed, AckResult, CollectorExits, seenVars
<1> QED
  BY <1>1, <1>2, <1>3 DEF CollectorStep

LEMMA FaultRefines ==
  ASSUME IInv, TaskFault
  PROVE  ContractStep
<1> USE DEF mqVars, workerVars, transitVars, teVars, publishVars
<1>1. ASSUME NEW w \in Workers, DialFails(w) \/ StreamBreaks(w) PROVE ContractStep
  BY <1>1, Unseen DEF DialFails, StreamBreaks, seenVars
<1>2. ASSUME NEW k \in ResultQueueNames, SubscribeFails(k) \/ CollectorConnLost(k)
      PROVE  ContractStep
  BY <1>2, Unseen DEF SubscribeFails, CollectorConnLost, seenVars
<1> QED
  BY <1>1, <1>2, LostPublishUnseen, OpenFails DEF TaskFault

LEMMA StepRefines == IInv /\ IInv' /\ [Next]_vars => ContractStep
<1> SUFFICES ASSUME IInv, IInv', [Next]_vars PROVE ContractStep
  OBVIOUS
<1>1. CASE CloseDone
  BY <1>1, Unseen DEF CloseDone, mqVars, workerVars, teVars, publishVars, seenVars
<1>2. CASE UNCHANGED vars
  BY <1>2, Unseen DEF vars, mqVars, workerVars, teVars, publishVars, seenVars
<1> QED
  BY <1>1, <1>2, MainRefines, DispatcherRefines, WorkerRefines, CollectorRefines,
     DeliverUnseen, TransitUnseen, FaultRefines
     DEF Next

(* Whatever fails, RunTaskOnAllMachines is a TaskContract: at least once    *)
(* for every accepted command, and exact while nothing is redelivered.      *)
THEOREM TaskKeepsContract == Spec => KeepsContract
<1>1. IInv /\ IInv' /\ [Next]_vars => [Contract!Next]_(Contract!contractVars)
  BY StepRefines DEF ContractStep
<1> QED
  BY <1>1, ContractInit, IInvAlways, PTL DEF Spec, KeepsContract, Contract!Spec
=============================================================================
