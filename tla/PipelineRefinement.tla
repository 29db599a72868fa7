-------------------------- MODULE PipelineRefinement --------------------------
(***************************************************************************)
(* Until a call meets another, or what an earlier one left, every call of  *)
(* a pipeline implements TaskContract without repetitions, for any         *)
(* webhooks, tasks, commands and machines.                                 *)
(***************************************************************************)
EXTENDS UnmixedProofs

(* A step that the caller of c does not see.                                *)
LEMMA Unseen ==
  ASSUME NEW c \in Calls,
         UNCHANGED <<Phase(c), Accepted(c), Settled(c), Executed(c), Reported(c)>>
  PROVE  ContractStep(c)
BY DEF ContractStep, Contract!contractVars

(* Where the variables of the contract come from.                           *)
LEMMA SamePhase ==
  ASSUME NEW c \in Calls, UNCHANGED <<pc, wg>>
  PROVE  UNCHANGED Phase(c)
BY DEF Phase

LEMMA SameCommands ==
  ASSUME NEW c \in Calls, UNCHANGED <<published, cmdQueue, unacked>>
  PROVE  UNCHANGED <<Accepted(c), Settled(c)>>
BY DEF Accepted, Settled

LEMMA SameExecuted ==
  ASSUME NEW c \in Calls, UNCHANGED ran
  PROVE  UNCHANGED Executed(c)
BY DEF Executed, Outcomes

LEMMA SameReported ==
  ASSUME NEW c \in Calls, UNCHANGED <<pc, report>>
  PROVE  UNCHANGED Reported(c)
BY DEF Reported, Outcomes

(* The wait of a call that went on is over, and stays over.                 *)
Waited == \A c \in Calls : Cancelled(c) => wg[c] = 0

LEMMA WaitedNext == TypeInv /\ Waited /\ [Next]_vars => Waited'
<1> SUFFICES ASSUME TypeInv, Waited, [Next]_vars PROVE Waited'
  OBVIOUS
<1> USE DEF Waited, Cancelled, TypeInv, PipelineTypeOK, MoveCall
<1>1. ASSUME NEW c \in Calls, CallStep(c) PROVE Waited'
  <2>1. UNCHANGED wg
    BY <1>1 DEF CallStep, Start, ConsumersReady, Publish, CommandsFinished, ReadResult,
       AckResult, Return, callVars
  <2>2. \A d \in Calls : d # c => pc'[d] = pc[d]
    BY <1>1 DEF CallStep, Start, ConsumersReady, Publish, CommandsFinished, ReadResult,
       AckResult, Return, callVars
  <2>3. Cancelled(c)' => wg[c] = 0
    BY <1>1 DEF CallStep, Start, ConsumersReady, Publish, CommandsFinished, ReadResult,
       AckResult, Return, callVars
  <2> QED
    BY <2>1, <2>2, <2>3
<1>2. ASSUME NEW x \in Handlers, Recv(x) PROVE Waited'
  <2>1. x[1] \in Calls /\ UNCHANGED pc
    BY <1>2, HandlerParts DEF Recv
  <2>2. UNCHANGED wg \/ (wg[x[1]] # 0 /\ wg' = [wg EXCEPT ![x[1]] = @ - 1])
    BY <1>2 DEF Recv
  <2> QED
    BY <2>1, <2>2
<1>3. ASSUME NEW x \in Handlers, HandlerStep(x) \/ Dial(x) \/ Deliver(x) PROVE Waited'
  BY <1>3 DEF HandlerStep, Dial, Deliver, Check, Create, Consume, ConsumeOnClosed,
     ConsumeTagInUse, Run, Signal, Ack, ContextDone, DeliveriesClosed, callVars
<1>4. CASE UNCHANGED vars
  BY <1>4 DEF vars, callVars
<1> QED
  BY <1>1, <1>2, <1>3, <1>4 DEF Next

(* A command that never ran is still counted.                               *)
LEMMA StillCounted ==
  ASSUME Owing, NEW c \in Calls, NEW m \in CmdsOf(c), NeverRan(m)
  PROVE  wg[c] # 0
<1>1. PICK undone \in Undone, told \in Told : Owes(undone, told)
  BY DEF Owing
<1>2. m \in undone[c]
  BY <1>1, CmdParts DEF Owes
<1>3. IsFiniteSet(undone[c]) /\ wg[c] = Cardinality(undone[c])
  BY <1>1, ToldIsFinite DEF Owes
<1> QED
  BY <1>2, <1>3, FS_EmptySet

LEMMA OutcomeOf ==
  /\ \A S, p : p \in S => Outcome(p) \in Outcomes(S)
  /\ \A S, p : Outcomes(S \cup {p}) = Outcomes(S) \cup {Outcome(p)}
  /\ \A p : Outcome(p).cmd = p[1]
BY Zenon DEF Outcome, Outcomes

LEMMA HasRun ==
  ASSUME TypeInv, NEW c \in Calls, NEW m \in CmdsOf(c), ~ NeverRan(m)
  PROVE  Contract(c)!Done(m)
<1>1. PICK x \in Handlers : <<m, x>> \in ran
  BY DEF NeverRan
<1>2. Outcome(<<m, x>>) \in Executed(c)
  BY <1>1, OutcomeOf DEF Executed
<1>3. Outcome(<<m, x>>).cmd = m
  BY OutcomeOf
<1> QED
  BY <1>2, <1>3, Zenon DEF Contract!Done

-----------------------------------------------------------------------------
(* Calls.                                                                   *)

LEMMA PublishAccepts ==
  ASSUME TypeInv, Unmixed, NEW c \in Calls, NEW d \in Calls, Publish(d)
  PROVE  ContractStep(c)
<1>1. PICK m \in CmdsOf(d) \ published : /\ published' = published \cup {m}
                                         /\ cmdQueue' = cmdQueue \cup {m}
  BY DEF Publish
<1>2. pc[d] = "publish" /\ UNCHANGED <<pc, wg, unacked, ran, report>>
  BY DEF Publish, workerVars, resultVars
<1>3. UNCHANGED <<Phase(c), Executed(c), Reported(c)>>
  BY <1>2, SamePhase, SameExecuted, SameReported
<1>4. m[1] = d
  BY CmdParts
<1>5. Settled(c)' = Settled(c)
  BY <1>1, <1>2 DEF Settled, Accepted
<1>6. CASE c # d
  <2>1. Accepted(c)' = Accepted(c)
    BY <1>1, <1>4, <1>6, CmdParts DEF Accepted
  <2> QED
    BY <1>3, <1>5, <2>1, Unseen
<1>7. CASE c = d
  <2>1. NeverRan(m)
    BY <1>1 DEF Unmixed, RunOnce, NeverRan
  <2>2. wg[c] # 0
    BY <1>7, <2>1, StillCounted DEF Unmixed
  <2>3. Phase(c) = "sending"
    BY <1>2, <1>7, <2>2 DEF Phase
  <2>4. m \in CmdsOf(c) \ Accepted(c) /\ Accepted(c)' = Accepted(c) \cup {m}
    BY <1>1, <1>7 DEF Accepted
  <2>5. Contract(c)!Accept(m)
    BY <1>3, <1>5, <2>3, <2>4 DEF Contract!Accept
  <2> QED
    BY <2>4, <2>5 DEF ContractStep, Contract!Next
<1> QED
  BY <1>6, <1>7

LEMMA WaitFinishes ==
  ASSUME TypeInv, Unmixed, NEW c \in Calls, CommandsFinished(c)
  PROVE  ContractStep(c)
<1>1. /\ pc[c] = "publish" /\ wg[c] = 0 /\ pc' = [pc EXCEPT ![c] = "collect"]
      /\ UNCHANGED <<wg, published, cmdQueue, unacked, ran>>
  BY DEF CommandsFinished, MoveCall, workerVars, queueVars
<1>2. pc'[c] = "collect"
  BY <1>1 DEF TypeInv, PipelineTypeOK
<1>3. Phase(c) = "waiting" /\ Phase(c)' = "collecting"
  BY <1>1, <1>2 DEF Phase
<1>4. UNCHANGED <<Accepted(c), Settled(c), Executed(c)>>
  BY <1>1, SameCommands, SameExecuted
<1>5. UNCHANGED Reported(c)
  BY <1>1, <1>2 DEF Reported
<1>6. \A m \in CmdsOf(c) : Contract(c)!Done(m)
  BY <1>1, StillCounted, HasRun DEF Unmixed
<1>7. Contract(c)!Finish
  BY <1>3, <1>4, <1>5, <1>6 DEF Contract!Finish
<1> QED
  BY <1>7 DEF ContractStep, Contract!Next

LEMMA ReportReturns ==
  ASSUME TypeInv, Unmixed, Unmixed', NEW c \in Calls, Return(c)
  PROVE  ContractStep(c)
<1>1. /\ pc[c] = "collect" /\ pc' = [pc EXCEPT ![c] = "returned"]
      /\ UNCHANGED <<wg, published, cmdQueue, unacked, ran, report>>
  BY DEF Return, MoveCall, workerVars, queueVars
<1>2. pc'[c] = "returned"
  BY <1>1 DEF TypeInv, PipelineTypeOK
<1>3. Phase(c) = "collecting" /\ Phase(c)' = "nil"
  BY <1>1, <1>2 DEF Phase
<1>4. UNCHANGED <<Accepted(c), Settled(c), Executed(c)>>
  BY <1>1, SameCommands, SameExecuted
<1>5. report[c] = {e \in ran : e[1] \in CmdsOf(c)}
  <2>1. Seen(report[c]) = CmdsOf(c) /\ report[c] \subseteq ran
    BY <1>1, <1>2 DEF Unmixed, Counted
  <2>2. \A e \in ran : e[1] \in CmdsOf(c) => \E f \in report[c] : f[1] = e[1]
    BY <2>1 DEF Seen
  <2>3. \A e \in ran : e[1] \in CmdsOf(c) => e \in report[c]
    BY <2>1, <2>2 DEF Unmixed, RunOnce
  <2>4. \A e \in report[c] : e[1] \in CmdsOf(c)
    BY <2>1 DEF Seen
  <2> QED
    BY <2>1, <2>3, <2>4
<1>6. Reported(c)' = Executed(c)
  BY <1>1, <1>2, <1>5 DEF Reported, Executed
<1>7. Contract(c)!Return
  BY <1>3, <1>4, <1>6 DEF Contract!Return
<1> QED
  BY <1>7 DEF ContractStep, Contract!Next

LEMMA CallRefines ==
  ASSUME TypeInv, Unmixed, Unmixed', NEW c \in Calls, NEW d \in Calls, CallStep(d)
  PROVE  ContractStep(c)
<1>1. CASE Publish(d)
  BY <1>1, PublishAccepts
<1>2. CASE d = c /\ (CommandsFinished(c) \/ Return(c))
  BY <1>2, WaitFinishes, ReportReturns
<1>3. CASE d = c /\ ConsumersReady(c)
  <2>1. /\ pc[c] = "dial" /\ pc' = [pc EXCEPT ![c] = "publish"]
        /\ UNCHANGED <<wg, published, cmdQueue, unacked, ran>>
    BY <1>3 DEF ConsumersReady, MoveCall, workerVars, queueVars
  <2>2. pc'[c] = "publish"
    BY <2>1 DEF TypeInv, PipelineTypeOK
  <2>3. UNCHANGED <<Accepted(c), Settled(c), Executed(c), Reported(c)>>
    BY <2>1, <2>2, SameCommands, SameExecuted DEF Reported
  <2>4. CASE wg[c] # 0
    <3>1. UNCHANGED Phase(c)
      BY <2>1, <2>2, <2>4 DEF Phase
    <3> QED
      BY <2>3, <3>1, Unseen
  <2>5. CASE wg[c] = 0
    <3>1. Phase(c) = "sending" /\ Phase(c)' = "waiting"
      BY <2>1, <2>2, <2>5 DEF Phase
    <3>2. Contract(c)!AllSent
      BY <2>3, <3>1 DEF Contract!AllSent
    <3> QED
      BY <3>2 DEF ContractStep, Contract!Next
  <2> QED
    BY <2>4, <2>5
<1>4. CASE ReadResult(d) \/ AckResult(d)
  <2>1. /\ UNCHANGED <<pc, wg, published, cmdQueue, unacked, ran>>
        /\ UNCHANGED report \/ (pc[d] = "collect" /\ \A b \in Calls : b # d => report'[b] = report[b])
    BY <1>4 DEF ReadResult, AckResult, workerVars, queueVars, callVars, TypeInv, PipelineTypeOK
  <2>2. UNCHANGED Reported(c)
    BY <2>1 DEF Reported
  <2> QED
    BY <2>1, <2>2, SamePhase, SameCommands, SameExecuted, Unseen
<1>5. CASE Start(d) \/ (d # c /\ (ConsumersReady(d) \/ CommandsFinished(d) \/ Return(d)))
  <2>1. /\ UNCHANGED <<wg, published, cmdQueue, unacked, ran, report>>
        /\ pc'[c] = pc[c] \/ (pc[c] = "idle" /\ pc'[c] = "dial")
    BY <1>5 DEF Start, ConsumersReady, CommandsFinished, Return, MoveCall, workerVars, queueVars,
       resultVars, TypeInv, PipelineTypeOK
  <2>2. UNCHANGED <<Phase(c), Reported(c)>>
    BY <2>1 DEF Phase, Reported
  <2> QED
    BY <2>1, <2>2, SameCommands, SameExecuted, Unseen
<1> QED
  BY <1>1, <1>2, <1>3, <1>4, <1>5 DEF CallStep
-----------------------------------------------------------------------------
(* Handlers.                                                                *)

LEMMA RunExecutes ==
  ASSUME TypeInv, Placement, Waited, Unmixed, NEW c \in Calls,
         NEW x \in Handlers, Run(x)
  PROVE  ContractStep(c)
<1>1. PICK m \in delivered[using[x]] : ran' = ran \cup {<<m, x>>}
  BY DEF Run
<1>2. using[x] \in Handlers /\ UNCHANGED <<pc, wg, published, cmdQueue, unacked, report>>
  BY DEF Run, MoveHandler, callVars, TypeInv, Reading
<1>3. m \in Cmds /\ m \in unacked[using[x]] /\ NeverRan(m)
  BY <1>2 DEF Unmixed, Places, RunOnce, TypeInv, PipelineTypeOK
<1>4. UNCHANGED <<Phase(c), Accepted(c), Settled(c), Reported(c)>>
  BY <1>2, SamePhase, SameCommands, SameReported
<1>5. CASE m \notin CmdsOf(c)
  <2>1. {e \in ran' : e[1] \in CmdsOf(c)} = {e \in ran : e[1] \in CmdsOf(c)}
    BY <1>1, <1>5
  <2>2. UNCHANGED Executed(c)
    BY <2>1 DEF Executed
  <2> QED
    BY <1>4, <2>2, Unseen
<1>6. CASE m \in CmdsOf(c)
  <2> DEFINE o == Outcome(<<m, x>>)
  <2>1. {e \in ran' : e[1] \in CmdsOf(c)} = {e \in ran : e[1] \in CmdsOf(c)} \cup {<<m, x>>}
    BY <1>1, <1>6
  <2>2. Executed(c)' = Executed(c) \cup {o}
    BY <2>1, OutcomeOf DEF Executed
  <2>3. m \in published
    BY <1>2, <1>3 DEF Placement
  <2>4. m \in Accepted(c) /\ m \notin Settled(c)
    BY <1>2, <1>3, <1>6, <2>3 DEF Accepted, Settled
  <2>5. ~ Contract(c)!Done(m)
    <3> SUFFICES ASSUME NEW e \in ran, e[1] = m PROVE FALSE
      BY DEF Contract!Done, Executed, Outcomes, Outcome
    <3>1. e = <<e[1], e[2]>> /\ e[2] \in Handlers
      BY DEF TypeInv, PipelineTypeOK, Executions
    <3> QED
      BY <1>3, <3>1 DEF NeverRan
  <2>6. Phase(c) \in {"sending", "waiting"}
    <3>1. wg[c] # 0
      BY <1>3, <1>6, StillCounted DEF Unmixed
    <3>2. pc[c] \in {"idle", "dial", "publish"}
      BY <3>1 DEF Waited, Cancelled, TypeInv, PipelineTypeOK, PCs
    <3> QED
      BY <3>2 DEF Phase
  <2>7. o \in Contract(c)!Execution /\ o.cmd = m
    BY <1>6, HandlerParts DEF Outcome, Contract!Execution
  <2>8. Contract(c)!Execute(o)
    BY <1>4, <2>2, <2>4, <2>5, <2>6, <2>7 DEF Contract!Execute
  <2> HIDE DEF o
  <2> QED
    BY <2>7, <2>8 DEF ContractStep, Contract!Next
<1> QED
  BY <1>5, <1>6

LEMMA AckSettles ==
  ASSUME TypeInv, Placement, Unmixed, NEW c \in Calls, NEW x \in Handlers, Ack(x)
  PROVE  ContractStep(c)
<1> DEFINE m == current[x]
<1>1. /\ using[x] \in Handlers
      /\ unacked' = [unacked EXCEPT ![using[x]] = @ \ {m}]
      /\ UNCHANGED <<pc, wg, published, cmdQueue, ran, report>>
      /\ handler[x] = "signalled"
  BY DEF Ack, MoveHandler, callVars, resultVars, TypeInv, Reading
<1>2. UNCHANGED <<Phase(c), Executed(c), Reported(c)>>
  BY <1>1, SamePhase, SameExecuted, SameReported
<1>3. UNCHANGED Accepted(c)
  BY <1>1 DEF Accepted
<1>4. /\ m \in unacked[using[x]] /\ m \in published /\ m \notin cmdQueue
      /\ \A u \in Handlers : u # using[x] => m \notin unacked[u]
      /\ <<m, x>> \in ran
  BY <1>1 DEF Unmixed, Places, Busy, Placement
<1>5. \A k : (\A u \in Handlers : k \notin unacked'[u])
             <=> k = m \/ \A u \in Handlers : k \notin unacked[u]
  BY <1>1, <1>4 DEF TypeInv, PipelineTypeOK
<1>6. CASE m \notin CmdsOf(c)
  <2>1. UNCHANGED Settled(c)
    BY <1>1, <1>3, <1>5, <1>6 DEF Settled, Accepted
  <2> QED
    BY <1>2, <1>3, <2>1, Unseen
<1>7. CASE m \in CmdsOf(c)
  <2>1. m \in Accepted(c) \ Settled(c)
    BY <1>1, <1>4, <1>7 DEF Accepted, Settled
  <2>2. Settled(c)' = Settled(c) \cup {m}
    BY <1>1, <1>3, <1>4, <1>5, <2>1 DEF Settled
  <2>3. Contract(c)!Done(m)
    BY <1>4, <1>7, HasRun DEF NeverRan
  <2>4. Contract(c)!Settle(m)
    BY <1>2, <1>3, <2>1, <2>2, <2>3 DEF Contract!Settle
  <2> QED
    BY <1>7, <2>4 DEF ContractStep, Contract!Next
<1> QED
  BY <1>6, <1>7

LEMMA RecvRefines ==
  ASSUME TypeInv, NEW c \in Calls, NEW x \in Handlers, Recv(x)
  PROVE  ContractStep(c)
<1>1. /\ UNCHANGED <<pc, published, cmdQueue, unacked, ran, report>>
      /\ wg'[c] = wg[c] \/ wg[c] # 0
  BY HandlerParts DEF Recv, queueVars, resultVars, TypeInv, PipelineTypeOK
<1>2. UNCHANGED <<Accepted(c), Settled(c), Executed(c), Reported(c)>>
  BY <1>1, SameCommands, SameExecuted, SameReported
<1>3. CASE pc[c] = "publish" /\ wg[c] # 0 /\ wg'[c] = 0
  <2>1. Phase(c) = "sending" /\ Phase(c)' = "waiting"
    BY <1>1, <1>3 DEF Phase
  <2>2. Contract(c)!AllSent
    BY <1>2, <2>1 DEF Contract!AllSent
  <2> QED
    BY <2>2 DEF ContractStep, Contract!Next
<1>4. CASE ~ (pc[c] = "publish" /\ wg[c] # 0 /\ wg'[c] = 0)
  <2>1. UNCHANGED Phase(c)
    BY <1>1, <1>4 DEF Phase
  <2> QED
    BY <1>2, <2>1, Unseen
<1> QED
  BY <1>3, <1>4

LEMMA HandlerRefines ==
  ASSUME TypeInv, Placement, TurnInv, Waited, Unmixed, NEW c \in Calls,
         NEW x \in Handlers, HandlerStep(x) \/ Dial(x) \/ Deliver(x)
  PROVE  ContractStep(c)
<1>0. ASSUME UNCHANGED <<pc, wg, published, cmdQueue, unacked, ran, report>>
      PROVE  ContractStep(c)
  BY <1>0, SamePhase, SameCommands, SameExecuted, SameReported, Unseen
<1>1. CASE Deliver(x)
  <2>1. PICK m \in cmdQueue : /\ cmdQueue' = cmdQueue \ {m}
                              /\ unacked' = [unacked EXCEPT ![x] = @ \cup {m}]
    BY <1>1 DEF Deliver
  <2>2. UNCHANGED <<pc, wg, published, ran, report>>
    BY <1>1 DEF Deliver, workerVars, resultVars, callVars
  <2>3. UNCHANGED Accepted(c)
    BY <2>2 DEF Accepted
  <2>4. UNCHANGED Settled(c)
    BY <2>1, <2>3 DEF Settled, TypeInv, PipelineTypeOK
  <2> QED
    BY <2>2, <2>3, <2>4, SamePhase, SameExecuted, SameReported, Unseen
<1>2. CASE ConsumeTagInUse(x)
  <2>1. UNCHANGED <<cmdQueue, unacked>>
    BY <1>2, TagInUseHarmless DEF Unmixed
  <2> QED
    BY <1>0, <1>2, <2>1 DEF ConsumeTagInUse, resultVars, callVars
<1>3. CASE \/ Dial(x) \/ Check(x) \/ Create(x) \/ Consume(x) \/ ConsumeOnClosed(x)
           \/ Signal(x) \/ ContextDone(x) \/ DeliveriesClosed(x)
  BY <1>0, <1>3 DEF Dial, Check, Create, Consume, ConsumeOnClosed, Signal, ContextDone,
     DeliveriesClosed, queueVars, resultVars, callVars
<1> QED
  BY <1>1, <1>2, <1>3, RunExecutes, AckSettles DEF HandlerStep

-----------------------------------------------------------------------------
(* The refinement.                                                          *)

LEMMA StepRefines ==
  ASSUME TypeInv, Placement, TurnInv, Waited, mixed \/ Unmixed, (mixed \/ Unmixed)', [Next]_vars
  PROVE  \A c \in Calls : mixed' \/ ContractStep(c)
<1> SUFFICES ASSUME ~ mixed', NEW c \in Calls PROVE ContractStep(c)
  OBVIOUS
<1>1. Unmixed /\ Unmixed'
  BY MixedStays
<1>2. ASSUME NEW x \in Handlers, Recv(x) PROVE ContractStep(c)
  BY <1>2, RecvRefines
<1>3. CASE UNCHANGED vars
  BY <1>3, SamePhase, SameCommands, SameExecuted, SameReported, Unseen
     DEF vars, workerVars, queueVars, resultVars, callVars
<1> QED
  BY <1>1, <1>2, <1>3, CallRefines, HandlerRefines DEF Next

LEMMA ContractInit == Init => \A c \in Calls : Contract(c)!Init
BY DEF Init, Contract!Init, Phase, Accepted, Settled, Executed, Reported, Outcomes

LEMMA WaitedCorrect == Spec => []Waited
<1>1. Init => Waited
  BY DEF Init, Waited, Cancelled
<1> QED
  BY <1>1, TypeInit, TypeNext, WaitedNext, PTL DEF Spec

(* Each call of RunTaskOnAllMachines in a pipeline is the TaskContract of a *)
(* task without redelivery, as long as no call has met another or what an   *)
(* earlier one left in the queues (handler.go:36-49).                       *)
THEOREM CallsRefineContract == Spec => CallsKeepContract
<1>1. TypeInv /\ Placement /\ TurnInv /\ Waited /\ (mixed \/ Unmixed) /\ (mixed \/ Unmixed)'
        /\ [Next]_vars => [\A c \in Calls : mixed' \/ ContractStep(c)]_vars
  BY StepRefines
<1>2. Spec => []Placement /\ []TurnInv
  BY TypeInit, TypeNext, PlacementInit, PlacementNext, TurnInit, TurnNext, PTL DEF Spec
<1> QED
  BY <1>1, <1>2, ContractInit, TypeInvCorrect, WaitedCorrect, UnmixedCorrect, PTL
     DEF Spec, CallsKeepContract
=============================================================================
