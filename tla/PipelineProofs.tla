--------------------------- MODULE PipelineProofs ---------------------------
(***************************************************************************)
(* Proofs about Pipeline, for any webhooks, tasks, commands and machines.  *)
(*                                                                         *)
(* Placement says where a command is that has not run.  TurnInv says who   *)
(* may be inside getConsumer while calls do not overlap.  Closing says     *)
(* where a command is that has run.                                        *)
(***************************************************************************)
EXTENDS Pipeline, TLAPS

-----------------------------------------------------------------------------
(* Types.                                                                   *)

LEMMA HandlerParts ==
  ASSUME NEW x \in Handlers
  PROVE  /\ x[1] \in Calls
         /\ x[2] \in Machines(x[1])
         /\ x[2] \in Workers
         /\ x = <<x[1], x[2]>>
  BY DEF Handlers, Workers

(* A handler reads from a Consumer that some handler made.                  *)
Reading ==
  \A x \in Handlers :
    /\ handler[x] = "return" => instance[x[2]] \in Handlers
    /\ handler[x] \in {"loop", "ran", "signalled"} => using[x] \in Handlers

TypeInv == PipelineTypeOK /\ Reading

LEMMA TypeInit == Init => TypeInv
<1> SUFFICES ASSUME Init PROVE TypeInv
  OBVIOUS
<1>1. \A c \in Calls : NumCmds(c) \in Nat
  BY PipelineAssumption
<1>2. wg \in [Calls -> Nat] /\ cmdRes \in [Calls -> Nat]
  BY <1>1 DEF Init
<1>3. panic \in BOOLEAN /\ overlap \in BOOLEAN /\ mixed \in BOOLEAN
  BY DEF Init
<1>4. pc \in [Calls -> PCs] /\ handler \in [Handlers -> HandlerStates]
  BY DEF Init, PCs, HandlerStates
<1>5. /\ instance \in [Workers -> Handlers \cup {NoConsumer}]
      /\ using \in [Handlers -> Handlers \cup {NoConsumer}]
      /\ conn \in [Handlers -> {"none", "open", "subscribed", "dead"}]
      /\ unacked \in [Handlers -> SUBSET Cmds]
      /\ delivered \in [Handlers -> SUBSET Cmds]
      /\ current \in [Handlers -> Cmds \cup {NoCmd}]
      /\ sent \in [Handlers -> Nat]
      /\ acking \in [Calls -> SUBSET Executions]
      /\ report \in [Calls -> SUBSET Executions]
  BY DEF Init
<1>6. /\ cmdQueue \subseteq Cmds /\ results \subseteq Executions
      /\ ran \subseteq Executions /\ published \subseteq Cmds
  BY DEF Init
<1> QED
  BY <1>2, <1>3, <1>4, <1>5, <1>6 DEF Init, TypeInv, PipelineTypeOK, Reading

LEMMA CallTypes ==
  ASSUME TypeInv, NEW c \in Calls, CallStep(c)
  PROVE  TypeInv'
<1> USE DEF TypeInv, PipelineTypeOK, Reading, workerVars, queueVars, resultVars, historyVars
<1>1. CASE Start(c)
  BY <1>1 DEF Start, MoveCall, PCs
<1>2. CASE ConsumersReady(c)
  BY <1>2 DEF ConsumersReady, MoveCall, PCs
<1>3. CASE Publish(c)
  BY <1>3 DEF Publish, Cmds
<1>4. CASE CommandsFinished(c)
  BY <1>4 DEF CommandsFinished, MoveCall, PCs
<1>5. CASE ReadResult(c)
  <2>1. PICK e \in results : /\ results' = results \ {e}
                             /\ acking' = [acking EXCEPT ![c] = @ \cup {e}]
                             /\ report' = [report EXCEPT ![c] = @ \cup {e}]
    BY <1>5 DEF ReadResult
  <2>2. /\ results' \subseteq Executions
        /\ acking' \in [Calls -> SUBSET Executions]
        /\ report' \in [Calls -> SUBSET Executions]
    BY <2>1
  <2>3. cmdRes' \in [Calls -> Nat]
    BY <1>5 DEF ReadResult
  <2>4. panic' \in BOOLEAN
    BY <1>5, Zenon DEF ReadResult
  <2> QED
    BY <1>5, <2>2, <2>3, <2>4 DEF ReadResult
<1>6. CASE AckResult(c)
  BY <1>6 DEF AckResult, callVars
<1>7. CASE Return(c)
  BY <1>7 DEF Return, MoveCall, PCs
<1> QED
  BY <1>1, <1>2, <1>3, <1>4, <1>5, <1>6, <1>7 DEF CallStep

LEMMA HandlerTypes ==
  ASSUME TypeInv, NEW x \in Handlers, HandlerStep(x)
  PROVE  TypeInv'
<1> USE HandlerParts
    DEF TypeInv, PipelineTypeOK, Reading, queueVars, resultVars, callVars, historyVars,
        MoveHandler, HandlerStates
<1>1. CASE Check(x)
  BY <1>1 DEF Check
<1>2. CASE Create(x)
  BY <1>2 DEF Create
<1>3. CASE Consume(x)
  BY <1>3 DEF Consume
<1>4. CASE ConsumeOnClosed(x)
  BY <1>4 DEF ConsumeOnClosed
<1>5. CASE ConsumeTagInUse(x)
  <2> DEFINE u == instance[x[2]]
  <2>1. u \in Handlers \cup {NoConsumer} /\ conn' = [conn EXCEPT ![u] = "dead"]
    BY <1>5 DEF ConsumeTagInUse, Disconnect
  <2>2. u \in Handlers
    BY <1>5 DEF ConsumeTagInUse
  <2>3. cmdQueue' \subseteq Cmds /\ unacked' \in [Handlers -> SUBSET Cmds]
    BY <1>5, <2>2 DEF ConsumeTagInUse, Disconnect
  <2> QED
    BY <1>5, <2>1, <2>2, <2>3 DEF ConsumeTagInUse
<1>6. CASE Run(x)
  <2>1. PICK m \in delivered[using[x]] :
          /\ delivered' = [delivered EXCEPT ![using[x]] = @ \ {m}]
          /\ current' = [current EXCEPT ![x] = m]
          /\ ran' = ran \cup {<<m, x>>}
          /\ results' = results \cup {<<m, x>>}
    BY <1>6 DEF Run
  <2>2. m \in Cmds
    <3>1. using[x] \in Handlers
      BY <1>6 DEF Run
    <3> QED
      BY <2>1, <3>1
  <2> QED
    BY <1>6, <2>1, <2>2 DEF Run, Executions
<1>7. CASE Signal(x)
  BY <1>7 DEF Signal
<1>8. CASE Ack(x)
  BY <1>8 DEF Ack
<1>9. CASE ContextDone(x)
  BY <1>9 DEF ContextDone
<1>10. CASE DeliveriesClosed(x)
  BY <1>10 DEF DeliveriesClosed
<1> QED
  BY <1>1, <1>2, <1>3, <1>4, <1>5, <1>6, <1>7, <1>8, <1>9, <1>10 DEF HandlerStep

LEMMA TypeNext == TypeInv /\ [Next]_vars => TypeInv'
<1> SUFFICES ASSUME TypeInv, [Next]_vars PROVE TypeInv'
  OBVIOUS
<1> USE DEF TypeInv, PipelineTypeOK, Reading, workerVars, queueVars, resultVars, callVars, historyVars
<1>1. ASSUME NEW x \in Handlers, Dial(x) PROVE TypeInv'
  BY <1>1 DEF Dial, HandlerStates
<1>2. ASSUME NEW x \in Handlers, Recv(x) PROVE TypeInv'
  <2>0. x[1] \in Calls
    BY HandlerParts
  <2>1. wg' \in [Calls -> Nat]
    BY <1>2, <2>0 DEF Recv
  <2>3. sent' \in [Handlers -> Nat]
    BY <1>2 DEF Recv
  <2>2. panic' \in BOOLEAN
    BY <1>2, Zenon DEF Recv
  <2> QED
    BY <1>2, <2>1, <2>2, <2>3 DEF Recv
<1>3. ASSUME NEW x \in Handlers, Deliver(x) PROVE TypeInv'
  BY <1>3 DEF Deliver
<1>4. CASE UNCHANGED vars
  BY <1>4 DEF vars
<1> QED
  BY <1>1, <1>2, <1>3, <1>4, CallTypes, HandlerTypes DEF Next

(* Every variable keeps its type: no WaitGroup counter is ever negative     *)
(* without the panic (runner.go:74, consume.go:171).                        *)
THEOREM PipelineTypeCorrect == Spec => []PipelineTypeOK
<1>1. TypeInv => PipelineTypeOK
  BY DEF TypeInv
<1> QED
  BY TypeInit, TypeNext, <1>1, PTL DEF Spec

LEMMA TypeInvCorrect == Spec => []TypeInv
<1> QED
  BY TypeInit, TypeNext, PTL DEF Spec

-----------------------------------------------------------------------------
(* Commands.                                                                *)

NeverRan(m) == \A x \in Handlers : <<m, x>> \notin ran

(* A command is held at most once, and until it has run at least once.      *)
Placement ==
  /\ cmdQueue \subseteq published
  /\ \A u \in Handlers : unacked[u] \subseteq published
  /\ \A u \in Handlers : cmdQueue \cap unacked[u] = {}
  /\ \A u, v \in Handlers : u # v => unacked[u] \cap unacked[v] = {}
  /\ \A m \in published : NeverRan(m) => m \in cmdQueue \/ \E u \in Handlers : m \in unacked[u]
  /\ \A x \in Handlers : handler[x] \in {"ran", "signalled"} => <<current[x], x>> \in ran

LEMMA PlacementInit == Init => Placement
  BY DEF Init, Placement

LEMMA PlacementNext == TypeInv /\ Placement /\ [Next]_vars => Placement'
<1> SUFFICES ASSUME TypeInv, Placement, [Next]_vars PROVE Placement'
  OBVIOUS
<1> USE DEF Placement, TypeInv, PipelineTypeOK, Reading, NeverRan, workerVars, queueVars,
            MoveHandler
<1>1. ASSUME NEW c \in Calls, Publish(c) PROVE Placement'
  BY <1>1 DEF Publish
<1>2. ASSUME NEW c \in Calls, CallStep(c), ~ Publish(c) PROVE Placement'
  <2>1. UNCHANGED <<cmdQueue, unacked, published, ran, handler, current>>
    BY <1>2 DEF CallStep, Start, ConsumersReady, CommandsFinished, ReadResult, AckResult,
                Return, callVars
  <2> QED
    BY <2>1
<1>3. ASSUME NEW x \in Handlers, HandlerStep(x) PROVE Placement'
  <2> USE DEF callVars
  <2>1. CASE Check(x) \/ Create(x) \/ Consume(x) \/ ConsumeOnClosed(x)
    BY <2>1 DEF Check, Create, Consume, ConsumeOnClosed
  <2>2. CASE ConsumeTagInUse(x)
    <3> DEFINE u == instance[x[2]]
    <3>1. /\ u \in Handlers
          /\ cmdQueue' = cmdQueue \cup unacked[u]
          /\ unacked' = [unacked EXCEPT ![u] = {}]
          /\ UNCHANGED <<published, ran, current>>
          /\ \A y \in Handlers : handler'[y] \in {"ran", "signalled"} => handler'[y] = handler[y]
      BY <2>2 DEF ConsumeTagInUse, Disconnect
    <3> HIDE DEF u
    <3> QED
      BY <3>1
  <2>3. CASE Run(x)
    <3>1. PICK m \in delivered[using[x]] :
            /\ handler' = [handler EXCEPT ![x] = "ran"]
            /\ current' = [current EXCEPT ![x] = m]
            /\ ran' = ran \cup {<<m, x>>}
            /\ UNCHANGED <<cmdQueue, unacked, published>>
      BY <2>3 DEF Run
    <3> QED
      BY <3>1
  <2>4. CASE Signal(x)
    BY <2>4 DEF Signal
  <2>5. CASE Ack(x)
    <3>1. /\ using[x] \in Handlers
          /\ <<current[x], x>> \in ran
          /\ unacked' = [unacked EXCEPT ![using[x]] = @ \ {current[x]}]
          /\ handler' = [handler EXCEPT ![x] = "loop"]
          /\ current' = [current EXCEPT ![x] = NoCmd]
          /\ UNCHANGED <<cmdQueue, published, ran>>
      BY <2>5 DEF Ack
    <3> QED
      BY <3>1
  <2>6. CASE ContextDone(x) \/ DeliveriesClosed(x)
    BY <2>6 DEF ContextDone, DeliveriesClosed
  <2> QED
    BY <1>3, <2>1, <2>2, <2>3, <2>4, <2>5, <2>6 DEF HandlerStep
<1>4. ASSUME NEW u \in Handlers, Deliver(u) PROVE Placement'
  <2>1. PICK m \in cmdQueue : /\ cmdQueue' = cmdQueue \ {m}
                              /\ unacked' = [unacked EXCEPT ![u] = @ \cup {m}]
                              /\ UNCHANGED <<published, ran, handler, current>>
    BY <1>4 DEF Deliver, callVars
  <2> QED
    BY <2>1
<1>5. ASSUME NEW x \in Handlers, Dial(x) \/ Recv(x) PROVE Placement'
  BY <1>5 DEF Dial, Recv, callVars
<1>6. CASE UNCHANGED vars
  BY <1>6 DEF vars, callVars
<1> QED
  BY <1>1, <1>2, <1>3, <1>4, <1>5, <1>6 DEF Next

(* No command that never ran is lost or held twice, whatever calls do to    *)
(* one another's connections (consumer_server.go:11-19, consume.go:98-141). *)
THEOREM NothingIsLost == Spec => []NothingLost
<1>1. Placement => NothingLost
  BY DEF Placement, NeverRan, NothingLost
<1> QED
  BY TypeInvCorrect, PlacementInit, PlacementNext, <1>1, PTL DEF Spec

-----------------------------------------------------------------------------
(* Consumers.                                                               *)

(* getConsumer runs while its call dials; without overlap only one call is  *)
(* under way, and every Consumer is the instance of its worker.             *)
TurnInv ==
  /\ \A x \in Handlers : handler[x] \in {"check", "create", "return"} => pc[x[1]] = "dial"
  /\ ~overlap =>
       /\ \A c, d \in UnderWay : c = d
       /\ \A x \in Handlers : handler[x] = "create" => instance[x[2]] = NoConsumer
       /\ \A x \in Handlers : conn[x] # "none" => instance[x[2]] = x

LEMMA TurnInit == Init => TurnInv
  BY DEF Init, TurnInv, UnderWay

LEMMA TurnNext == TypeInv /\ TurnInv /\ [Next]_vars => TurnInv'
<1> SUFFICES ASSUME TypeInv, TurnInv, [Next]_vars PROVE TurnInv'
  OBVIOUS
<1> USE HandlerParts
    DEF TurnInv, UnderWay, TypeInv, PipelineTypeOK, Reading, workerVars, historyVars,
        MoveHandler, MoveCall
<1>1. ASSUME NEW c \in Calls, CallStep(c) PROVE TurnInv'
  <2>1. CASE Start(c)
    <3>1. /\ pc[c] = "idle" /\ pc' = [pc EXCEPT ![c] = "dial"]
          /\ UNCHANGED <<handler, instance, conn>>
          /\ ~overlap' => ~overlap /\ UnderWay = {}
      BY <2>1 DEF Start
    <3>2. \A x \in Handlers :
            handler'[x] \in {"check", "create", "return"} => pc'[x[1]] = "dial"
      BY <3>1
    <3>3. ~overlap' => \A d, e \in UnderWay' : d = e
      BY <3>1
    <3> QED
      BY <3>1, <3>2, <3>3
  <2>2. CASE ConsumersReady(c)
    BY <2>2 DEF ConsumersReady
  <2>3. CASE Publish(c) \/ ReadResult(c) \/ AckResult(c)
    BY <2>3 DEF Publish, ReadResult, AckResult, callVars
  <2>4. CASE CommandsFinished(c) \/ Return(c)
    <3>1. /\ pc[c] \in {"publish", "collect"}
          /\ \/ pc' = [pc EXCEPT ![c] = "collect"]
             \/ pc' = [pc EXCEPT ![c] = "returned"]
          /\ UNCHANGED <<handler, instance, conn, overlap>>
      BY <2>4 DEF CommandsFinished, Return
    <3>2. \A d \in Calls : /\ pc'[d] = "dial" <=> pc[d] = "dial"
                           /\ d \in UnderWay' => d \in UnderWay
      BY <3>1
    <3>3. \A x \in Handlers : handler'[x] \in {"check", "create", "return"} => pc'[x[1]] = "dial"
      BY <3>1, <3>2
    <3>4. ~overlap => \A d, e \in UnderWay' : d = e
      BY <3>2
    <3> QED
      BY <3>1, <3>3, <3>4
  <2> QED
    BY <1>1, <2>1, <2>2, <2>3, <2>4 DEF CallStep
<1>2. ASSUME NEW x \in Handlers, HandlerStep(x) PROVE TurnInv'
  <2> USE DEF callVars
  <2>1. CASE Check(x)
    BY <2>1 DEF Check
  <2>2. CASE Create(x)
    <3>1. /\ handler[x] = "create"
          /\ handler' = [handler EXCEPT ![x] = "return"]
          /\ conn' = [conn EXCEPT ![x] = "open"]
          /\ instance' = [instance EXCEPT ![x[2]] = x]
          /\ UNCHANGED <<pc, overlap>>
      BY <2>2 DEF Create
    <3>2. \A y \in Handlers : handler'[y] \in {"check", "create", "return"} => pc'[y[1]] = "dial"
      BY <3>1
    <3>3. ASSUME ~overlap, NEW y \in Handlers, y # x, y[2] = x[2]
          PROVE  handler[y] # "create" /\ conn[y] = "none"
      <4>1. x[1] = y[1] => x = y
        BY <3>3
      <4>2. pc[x[1]] = "dial" /\ x[1] \in UnderWay
        BY <3>1
      <4>3. handler[y] = "create" => y[1] \in UnderWay
        BY <3>3
      <4>4. conn[y] # "none" => instance[x[2]] = y
        BY <3>3
      <4> QED
        BY <3>1, <3>3, <4>1, <4>2, <4>3, <4>4, PipelineAssumption
    <3>4. ~overlap => \A y \in Handlers : handler'[y] = "create" => instance'[y[2]] = NoConsumer
      BY <3>1, <3>3
    <3>5. ~overlap => \A y \in Handlers : conn'[y] # "none" => instance'[y[2]] = y
      BY <3>1, <3>3
    <3> QED
      BY <3>1, <3>2, <3>4, <3>5
  <2>3. CASE Consume(x)
    BY <2>3 DEF Consume
  <2>4. CASE ConsumeTagInUse(x)
    BY <2>4 DEF ConsumeTagInUse, Disconnect
  <2>5. CASE ConsumeOnClosed(x) \/ Run(x) \/ Signal(x) \/ Ack(x)
    BY <2>5 DEF ConsumeOnClosed, Run, Signal, Ack
  <2>6. CASE ContextDone(x) \/ DeliveriesClosed(x)
    BY <2>6 DEF ContextDone, DeliveriesClosed
  <2> QED
    BY <1>2, <2>1, <2>2, <2>3, <2>4, <2>5, <2>6 DEF HandlerStep
<1>3. ASSUME NEW x \in Handlers, Dial(x) \/ Recv(x) \/ Deliver(x) PROVE TurnInv'
  BY <1>3 DEF Dial, Recv, Deliver, callVars
<1>4. CASE UNCHANGED vars
  BY <1>4 DEF vars, callVars
<1> QED
  BY <1>1, <1>2, <1>3, <1>4 DEF Next

(* Without overlapping calls a worker makes one Consumer                    *)
(* (consumer_server.go:11-19).                                              *)
THEOREM OneConsumerPerWorker == Spec => []OneConsumer
<1>1. TurnInv => OneConsumer
  BY DEF TurnInv, OneConsumer
<1> QED
  BY TypeInvCorrect, TurnInit, TurnNext, <1>1, PTL DEF Spec

-----------------------------------------------------------------------------
(* Commands that run twice.                                                 *)

(* What a live connection holds is its own.  The execution of a command on  *)
(* one is the last: the command is nowhere but on that connection, until it *)
(* is acknowledged.                                                         *)
Live(u) == conn[u] # "dead"

LastRun(e) ==
  Live(using[e[2]]) =>
    /\ e[1] \notin cmdQueue
    /\ \A v \in Handlers : e[1] \in unacked[v] => v = using[e[2]]
    /\ \A v \in Handlers : Live(v) => e[1] \notin delivered[v]

Closing ==
  /\ \A x \in Handlers : handler[x] \in {"none", "check", "create"} => conn[x] = "none"
  /\ \A u \in Handlers : unacked[u] # {} => conn[u] = "subscribed"
  /\ \A u \in Handlers : Live(u) => delivered[u] \subseteq unacked[u]
  /\ \A u \in Handlers : delivered[u] \subseteq published
  /\ \A e \in ran : /\ handler[e[2]] \in {"loop", "ran", "signalled", "ended"}
                    /\ using[e[2]] \in Handlers
                    /\ e[1] \in published
  /\ \A e \in ran : LastRun(e)
  /\ TwiceOnlyWhenClosed

LEMMA ClosingInit == Init => Closing
  BY DEF Init, Closing, Live, LastRun, TwiceOnlyWhenClosed

(* Nothing that Closing speaks of, but where the calls are.                 *)
LEMMA ClosingKept ==
  ASSUME Closing, UNCHANGED <<conn, using, ran, cmdQueue, unacked, delivered, published>>,
         \A x \in Handlers :
           /\ handler'[x] \in {"none", "check", "create"} =>
                handler[x] \in {"none", "check", "create"}
           /\ handler[x] \in {"loop", "ran", "signalled", "ended"} =>
                handler'[x] \in {"loop", "ran", "signalled", "ended"},
         ran \subseteq Executions
  PROVE  Closing'
<1> USE DEF Closing, Live, LastRun
<1>1. TwiceOnlyWhenClosed'
  BY DEF TwiceOnlyWhenClosed
<1>2. \A e \in ran : e[2] \in Handlers
  BY DEF Executions
<1> QED
  BY <1>1, <1>2

LEMMA ClosingPublish ==
  ASSUME TypeInv, Closing, NEW c \in Calls, Publish(c)
  PROVE  Closing'
<1> USE DEF Closing, Live, LastRun
<1>1. PICK m \in CmdsOf(c) \ published : /\ published' = published \cup {m}
                                         /\ cmdQueue' = cmdQueue \cup {m}
  BY DEF Publish
<1>2. UNCHANGED <<handler, conn, using, ran, unacked, delivered>>
  BY DEF Publish, workerVars
<1>3. TwiceOnlyWhenClosed'
  BY <1>2 DEF TwiceOnlyWhenClosed
<1>4. \A e \in ran : LastRun(e)'
  BY <1>1, <1>2
<1> QED
  BY <1>1, <1>2, <1>3, <1>4

LEMMA ClosingDeliver ==
  ASSUME TypeInv, Placement, Closing, NEW u \in Handlers, Deliver(u)
  PROVE  Closing'
<1> USE DEF Closing, Live, LastRun
<1>1. PICK m \in cmdQueue : /\ cmdQueue' = cmdQueue \ {m}
                            /\ unacked' = [unacked EXCEPT ![u] = @ \cup {m}]
                            /\ delivered' = [delivered EXCEPT ![u] = @ \cup {m}]
  BY DEF Deliver
<1>2. /\ conn[u] = "subscribed" /\ m \in published
      /\ UNCHANGED <<handler, conn, using, ran, published>>
  BY <1>1 DEF Deliver, workerVars, callVars, Placement
<1>3. unacked \in [Handlers -> SUBSET Cmds] /\ delivered \in [Handlers -> SUBSET Cmds]
  BY DEF TypeInv, PipelineTypeOK
<1>4. \A v \in Handlers : /\ unacked'[v] # {} => conn[v] = "subscribed"
                          /\ Live(v) => delivered'[v] \subseteq unacked'[v]
                          /\ delivered'[v] \subseteq published
  BY <1>1, <1>2, <1>3
<1>5. TwiceOnlyWhenClosed'
  BY <1>2 DEF TwiceOnlyWhenClosed
<1>6. ASSUME NEW e \in ran, Live(using[e[2]]) PROVE LastRun(e)'
  <2>1. e[1] # m /\ LastRun(e)
    BY <1>1, <1>6
  <2>2. \A v \in Handlers : /\ e[1] \in unacked'[v] => e[1] \in unacked[v]
                            /\ e[1] \in delivered'[v] => e[1] \in delivered[v]
    BY <1>1, <1>3, <2>1
  <2> QED
    BY <1>1, <1>2, <2>1, <2>2
<1> QED
  BY <1>2, <1>4, <1>5, <1>6

LEMMA ClosingTagInUse ==
  ASSUME TypeInv, Placement, Closing, NEW x \in Handlers, ConsumeTagInUse(x)
  PROVE  Closing'
<1> USE DEF Closing, Live, LastRun
<1> DEFINE u == instance[x[2]]
<1>1. /\ handler[x] = "return" /\ handler' = [handler EXCEPT ![x] = "ended"]
      /\ conn[u] = "subscribed" /\ conn' = [conn EXCEPT ![u] = "dead"]
      /\ cmdQueue' = cmdQueue \cup unacked[u]
      /\ unacked' = [unacked EXCEPT ![u] = {}]
      /\ UNCHANGED <<using, ran, delivered, published>>
  BY DEF ConsumeTagInUse, MoveHandler, Disconnect, callVars
<1>2. u \in Handlers
  BY <1>1 DEF TypeInv, Reading
<1>3. /\ unacked \in [Handlers -> SUBSET Cmds] /\ handler \in [Handlers -> HandlerStates]
      /\ conn \in [Handlers -> {"none", "open", "subscribed", "dead"}]
      /\ ran \subseteq Cmds \X Handlers
  BY DEF TypeInv, PipelineTypeOK, Executions
<1> HIDE DEF u
<1>4. \A v \in Handlers : /\ Live(v)' => v # u /\ Live(v)
                          /\ unacked'[v] \subseteq unacked[v]
                          /\ v # u => conn'[v] = conn[v] /\ unacked'[v] = unacked[v]
  BY <1>1, <1>2, <1>3
<1>5. \A y \in Handlers : handler'[y] \in {"none", "check", "create"} => conn'[y] = "none"
  BY <1>1, <1>2, <1>3
<1>6. \A v \in Handlers : unacked'[v] # {} => conn'[v] = "subscribed"
  BY <1>1, <1>2, <1>3
<1>7. \A e \in ran : handler'[e[2]] \in {"loop", "ran", "signalled", "ended"}
  BY <1>1, <1>3
<1>8. TwiceOnlyWhenClosed'
  <2>1. \A v \in Handlers : conn[v] = "dead" => conn'[v] = "dead"
    BY <1>1, <1>2, <1>3
  <2> QED
    BY <1>1, <2>1 DEF TwiceOnlyWhenClosed
<1>9. ASSUME NEW e \in ran, Live(using[e[2]])' PROVE LastRun(e)'
  <2>1. using[e[2]] \in Handlers /\ using[e[2]] # u /\ Live(using[e[2]])
    BY <1>1, <1>4, <1>9
  <2>2. e[1] \notin cmdQueue /\ e[1] \notin unacked[u]
    BY <1>2, <2>1
  <2> QED
    BY <1>1, <1>4, <2>1, <2>2
<1> QED
  BY <1>1, <1>4, <1>5, <1>6, <1>7, <1>8, <1>9

LEMMA ClosingRun ==
  ASSUME TypeInv, Placement, Closing, NEW x \in Handlers, Run(x)
  PROVE  Closing'
<1> USE DEF Closing, Live, LastRun
<1>1. PICK m \in delivered[using[x]] :
        /\ delivered' = [delivered EXCEPT ![using[x]] = @ \ {m}]
        /\ ran' = ran \cup {<<m, x>>}
  BY DEF Run
<1>2. /\ handler[x] = "loop" /\ handler' = [handler EXCEPT ![x] = "ran"]
      /\ using[x] \in Handlers
      /\ UNCHANGED <<conn, using, cmdQueue, unacked, published>>
  BY DEF Run, MoveHandler, callVars, TypeInv, Reading
<1>3. /\ delivered \in [Handlers -> SUBSET Cmds] /\ handler \in [Handlers -> HandlerStates]
      /\ ran \subseteq Cmds \X Handlers
  BY DEF TypeInv, PipelineTypeOK, Executions
<1>4. /\ \A v \in Handlers : delivered'[v] \subseteq delivered[v]
      /\ m \notin delivered'[using[x]] /\ m \in published
  BY <1>1, <1>2, <1>3
<1>5. \A y \in Handlers : handler'[y] \in {"none", "check", "create"} => conn[y] = "none"
  BY <1>2, <1>3
<1>6. \A e \in ran' : /\ handler'[e[2]] \in {"loop", "ran", "signalled", "ended"}
                      /\ using[e[2]] \in Handlers
                      /\ e[1] \in published
  BY <1>1, <1>2, <1>3, <1>4
<1>7. \A e \in ran : LastRun(e)'
  BY <1>2, <1>4
<1>8. LastRun(<<m, x>>)'
  <2> SUFFICES ASSUME Live(using[x]) PROVE LastRun(<<m, x>>)'
    BY <1>2
  <2>1. m \in unacked[using[x]]
    BY <1>2
  <2>2. m \notin cmdQueue /\ \A v \in Handlers : m \in unacked[v] => v = using[x]
    BY <1>2, <2>1 DEF Placement
  <2>3. \A v \in Handlers : Live(v) => m \notin delivered'[v]
    BY <1>4, <2>2
  <2> QED
    BY <1>2, <2>2, <2>3
<1>9. TwiceOnlyWhenClosed'
  <2>1. \A e \in ran : e[1] = m => ~ Live(using[x]) \/ ~ Live(using[e[2]])
    BY <1>2
  <2> QED
    BY <1>1, <1>2, <2>1 DEF TwiceOnlyWhenClosed
<1> QED
  BY <1>1, <1>2, <1>4, <1>5, <1>6, <1>7, <1>8, <1>9

LEMMA ClosingAck ==
  ASSUME TypeInv, Placement, Closing, NEW x \in Handlers, Ack(x)
  PROVE  Closing'
<1> USE DEF Closing, Live, LastRun
<1> DEFINE m == current[x]
<1>1. /\ handler[x] = "signalled" /\ handler' = [handler EXCEPT ![x] = "loop"]
      /\ using[x] \in Handlers /\ <<m, x>> \in ran
      /\ unacked' = [unacked EXCEPT ![using[x]] = @ \ {m}]
      /\ UNCHANGED <<conn, using, ran, cmdQueue, delivered, published>>
  BY DEF Ack, MoveHandler, callVars, TypeInv, Reading, Placement
<1>2. /\ unacked \in [Handlers -> SUBSET Cmds] /\ handler \in [Handlers -> HandlerStates]
      /\ ran \subseteq Cmds \X Handlers
  BY DEF TypeInv, PipelineTypeOK, Executions
<1>3. Live(using[x]) => \A v \in Handlers : Live(v) => m \notin delivered[v]
  BY <1>1
<1> HIDE DEF m
<1>4. \A v \in Handlers : unacked'[v] \subseteq unacked[v]
  BY <1>1, <1>2
<1>5. \A v \in Handlers : Live(v) => delivered[v] \subseteq unacked'[v]
  BY <1>1, <1>2, <1>3
<1>6. \A y \in Handlers : handler'[y] \in {"none", "check", "create"} => conn[y] = "none"
  BY <1>1, <1>2
<1>7. \A e \in ran : handler'[e[2]] \in {"loop", "ran", "signalled", "ended"}
  BY <1>1, <1>2
<1>8. TwiceOnlyWhenClosed'
  BY <1>1 DEF TwiceOnlyWhenClosed
<1>9. \A e \in ran : LastRun(e)'
  BY <1>1, <1>4
<1> QED
  BY <1>1, <1>4, <1>5, <1>6, <1>7, <1>8, <1>9

LEMMA ClosingGetConsumer ==
  ASSUME TypeInv, Closing, NEW x \in Handlers, Create(x) \/ Consume(x)
  PROVE  Closing'
<1> USE DEF Closing, Live, LastRun
<1>1. PICK u \in Handlers :
        /\ conn[u] \in {"none", "open"}
        /\ conn' = [conn EXCEPT ![u] = "open"] \/ conn' = [conn EXCEPT ![u] = "subscribed"]
        /\ u = x \/ conn[u] = "open"
  <2>1. CASE Create(x)
    BY <2>1 DEF Create, MoveHandler
  <2>2. CASE Consume(x)
    BY <2>2 DEF Consume, MoveHandler, TypeInv, Reading
  <2> QED
    BY <2>1, <2>2
<1>2. /\ handler[x] \in {"create", "return"}
      /\ handler' = [handler EXCEPT ![x] = "return"] \/ handler' = [handler EXCEPT ![x] = "loop"]
      /\ \A y \in Handlers : y # x => using'[y] = using[y]
      /\ UNCHANGED <<ran, cmdQueue, unacked, delivered, published>>
  BY DEF Create, Consume, MoveHandler, queueVars, callVars, TypeInv, PipelineTypeOK
<1>3. /\ handler \in [Handlers -> HandlerStates] /\ ran \subseteq Cmds \X Handlers
      /\ conn \in [Handlers -> {"none", "open", "subscribed", "dead"}]
  BY DEF TypeInv, PipelineTypeOK, Executions
<1>4. \A e \in ran : /\ e[2] \in Handlers /\ e[2] # x
                     /\ using'[e[2]] = using[e[2]] /\ handler'[e[2]] = handler[e[2]]
  BY <1>2, <1>3
<1>5. \A v \in Handlers : Live(v)' <=> Live(v)
  BY <1>1, <1>3
<1>6. \A y \in Handlers : handler'[y] \in {"none", "check", "create"} => conn'[y] = "none"
  BY <1>1, <1>2, <1>3
<1>7. ASSUME NEW v \in Handlers, unacked[v] # {} PROVE conn'[v] = "subscribed"
  <2>1. conn[v] = "subscribed" /\ v # u
    BY <1>1, <1>7
  <2> QED
    BY <1>1, <1>3, <2>1
<1>8. TwiceOnlyWhenClosed'
  <2>1. \A e \in ran : conn[using[e[2]]] = "dead" => conn'[using'[e[2]]] = "dead"
    BY <1>3, <1>4, <1>5
  <2> QED
    BY <1>2, <2>1 DEF TwiceOnlyWhenClosed
<1>9. \A e \in ran : LastRun(e)'
  <2> TAKE e \in ran
  <2>1. Live(using[e[2]])' => Live(using[e[2]])
    BY <1>4, <1>5
  <2> QED
    BY <1>2, <1>4, <1>5, <2>1
<1> QED
  BY <1>2, <1>4, <1>5, <1>6, <1>7, <1>8, <1>9

LEMMA ClosingNext == TypeInv /\ Placement /\ Closing /\ [Next]_vars => Closing'
<1> SUFFICES ASSUME TypeInv, Placement, Closing, [Next]_vars PROVE Closing'
  OBVIOUS
<1>t. handler \in [Handlers -> HandlerStates] /\ ran \subseteq Executions
  BY DEF TypeInv, PipelineTypeOK
<1>1. ASSUME NEW c \in Calls, CallStep(c), ~ Publish(c) PROVE Closing'
  <2>1. UNCHANGED <<handler, conn, using, ran, cmdQueue, unacked, delivered, published>>
    BY <1>1 DEF CallStep, Start, ConsumersReady, CommandsFinished, ReadResult, AckResult,
       Return, workerVars, queueVars, callVars
  <2> QED
    BY <1>t, <2>1, ClosingKept
<1>2. ASSUME NEW x \in Handlers,
             \/ Dial(x) \/ Recv(x) \/ Check(x) \/ ConsumeOnClosed(x) \/ Signal(x)
             \/ ContextDone(x)
      PROVE  Closing'
  <2>1. UNCHANGED <<conn, using, ran, cmdQueue, unacked, delivered, published>>
    BY <1>2 DEF Dial, Recv, Check, ConsumeOnClosed, Signal, ContextDone, queueVars, callVars
  <2>2. \A y \in Handlers :
           /\ handler'[y] \in {"none", "check", "create"} =>
                handler[y] \in {"none", "check", "create"}
           /\ handler[y] \in {"loop", "ran", "signalled", "ended"} =>
                handler'[y] \in {"loop", "ran", "signalled", "ended"}
    BY <1>t, <1>2 DEF Dial, Recv, Check, ConsumeOnClosed, Signal, ContextDone, MoveHandler
  <2> QED
    BY <1>t, <2>1, <2>2, ClosingKept
<1>3. ASSUME NEW x \in Handlers, DeliveriesClosed(x) PROVE Closing'
  <2>1. /\ using[x] \in Handlers
        /\ delivered' = [delivered EXCEPT ![using[x]] = {}]
        /\ handler[x] = "loop" /\ handler' = [handler EXCEPT ![x] = "ended"]
        /\ UNCHANGED <<conn, using, ran, cmdQueue, unacked, published>>
    BY <1>3 DEF DeliveriesClosed, MoveHandler, callVars, TypeInv, Reading
  <2>2. \A v \in Handlers : delivered'[v] \subseteq delivered[v]
    BY <2>1 DEF TypeInv, PipelineTypeOK
  <2>3. /\ \A y \in Handlers : handler'[y] \in {"none", "check", "create"} => handler'[y] = handler[y]
        /\ \A e \in ran : e[2] \in Handlers
    BY <1>t, <2>1 DEF Executions
  <2>4. \A e \in ran : /\ LastRun(e)'
                       /\ handler'[e[2]] \in {"loop", "ran", "signalled", "ended"}
    BY <1>t, <2>1, <2>2, <2>3 DEF Closing, LastRun, Live
  <2>5. TwiceOnlyWhenClosed'
    BY <2>1 DEF Closing, TwiceOnlyWhenClosed
  <2> QED
    BY <2>1, <2>2, <2>3, <2>4, <2>5 DEF Closing, Live
<1>4. CASE UNCHANGED vars
  BY <1>t, <1>4, ClosingKept DEF vars, workerVars, queueVars, callVars
<1> QED
  BY <1>1, <1>2, <1>3, <1>4, ClosingPublish, ClosingDeliver, ClosingTagInUse, ClosingRun,
     ClosingAck, ClosingGetConsumer DEF Next, HandlerStep

(* A command runs in two handlers only when a connection that one of them   *)
(* reads from was closed, whatever calls share the queue and the Consumers  *)
(* (consume.go:98-141, consumer_server.go:11-19).                           *)
THEOREM TwiceTakesAClose == Spec => []TwiceOnlyWhenClosed
<1>1. Closing => TwiceOnlyWhenClosed
  BY DEF Closing
<1> QED
  BY TypeInit, TypeNext, PlacementInit, PlacementNext, ClosingInit, ClosingNext, <1>1, PTL
     DEF Spec
=============================================================================
