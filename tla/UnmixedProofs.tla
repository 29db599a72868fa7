---------------------------- MODULE UnmixedProofs ----------------------------
(***************************************************************************)
(* Proofs about Pipeline while no call meets another, or the traces of an  *)
(* earlier one: no WaitGroup goes below zero, and a call reports its own   *)
(* results.                                                                *)
(*                                                                         *)
(* The invariant has five layers: Turns, one call is under way; Places,    *)
(* what the queues and the workers hold is its own; RunOnce, no command    *)
(* runs twice; Counted, what cmdResWg counts and what is reported; and     *)
(* Owing, what wg counts.                                                  *)
(***************************************************************************)
EXTENDS PipelineProofs, FiniteSetTheorems, FunctionTheorems

-----------------------------------------------------------------------------
(* Counting.                                                                *)

LEMMA CmdParts ==
  /\ \A m \in Cmds : m[1] \in Calls /\ m \in CmdsOf(m[1])
  /\ \A c \in Calls : \A m \in CmdsOf(c) : m \in Cmds /\ m[1] = c
BY DEF Cmds, CmdsOf

LEMMA CmdsCounted ==
  ASSUME NEW c \in Calls
  PROVE  IsFiniteSet(CmdsOf(c)) /\ Cardinality(CmdsOf(c)) = NumCmds(c)
<1> DEFINE n == NumCmds(c)
           f == [i \in 1 .. n |-> <<c, i>>]
<1>1. n \in Nat
  BY PipelineAssumption
<1>2. f \in Bijection(1 .. n, CmdsOf(c))
  <2>1. \A i \in 1 .. n : f[i] \in CmdsOf(c)
    BY DEF CmdsOf
  <2>2. \A i, j \in 1 .. n : f[i] = f[j] => i = j
    OBVIOUS
  <2>3. \A m \in CmdsOf(c) : \E i \in 1 .. n : f[i] = m
    BY DEF CmdsOf
  <2> QED
    BY <2>1, <2>2, <2>3, Fun_IsBij
<1>3. ExistsBijection(1 .. n, CmdsOf(c))
  BY <1>2 DEF ExistsBijection
<1> QED
  BY <1>1, <1>3, FS_NatBijection, FS_CountingElements

(* The commands that a set of executions ran.                               *)
Seen(S) == {e[1] : e \in S}

LEMMA SeenOneMore ==
  ASSUME NEW c \in Calls, NEW S, Seen(S) \subseteq CmdsOf(c),
         NEW e, e[1] \in CmdsOf(c), e[1] \notin Seen(S)
  PROVE  /\ Cardinality(Seen(S)) \in Nat
         /\ Cardinality(Seen(S)) < NumCmds(c)
         /\ Cardinality(Seen(S \cup {e})) = Cardinality(Seen(S)) + 1
<1>1. Seen(S \cup {e}) = Seen(S) \cup {e[1]}
  BY DEF Seen
<1>2. IsFiniteSet(CmdsOf(c)) /\ Cardinality(CmdsOf(c)) = NumCmds(c)
  BY CmdsCounted
<1>3. IsFiniteSet(Seen(S)) /\ Cardinality(Seen(S)) \in Nat
  BY <1>2, FS_Subset, FS_CardinalityType
<1>4. Cardinality(Seen(S) \cup {e[1]}) = Cardinality(Seen(S)) + 1
  BY <1>3, FS_AddElement
<1>5. Seen(S) \cup {e[1]} \in SUBSET CmdsOf(c)
  OBVIOUS
<1>6. Cardinality(Seen(S) \cup {e[1]}) <= NumCmds(c)
  BY <1>2, <1>5, FS_Subset
<1>7. NumCmds(c) \in Nat
  BY PipelineAssumption
<1> QED
  BY <1>1, <1>3, <1>4, <1>6, <1>7

LEMMA SeenAll ==
  ASSUME NEW c \in Calls, NEW S, Seen(S) \subseteq CmdsOf(c),
         NumCmds(c) - Cardinality(Seen(S)) = 0
  PROVE  Seen(S) = CmdsOf(c)
<1>1. IsFiniteSet(CmdsOf(c)) /\ Cardinality(CmdsOf(c)) = NumCmds(c)
  BY CmdsCounted
<1>2. NumCmds(c) \in Nat /\ Cardinality(Seen(S)) \in Nat
  BY <1>1, FS_Subset, FS_CardinalityType, PipelineAssumption
<1> QED
  BY <1>1, <1>2, FS_Subset

-----------------------------------------------------------------------------
(* Turns.                                                                   *)

Turns ==
  /\ \A c, d \in UnderWay : c = d
  /\ \A x \in Handlers : pc[x[1]] = "idle" => handler[x] = "none"

(* A call that starts without meeting another, or what another left.        *)
LEMMA StartsAlone ==
  ASSUME NEW c \in Calls, Start(c), ~ mixed'
  PROVE  /\ UnderWay = {} /\ cmdQueue = {} /\ results = {}
         /\ \A u \in Handlers : unacked[u] = {}
BY DEF Start, Leftovers

LEMMA MixedStays == [Next]_vars /\ ~ mixed' => ~ mixed
BY DEF Next, CallStep, HandlerStep, Start, ConsumersReady, Publish, CommandsFinished,
       ReadResult, AckResult, Return, Dial, Recv, Deliver, Check, Create, Consume,
       ConsumeOnClosed, ConsumeTagInUse, Run, Signal, Ack, ContextDone,
       DeliveriesClosed, historyVars, vars

LEMMA TurnsNext ==
  ASSUME TypeInv, Turns, [Next]_vars, ~ mixed'
  PROVE  Turns'
<1> USE HandlerParts
    DEF Turns, UnderWay, TypeInv, PipelineTypeOK, workerVars, MoveCall, MoveHandler
<1>1. ASSUME NEW c \in Calls, CallStep(c) PROVE Turns'
  <2>1. CASE Start(c)
    <3>1. \A d \in Calls : pc[d] \in {"idle", "returned"}
      BY <2>1, StartsAlone
    <3>2. pc' = [pc EXCEPT ![c] = "dial"] /\ UNCHANGED handler
      BY <2>1 DEF Start
    <3> QED
      BY <3>1, <3>2
  <2>2. CASE ConsumersReady(c) \/ CommandsFinished(c) \/ Return(c)
    <3>1. /\ pc[c] \in {"dial", "publish", "collect"} /\ UNCHANGED handler
          /\ \/ pc' = [pc EXCEPT ![c] = "publish"]
             \/ pc' = [pc EXCEPT ![c] = "collect"]
             \/ pc' = [pc EXCEPT ![c] = "returned"]
      BY <2>2 DEF ConsumersReady, CommandsFinished, Return
    <3>2. \A d \in Calls : /\ d \in UnderWay' => d \in UnderWay
                           /\ pc'[d] = "idle" => pc[d] = "idle"
      BY <3>1
    <3> QED
      BY <3>1, <3>2
  <2>3. CASE Publish(c) \/ ReadResult(c) \/ AckResult(c)
    BY <2>3 DEF Publish, ReadResult, AckResult, callVars
  <2> QED
    BY <1>1, <2>1, <2>2, <2>3 DEF CallStep
<1>2. ASSUME NEW x \in Handlers, HandlerStep(x) \/ Dial(x) PROVE Turns'
  <2>1. /\ UNCHANGED pc
        /\ handler[x] # "none" \/ pc[x[1]] = "dial"
        /\ \A y \in Handlers : y # x => handler'[y] = handler[y]
    BY <1>2 DEF HandlerStep, Dial, Check, Create, Consume, ConsumeOnClosed, ConsumeTagInUse,
                Run, Signal, Ack, ContextDone, DeliveriesClosed, callVars
  <2> QED
    BY <2>1
<1>3. ASSUME NEW x \in Handlers, Recv(x) \/ Deliver(x) PROVE Turns'
  BY <1>3 DEF Recv, Deliver, callVars
<1>4. CASE UNCHANGED vars
  BY <1>4 DEF vars, callVars
<1> QED
  BY <1>1, <1>2, <1>3, <1>4 DEF Next

-----------------------------------------------------------------------------
(* Places.                                                                  *)

Busy(x) == handler[x] \in {"ran", "signalled"}

(* A call finds nothing of another's, and what a worker has not started is  *)
(* still the broker's to give back.                                         *)
Places ==
  /\ \A m \in published : pc[m[1]] \notin {"idle", "dial"}
  /\ \A c \in UnderWay :
       /\ \A m \in cmdQueue : m[1] = c
       /\ \A u \in Handlers : \A m \in unacked[u] : m[1] = c
       /\ \A e \in results : e[1][1] = c
  /\ \A u \in Handlers : delivered[u] \subseteq unacked[u]
  /\ \A x \in Handlers : Busy(x) => current[x] \in unacked[using[x]]

RunOnce ==
  /\ \A m \in cmdQueue : NeverRan(m)
  /\ \A u \in Handlers : \A m \in delivered[u] : NeverRan(m)
  /\ \A e, f \in ran : e[1] = f[1] => e = f
  /\ \A e \in ran : e[1] \in published

(* A handler that is refused its tag closes a connection that holds nothing.*)
LEMMA TagInUseHarmless ==
  ASSUME TypeInv, Placement, TurnInv, Turns, Places,
         NEW x \in Handlers, ConsumeTagInUse(x)
  PROVE  UNCHANGED <<cmdQueue, unacked>>
<1> DEFINE u == instance[x[2]]
<1>1. /\ handler[x] = "return"
      /\ cmdQueue' = cmdQueue \cup unacked[u]
      /\ unacked' = [unacked EXCEPT ![u] = {}]
  BY DEF ConsumeTagInUse, MoveHandler, Disconnect
<1>2. u \in Handlers
  BY <1>1 DEF TypeInv, Reading
<1>3. pc[x[1]] = "dial" /\ x[1] \in UnderWay
  BY <1>1, HandlerParts DEF TurnInv, UnderWay
<1>4. unacked[u] = {}
  <2> SUFFICES ASSUME NEW m \in unacked[u] PROVE FALSE
    OBVIOUS
  <2>1. m[1] = x[1]
    BY <1>2, <1>3 DEF Places
  <2>2. m \in published
    BY <1>2 DEF Placement
  <2> QED
    BY <1>3, <2>1, <2>2 DEF Places
<1>5. unacked \in [Handlers -> SUBSET Cmds]
  BY DEF TypeInv, PipelineTypeOK
<1> HIDE DEF u
<1> QED
  BY <1>1, <1>2, <1>4, <1>5

LEMMA PlacesCall ==
  ASSUME TypeInv, Turns, Places, NEW c \in Calls, CallStep(c), ~ mixed'
  PROVE  Places'
<1> USE DEF Places, Busy, UnderWay, workerVars, queueVars, MoveCall
<1>t. /\ pc \in [Calls -> PCs] /\ published \subseteq Cmds
      /\ \A d, e \in UnderWay : d = e
  BY DEF TypeInv, PipelineTypeOK, Turns
<1>1. CASE Start(c)
  <2>1. /\ pc[c] = "idle" /\ pc' = [pc EXCEPT ![c] = "dial"]
        /\ UNCHANGED <<published, cmdQueue, unacked, results, delivered, handler, current, using>>
    BY <1>1 DEF Start, resultVars
  <2>2. cmdQueue = {} /\ results = {} /\ \A u \in Handlers : unacked[u] = {}
    BY <1>1, StartsAlone
  <2>3. \A m \in published : pc'[m[1]] \notin {"idle", "dial"}
    BY <1>t, <2>1, CmdParts
  <2> QED
    BY <2>1, <2>2, <2>3
<1>2. CASE ConsumersReady(c) \/ CommandsFinished(c)
  <2>1. /\ c \in UnderWay
        /\ pc' = [pc EXCEPT ![c] = "publish"] \/ pc' = [pc EXCEPT ![c] = "collect"]
        /\ UNCHANGED <<published, cmdQueue, unacked, results, delivered, handler, current, using>>
    BY <1>2 DEF ConsumersReady, CommandsFinished, resultVars
  <2>2. UnderWay' = UnderWay
    BY <1>t, <2>1
  <2>3. \A m \in published : pc'[m[1]] \notin {"idle", "dial"}
    BY <1>t, <2>1, CmdParts
  <2> HIDE DEF UnderWay
  <2> QED
    BY <2>1, <2>2, <2>3
<1>3. CASE Return(c)
  <2>1. /\ c \in UnderWay
        /\ pc' = [pc EXCEPT ![c] = "returned"]
        /\ UNCHANGED <<published, cmdQueue, unacked, delivered, handler, current, using>>
    BY <1>3 DEF Return
  <2>2. UnderWay' = {}
    BY <1>t, <2>1
  <2>3. \A m \in published : pc'[m[1]] \notin {"idle", "dial"}
    BY <1>t, <2>1, CmdParts
  <2> HIDE DEF UnderWay
  <2> QED
    BY <2>1, <2>2, <2>3
<1>4. CASE Publish(c)
  <2>1. PICK m \in CmdsOf(c) \ published : /\ published' = published \cup {m}
                                           /\ cmdQueue' = cmdQueue \cup {m}
    BY <1>4 DEF Publish
  <2>2. pc[c] = "publish" /\ m[1] = c
    BY <1>4, CmdParts DEF Publish
  <2>3. UNCHANGED <<pc, unacked, results, delivered, handler, current, using>>
    BY <1>4 DEF Publish, resultVars
  <2> QED
    BY <1>t, <2>1, <2>2, <2>3
<1>5. CASE ReadResult(c) \/ AckResult(c)
  BY <1>5 DEF ReadResult, AckResult, callVars
<1> QED
  BY <1>1, <1>2, <1>3, <1>4, <1>5 DEF CallStep

LEMMA PlacesHandler ==
  ASSUME TypeInv, Placement, TurnInv, Turns, Places, RunOnce,
         NEW x \in Handlers, HandlerStep(x) \/ Deliver(x)
  PROVE  Places'
<1> USE DEF Places, Busy, UnderWay, TypeInv, PipelineTypeOK, Reading, queueVars, callVars,
            MoveHandler
<1>1. CASE Check(x) \/ Create(x) \/ Consume(x) \/ ConsumeOnClosed(x) \/ ContextDone(x)
  BY <1>1 DEF Check, Create, Consume, ConsumeOnClosed, ContextDone, resultVars
<1>2. CASE ConsumeTagInUse(x)
  <2>1. /\ UNCHANGED <<pc, published, cmdQueue, unacked, results, delivered, current, using>>
        /\ handler' = [handler EXCEPT ![x] = "ended"]
    BY <1>2, TagInUseHarmless DEF ConsumeTagInUse, resultVars
  <2> QED
    BY <2>1
<1>3. CASE Run(x)
  <2>1. PICK m \in delivered[using[x]] :
          /\ delivered' = [delivered EXCEPT ![using[x]] = @ \ {m}]
          /\ current' = [current EXCEPT ![x] = m]
          /\ results' = results \cup {<<m, x>>}
    BY <1>3 DEF Run
  <2>2. /\ using[x] \in Handlers /\ m \in unacked[using[x]]
        /\ handler' = [handler EXCEPT ![x] = "ran"]
        /\ UNCHANGED <<pc, published, cmdQueue, unacked, using>>
    BY <1>3, <2>1 DEF Run
  <2> QED
    BY <2>1, <2>2
<1>4. CASE Signal(x)
  BY <1>4 DEF Signal, resultVars
<1>5. CASE Ack(x)
  <2>1. /\ using[x] \in Handlers /\ Busy(x)
        /\ handler' = [handler EXCEPT ![x] = "loop"]
        /\ unacked' = [unacked EXCEPT ![using[x]] = @ \ {current[x]}]
        /\ current' = [current EXCEPT ![x] = NoCmd]
        /\ UNCHANGED <<pc, published, cmdQueue, results, delivered, using>>
    BY <1>5 DEF Ack, resultVars
  <2>2. <<current[x], x>> \in ran
    BY <2>1 DEF Placement
  <2>3. current[x] \notin delivered[using[x]]
    BY <2>1, <2>2 DEF RunOnce, NeverRan
  <2>4. \A y \in Handlers : y # x /\ Busy(y) => current[y] # current[x]
    <3> TAKE y \in Handlers
    <3>1. Busy(y) => <<current[y], y>> \in ran
      BY DEF Placement
    <3> QED
      BY <2>2, <3>1 DEF RunOnce
  <2> QED
    BY <2>1, <2>3, <2>4
<1>6. CASE DeliveriesClosed(x)
  BY <1>6 DEF DeliveriesClosed, resultVars
<1>7. CASE Deliver(x)
  <2>1. PICK m \in cmdQueue : /\ cmdQueue' = cmdQueue \ {m}
                              /\ unacked' = [unacked EXCEPT ![x] = @ \cup {m}]
                              /\ delivered' = [delivered EXCEPT ![x] = @ \cup {m}]
    BY <1>7 DEF Deliver
  <2>2. UNCHANGED <<pc, published, results, handler, current, using>>
    BY <1>7 DEF Deliver, workerVars, resultVars
  <2> QED
    BY <2>1, <2>2
<1> QED
  BY <1>1, <1>2, <1>3, <1>4, <1>5, <1>6, <1>7 DEF HandlerStep

LEMMA PlacesNext ==
  ASSUME TypeInv, Placement, TurnInv, Turns, Places, RunOnce, [Next]_vars, ~ mixed'
  PROVE  Places'
<1>1. ASSUME NEW x \in Handlers, Dial(x) \/ Recv(x) PROVE Places'
  BY <1>1 DEF Places, Busy, UnderWay, TypeInv, PipelineTypeOK, Dial, Recv, queueVars,
              resultVars, callVars
<1>2. CASE UNCHANGED vars
  BY <1>2 DEF Places, Busy, UnderWay, vars, workerVars, queueVars, resultVars, callVars
<1> QED
  BY <1>1, <1>2, PlacesCall, PlacesHandler DEF Next

-----------------------------------------------------------------------------
(* RunOnce.                                                                 *)

LEMMA RunOnceCall ==
  ASSUME TypeInv, Placement, RunOnce, NEW c \in Calls, CallStep(c)
  PROVE  RunOnce'
<1> USE DEF RunOnce, NeverRan
<1>1. CASE Publish(c)
  <2>1. PICK m \in CmdsOf(c) \ published : /\ published' = published \cup {m}
                                           /\ cmdQueue' = cmdQueue \cup {m}
    BY <1>1 DEF Publish
  <2>2. UNCHANGED <<delivered, ran>>
    BY <1>1 DEF Publish, workerVars
  <2>3. NeverRan(m)
    BY <2>1
  <2> QED
    BY <2>1, <2>2, <2>3
<1>2. CASE ~ Publish(c)
  <2>1. UNCHANGED <<cmdQueue, delivered, published, ran>>
    BY <1>2 DEF CallStep, Start, ConsumersReady, CommandsFinished, ReadResult, AckResult,
                Return, workerVars, queueVars, callVars
  <2> QED
    BY <2>1
<1> QED
  BY <1>1, <1>2

LEMMA RunOnceHandler ==
  ASSUME TypeInv, Placement, TurnInv, Turns, Places, RunOnce,
         NEW x \in Handlers, HandlerStep(x) \/ Deliver(x)
  PROVE  RunOnce'
<1> USE DEF RunOnce, NeverRan, TypeInv, PipelineTypeOK, Reading, queueVars, callVars,
            MoveHandler
<1>1. CASE Check(x) \/ Create(x) \/ Consume(x) \/ ConsumeOnClosed(x) \/ ContextDone(x)
  BY <1>1 DEF Check, Create, Consume, ConsumeOnClosed, ContextDone
<1>2. CASE ConsumeTagInUse(x)
  BY <1>2, TagInUseHarmless DEF ConsumeTagInUse
<1>3. CASE Run(x)
  <2>1. PICK m \in delivered[using[x]] :
          /\ delivered' = [delivered EXCEPT ![using[x]] = @ \ {m}]
          /\ ran' = ran \cup {<<m, x>>}
    BY <1>3 DEF Run
  <2>2. using[x] \in Handlers /\ UNCHANGED <<cmdQueue, published>>
    BY <1>3 DEF Run
  <2>3. m \in unacked[using[x]] /\ NeverRan(m)
    BY <2>2 DEF Places
  <2>4. m \in published /\ m \notin cmdQueue
    BY <2>2, <2>3 DEF Placement
  <2>5. \A u \in Handlers : m \notin delivered'[u]
    BY <2>1, <2>2, <2>3 DEF Places, Placement
  <2>6. \A k \in Cmds : k # m /\ NeverRan(k) => NeverRan(k)'
    BY <2>1
  <2>7. \A u \in Handlers : \A k \in delivered'[u] : NeverRan(k)'
    <3> TAKE u \in Handlers
    <3>1. delivered'[u] \subseteq delivered[u] /\ delivered[u] \subseteq Cmds
      BY <2>1, <2>2
    <3>2. \A k \in delivered[u] : NeverRan(k)
      OBVIOUS
    <3> HIDE DEF NeverRan, RunOnce
    <3> QED
      BY <2>5, <2>6, <3>1, <3>2
  <2>8. \A e \in ran : e[1] # m
    <3>1. \A e \in ran : e = <<e[1], e[2]>> /\ e[2] \in Handlers
      BY DEF Executions
    <3> QED
      BY <2>3, <3>1
  <2>9. \A e, f \in ran' : e[1] = f[1] => e = f
    BY <2>1, <2>8
  <2>10. \A k \in cmdQueue' : NeverRan(k)'
    BY <2>2, <2>4, <2>6
  <2>11. \A e \in ran' : e[1] \in published'
    BY <2>1, <2>2, <2>4
  <2> QED
    BY <2>7, <2>9, <2>10, <2>11
<1>4. CASE Signal(x) \/ Ack(x)
  BY <1>4 DEF Signal, Ack
<1>5. CASE DeliveriesClosed(x)
  BY <1>5 DEF DeliveriesClosed
<1>6. CASE Deliver(x)
  BY <1>6 DEF Deliver, workerVars
<1> QED
  BY <1>1, <1>2, <1>3, <1>4, <1>5, <1>6 DEF HandlerStep

LEMMA RunOnceNext ==
  ASSUME TypeInv, Placement, TurnInv, Turns, Places, RunOnce, [Next]_vars
  PROVE  RunOnce'
<1>1. ASSUME NEW x \in Handlers, Dial(x) \/ Recv(x) PROVE RunOnce'
  BY <1>1 DEF RunOnce, NeverRan, Dial, Recv, queueVars, callVars
<1>2. CASE UNCHANGED vars
  BY <1>2 DEF RunOnce, NeverRan, vars, workerVars, queueVars, callVars
<1> QED
  BY <1>1, <1>2, RunOnceCall, RunOnceHandler DEF Next

-----------------------------------------------------------------------------
(* Counted.                                                                 *)

(* What cmdResWg has counted down of a call's commands is what the call has *)
(* read, and a result that is still queued is one it has not read.          *)
Counted ==
  /\ results \subseteq ran
  /\ \A c \in Calls :
       /\ acking[c] \subseteq report[c]
       /\ report[c] \subseteq ran
       /\ Seen(report[c]) \subseteq CmdsOf(c)
       /\ cmdRes[c] = NumCmds(c) - Cardinality(Seen(report[c]))
       /\ pc[c] = "returned" => Seen(report[c]) = CmdsOf(c)
  /\ \A c \in UnderWay : results \cap report[c] = {}

LEMMA QueuedResultIsNew ==
  ASSUME TypeInv, Places, RunOnce, Counted, NEW c \in UnderWay, NEW e \in results
  PROVE  /\ e[1] \in CmdsOf(c)
         /\ e[1] \notin Seen(report[c])
         /\ cmdRes[c] \in Nat \ {0}
         /\ cmdRes[c] - 1 = NumCmds(c) - Cardinality(Seen(report[c] \cup {e}))
<1>1. c \in Calls /\ e \in Executions
  BY DEF UnderWay, TypeInv, PipelineTypeOK
<1>2. e[1] \in Cmds /\ e[1][1] = c
  BY <1>1 DEF Places, Executions
<1>3. e[1] \in CmdsOf(c)
  BY <1>2, CmdParts
<1>4. e[1] \notin Seen(report[c])
  <2> SUFFICES ASSUME NEW f \in report[c], f[1] = e[1] PROVE FALSE
    BY DEF Seen
  <2>1. f \in ran /\ e \in ran /\ f \notin results
    BY <1>1 DEF Counted
  <2> QED
    BY <2>1 DEF RunOnce
<1>5. /\ Seen(report[c]) \subseteq CmdsOf(c)
      /\ cmdRes[c] = NumCmds(c) - Cardinality(Seen(report[c]))
  BY <1>1 DEF Counted
<1>6. /\ Cardinality(Seen(report[c])) \in Nat
      /\ Cardinality(Seen(report[c])) < NumCmds(c)
      /\ Cardinality(Seen(report[c] \cup {e})) = Cardinality(Seen(report[c])) + 1
  BY <1>1, <1>3, <1>4, <1>5, SeenOneMore
<1>7. NumCmds(c) \in Nat
  BY <1>1, PipelineAssumption
<1> QED
  BY <1>3, <1>4, <1>5, <1>6, <1>7

LEMMA CountedCall ==
  ASSUME TypeInv, Turns, Places, RunOnce, Counted, NEW c \in Calls, CallStep(c), ~ mixed'
  PROVE  Counted'
<1> USE DEF Counted, UnderWay, MoveCall
<1>t. /\ pc \in [Calls -> PCs]
      /\ acking \in [Calls -> SUBSET Executions]
      /\ report \in [Calls -> SUBSET Executions]
      /\ cmdRes \in [Calls -> Nat]
      /\ \A d, e \in UnderWay : d = e
  BY DEF TypeInv, PipelineTypeOK, Turns
<1>1. CASE Start(c)
  <2>1. /\ pc' = [pc EXCEPT ![c] = "dial"]
        /\ UNCHANGED <<ran, results, acking, report, cmdRes>>
    BY <1>1 DEF Start, workerVars, resultVars
  <2>2. results = {}
    BY <1>1, StartsAlone
  <2> QED
    BY <1>t, <2>1, <2>2
<1>2. CASE ConsumersReady(c) \/ CommandsFinished(c)
  <2>1. /\ pc[c] \in {"dial", "publish"}
        /\ pc' = [pc EXCEPT ![c] = "publish"] \/ pc' = [pc EXCEPT ![c] = "collect"]
        /\ UNCHANGED <<ran, results, acking, report, cmdRes>>
    BY <1>2 DEF ConsumersReady, CommandsFinished, workerVars, resultVars
  <2>2. \A d \in Calls : /\ d \in UnderWay' <=> d \in UnderWay
                         /\ pc'[d] = "returned" <=> pc[d] = "returned"
    BY <1>t, <2>1
  <2> HIDE DEF UnderWay
  <2>3. UnderWay' \subseteq Calls /\ UnderWay \subseteq Calls
    BY DEF UnderWay
  <2> QED
    BY <2>1, <2>2, <2>3
<1>3. CASE Return(c)
  <2>1. /\ c \in UnderWay /\ cmdRes[c] = 0
        /\ pc' = [pc EXCEPT ![c] = "returned"]
        /\ results' = results \cup acking[c]
        /\ acking' = [acking EXCEPT ![c] = {}]
        /\ UNCHANGED <<ran, report, cmdRes>>
    BY <1>3 DEF Return, workerVars
  <2>2. UnderWay' = {}
    BY <1>t, <2>1
  <2>3. Seen(report[c]) = CmdsOf(c)
    BY <2>1, SeenAll
  <2>4. results' \subseteq ran'
    BY <2>1
  <2>5. \A d \in Calls : pc'[d] = "returned" => Seen(report[d]) = CmdsOf(d)
    BY <1>t, <2>1, <2>3
  <2>6. \A d \in Calls : acking'[d] \subseteq report'[d]
    BY <1>t, <2>1
  <2> HIDE DEF UnderWay
  <2> QED
    BY <2>1, <2>2, <2>4, <2>5, <2>6
<1>4. CASE ReadResult(c)
  <2>1. PICK e \in results : /\ results' = results \ {e}
                             /\ acking' = [acking EXCEPT ![c] = @ \cup {e}]
                             /\ report' = [report EXCEPT ![c] = @ \cup {e}]
    BY <1>4 DEF ReadResult
  <2>2. pc[c] = "collect" /\ c \in UnderWay /\ UNCHANGED <<pc, ran>>
    BY <1>4 DEF ReadResult, workerVars
  <2>3. /\ e[1] \in CmdsOf(c)
        /\ cmdRes[c] \in Nat \ {0}
        /\ cmdRes[c] - 1 = NumCmds(c) - Cardinality(Seen(report[c] \cup {e}))
    BY <2>2, QueuedResultIsNew
  <2>4. cmdRes' = [cmdRes EXCEPT ![c] = @ - 1]
    BY <1>4, <2>3 DEF ReadResult
  <2>5. Seen(report[c] \cup {e}) \subseteq CmdsOf(c)
    BY <2>3 DEF Seen
  <2>6. /\ report'[c] = report[c] \cup {e}
        /\ acking'[c] = acking[c] \cup {e}
        /\ cmdRes'[c] = cmdRes[c] - 1
        /\ \A d \in Calls : d # c => /\ report'[d] = report[d]
                                     /\ acking'[d] = acking[d]
                                     /\ cmdRes'[d] = cmdRes[d]
    BY <1>t, <2>1, <2>4
  <2>7. \A d \in UnderWay' : d = c
    BY <1>t, <2>2
  <2>8. \A d \in UnderWay' : results' \cap report'[d] = {}
    BY <2>1, <2>2, <2>6, <2>7
  <2>9. results' \subseteq ran' /\ e \in ran'
    BY <2>1, <2>2
  <2>10. ASSUME NEW d \in Calls
         PROVE  /\ acking'[d] \subseteq report'[d]
                /\ report'[d] \subseteq ran'
                /\ Seen(report'[d]) \subseteq CmdsOf(d)
                /\ cmdRes'[d] = NumCmds(d) - Cardinality(Seen(report'[d]))
                /\ pc'[d] = "returned" => Seen(report'[d]) = CmdsOf(d)
    <3>1. CASE d = c
      BY <2>2, <2>3, <2>5, <2>6, <2>9, <3>1
    <3>2. CASE d # c
      BY <2>2, <2>6, <3>2
    <3> QED
      BY <3>1, <3>2
  <2> HIDE DEF UnderWay
  <2> QED
    BY <2>8, <2>9, <2>10
<1>5. CASE AckResult(c)
  BY <1>t, <1>5 DEF AckResult, workerVars, callVars
<1>6. CASE Publish(c)
  BY <1>6 DEF Publish, workerVars, resultVars
<1> QED
  BY <1>1, <1>2, <1>3, <1>4, <1>5, <1>6 DEF CallStep

LEMMA CountedNext ==
  ASSUME TypeInv, Turns, Places, RunOnce, Counted, [Next]_vars, ~ mixed'
  PROVE  Counted'
<1> USE DEF Counted, UnderWay, resultVars, callVars
<1>1. ASSUME NEW x \in Handlers, HandlerStep(x) PROVE Counted'
  <2>1. CASE Run(x)
    <3>1. PICK m \in delivered[using[x]] : /\ ran' = ran \cup {<<m, x>>}
                                           /\ results' = results \cup {<<m, x>>}
      BY <2>1 DEF Run
    <3>2. using[x] \in Handlers /\ UNCHANGED <<pc, acking, report, cmdRes>>
      BY <2>1 DEF Run, MoveHandler, TypeInv, Reading
    <3>3. <<m, x>> \notin ran
      BY <3>2 DEF RunOnce, NeverRan
    <3> QED
      BY <3>1, <3>2, <3>3
  <2>2. CASE ~ Run(x)
    <3>1. UNCHANGED <<ran, results, acking, report, cmdRes, pc>>
      BY <1>1, <2>2 DEF HandlerStep, Check, Create, Consume, ConsumeOnClosed,
         ConsumeTagInUse, Signal, Ack, ContextDone, DeliveriesClosed
    <3> QED
      BY <3>1
  <2> QED
    BY <2>1, <2>2
<1>2. ASSUME NEW x \in Handlers, Dial(x) \/ Recv(x) \/ Deliver(x) PROVE Counted'
  BY <1>2 DEF Dial, Recv, Deliver, workerVars
<1>3. CASE UNCHANGED vars
  BY <1>3 DEF vars, workerVars
<1> QED
  BY <1>1, <1>2, <1>3, CountedCall DEF Next

-----------------------------------------------------------------------------
(* Owing.                                                                   *)

(* undone[c] are the commands of c that wg still counts, told[x] those of   *)
(* the FinishedCommand messages in x's stream.                              *)
Owes(undone, told) ==
  /\ \A c \in Calls : /\ undone[c] \subseteq CmdsOf(c)
                      /\ wg[c] = Cardinality(undone[c])
  /\ \A x \in Handlers : /\ told[x] \subseteq undone[x[1]]
                         /\ sent[x] = Cardinality(told[x])
  /\ \A x, y \in Handlers : x # y => told[x] \cap told[y] = {}
  /\ \A m \in Cmds : NeverRan(m) =>
       m \in undone[m[1]] /\ \A y \in Handlers : m \notin told[y]
  /\ \A x \in Handlers : handler[x] = "ran" =>
       current[x] \in undone[current[x][1]] /\ \A y \in Handlers : current[x] \notin told[y]

Undone == [Calls -> SUBSET Cmds]
Told == [Handlers -> SUBSET Cmds]

Owing == \E undone \in Undone, told \in Told : Owes(undone, told)

LEMMA OwingInit == Init => Owing
<1> SUFFICES ASSUME Init PROVE Owing
  OBVIOUS
<1> DEFINE undone == [c \in Calls |-> CmdsOf(c)]
           told == [x \in Handlers |-> {}]
<1>1. \A c \in Calls : CmdsOf(c) \subseteq Cmds /\ wg[c] = Cardinality(CmdsOf(c))
  BY CmdsCounted, CmdParts DEF Init
<1>2. undone \in Undone /\ told \in Told
  BY <1>1 DEF Undone, Told
<1>3. \A x \in Handlers : sent[x] = Cardinality(told[x])
  BY FS_EmptySet DEF Init
<1>4. \A m \in Cmds : m \in undone[m[1]]
  BY CmdParts
<1>5. \A x \in Handlers : handler[x] # "ran"
  BY DEF Init
<1>6. \A c \in Calls : undone[c] \subseteq CmdsOf(c) /\ wg[c] = Cardinality(undone[c])
  BY <1>1
<1>7. \A x, y \in Handlers : told[x] \subseteq undone[x[1]] /\ told[x] \cap told[y] = {}
  OBVIOUS
<1>8. \A x \in Handlers, m \in Cmds : m \notin told[x]
  OBVIOUS
<1> HIDE DEF undone, told
<1>9. Owes(undone, told)
  BY <1>3, <1>4, <1>5, <1>6, <1>7, <1>8 DEF Owes
<1> QED
  BY <1>2, <1>9 DEF Owing

LEMMA ToldIsFinite ==
  ASSUME NEW undone \in Undone, NEW told \in Told, Owes(undone, told)
  PROVE  /\ \A c \in Calls : IsFiniteSet(undone[c])
         /\ \A x \in Handlers : IsFiniteSet(told[x])
<1>1. \A c \in Calls : IsFiniteSet(undone[c])
  BY CmdsCounted, FS_Subset DEF Owes
<1> QED
  BY <1>1, HandlerParts, FS_Subset DEF Owes

(* A FinishedCommand in a stream is one that wg still counts.               *)
LEMMA RecvCounts ==
  ASSUME TypeInv, NEW undone \in Undone, NEW told \in Told, Owes(undone, told),
         NEW x \in Handlers, Recv(x)
  PROVE  \E m \in told[x] :
           /\ m \in undone[x[1]]
           /\ wg[x[1]] # 0
           /\ Cardinality(undone[x[1]] \ {m}) = wg[x[1]] - 1
           /\ Cardinality(told[x] \ {m}) = sent[x] - 1
<1>1. x[1] \in Calls /\ IsFiniteSet(told[x]) /\ IsFiniteSet(undone[x[1]])
  BY HandlerParts, ToldIsFinite
<1>2. /\ wg[x[1]] = Cardinality(undone[x[1]]) /\ sent[x] = Cardinality(told[x])
      /\ told[x] \subseteq undone[x[1]]
  BY <1>1 DEF Owes
<1>3. PICK m : m \in told[x]
  <2>1. sent[x] # 0
    BY DEF Recv
  <2>2. told[x] # {}
    BY <1>2, <2>1, FS_EmptySet
  <2> QED
    BY <2>2
<1>4. undone[x[1]] # {}
  BY <1>2, <1>3
<1>5. wg[x[1]] # 0
  BY <1>1, <1>2, <1>4, FS_EmptySet
<1>6. /\ Cardinality(undone[x[1]] \ {m}) = Cardinality(undone[x[1]]) - 1
      /\ Cardinality(told[x] \ {m}) = Cardinality(told[x]) - 1
  <2>1. m \in undone[x[1]]
    BY <1>2, <1>3
  <2> QED
    BY <1>1, <1>3, <2>1, FS_RemoveElement
<1> QED
  BY <1>2, <1>3, <1>5, <1>6

LEMMA OwingRecv ==
  ASSUME TypeInv, Placement, Owing, NEW x \in Handlers, Recv(x)
  PROVE  Owing' /\ UNCHANGED panic
<1>1. PICK undone \in Undone, told \in Told : Owes(undone, told)
  BY DEF Owing
<1>2. PICK m \in told[x] : /\ m \in undone[x[1]]
                           /\ wg[x[1]] # 0
                           /\ Cardinality(undone[x[1]] \ {m}) = wg[x[1]] - 1
                           /\ Cardinality(told[x] \ {m}) = sent[x] - 1
  BY <1>1, RecvCounts
<1>3. /\ wg' = [wg EXCEPT ![x[1]] = @ - 1] /\ UNCHANGED panic
      /\ sent' = [sent EXCEPT ![x] = @ - 1]
      /\ UNCHANGED <<handler, current, ran>>
  BY <1>2 DEF Recv
<1> DEFINE u == [undone EXCEPT ![x[1]] = @ \ {m}]
           t == [told EXCEPT ![x] = @ \ {m}]
<1>4. x[1] \in Calls
  BY HandlerParts
<1>5. /\ wg \in [Calls -> Nat] /\ sent \in [Handlers -> Nat]
      /\ undone \in [Calls -> SUBSET Cmds] /\ told \in [Handlers -> SUBSET Cmds]
  BY DEF TypeInv, PipelineTypeOK, Undone, Told
<1>6. u \in Undone /\ t \in Told
  BY <1>5 DEF Undone, Told
<1>7. /\ u[x[1]] = undone[x[1]] \ {m} /\ \A c \in Calls : c # x[1] => u[c] = undone[c]
      /\ t[x] = told[x] \ {m} /\ \A y \in Handlers : y # x => t[y] = told[y]
  BY <1>4, <1>5
<1>8. \A k \in Cmds : k # m /\ k \in undone[k[1]] => k \in u[k[1]]
  BY <1>7, CmdParts
<1> HIDE DEF u, t
<1>9. \A c \in Calls : u[c] \subseteq CmdsOf(c) /\ wg'[c] = Cardinality(u[c])
  <2> TAKE c \in Calls
  <2>1. undone[c] \subseteq CmdsOf(c) /\ wg[c] = Cardinality(undone[c])
    BY <1>1 DEF Owes
  <2>2. CASE c = x[1]
    BY <1>2, <1>3, <1>5, <1>7, <2>1, <2>2
  <2>3. CASE c # x[1]
    BY <1>3, <1>5, <1>7, <2>1, <2>3
  <2> QED
    BY <2>2, <2>3
<1>10. \A y \in Handlers : t[y] \subseteq u[y[1]] /\ sent'[y] = Cardinality(t[y])
  <2> TAKE y \in Handlers
  <2>1. told[y] \subseteq undone[y[1]] /\ sent[y] = Cardinality(told[y])
    BY <1>1 DEF Owes
  <2>2. m \notin t[y]
    BY <1>1, <1>2, <1>7 DEF Owes
  <2>3. y[1] \in Calls /\ t[y] \subseteq told[y] /\ undone[y[1]] \ {m} \subseteq u[y[1]]
    BY <1>7, HandlerParts
  <2>4. t[y] \subseteq u[y[1]]
    BY <2>1, <2>2, <2>3
  <2>5. sent'[y] = Cardinality(t[y])
    BY <1>2, <1>3, <1>5, <1>7, <2>1
  <2> QED
    BY <2>4, <2>5
<1>11. \A y \in Handlers : t[y] \subseteq told[y]
  BY <1>7
<1>12. \A y, z \in Handlers : y # z => t[y] \cap t[z] = {}
  BY <1>1, <1>11 DEF Owes
<1>13. \A k \in Cmds : NeverRan(k)' => k \in u[k[1]] /\ \A y \in Handlers : k \notin t[y]
  <2> TAKE k \in Cmds
  <2> HAVE NeverRan(k)'
  <2>1. k \in undone[k[1]] /\ \A y \in Handlers : k \notin told[y]
    BY <1>1, <1>3 DEF Owes, NeverRan
  <2> QED
    BY <1>2, <1>8, <1>11, <2>1
<1>14. \A y \in Handlers : handler'[y] = "ran" =>
         current'[y] \in u[current'[y][1]] /\ \A z \in Handlers : current'[y] \notin t[z]
  <2> TAKE y \in Handlers
  <2> HAVE handler'[y] = "ran"
  <2> DEFINE k == current[y]
  <2>1. k = current'[y] /\ k \in undone[k[1]] /\ \A z \in Handlers : k \notin told[z]
    BY <1>1, <1>3 DEF Owes
  <2>2. k # m
    BY <1>2, <2>1
  <2>3. k \in Cmds
    <3>1. handler[y] = "ran"
      BY <1>3
    <3>2. <<k, y>> \in ran
      BY <3>1 DEF Placement
    <3>3. ran \subseteq Cmds \X Handlers
      BY DEF TypeInv, PipelineTypeOK, Executions
    <3> QED
      BY <3>2, <3>3
  <2> QED
    BY <1>8, <1>11, <2>1, <2>2, <2>3
<1>15. Owes(u, t)'
  BY <1>9, <1>10, <1>12, <1>13, <1>14 DEF Owes
<1> QED
  BY <1>3, <1>6, <1>15 DEF Owing

LEMMA OwingSignal ==
  ASSUME TypeInv, Placement, Turns, Places, RunOnce, Owing,
         NEW x \in Handlers, Signal(x), ~ Cancelled(x[1])
  PROVE  Owing'
<1>1. PICK undone \in Undone, told \in Told : Owes(undone, told)
  BY DEF Owing
<1>m. PICK m : m = current[x]
  OBVIOUS
<1> DEFINE t == [told EXCEPT ![x] = @ \cup {m}]
<1>2. /\ handler[x] = "ran"
      /\ handler' = [handler EXCEPT ![x] = "signalled"]
      /\ sent' = [sent EXCEPT ![x] = @ + 1]
      /\ UNCHANGED <<wg, current, ran>>
  BY DEF Signal, MoveHandler, callVars
<1>3. /\ sent \in [Handlers -> Nat] /\ handler \in [Handlers -> HandlerStates]
      /\ told \in [Handlers -> SUBSET Cmds] /\ ran \subseteq Cmds \X Handlers
      /\ pc \in [Calls -> PCs]
  BY DEF TypeInv, PipelineTypeOK, Told, Executions
<1>4. <<m, x>> \in ran /\ m \in Cmds
  <2>1. <<m, x>> \in ran
    BY <1>2, <1>m DEF Placement
  <2> QED
    BY <1>3, <2>1
<1>5. m[1] = x[1]
  <2>1. x[1] \in UnderWay
    BY <1>2, <1>3, HandlerParts DEF Turns, UnderWay, Cancelled
  <2>2. using[x] \in Handlers /\ m \in unacked[using[x]]
    BY <1>2, <1>m DEF Places, Busy, TypeInv, Reading
  <2> QED
    BY <2>1, <2>2 DEF Places
<1>6. m \in undone[x[1]] /\ \A y \in Handlers : m \notin told[y]
  BY <1>1, <1>2, <1>5, <1>m DEF Owes
<1>7. t \in Told
  BY <1>3, <1>4 DEF Told
<1>8. t[x] = told[x] \cup {m} /\ \A y \in Handlers : y # x => t[y] = told[y]
  BY <1>3
<1>9. IsFiniteSet(told[x])
  BY <1>1, ToldIsFinite
<1> HIDE DEF t
<1>10. \A y \in Handlers : t[y] \subseteq undone[y[1]] /\ sent'[y] = Cardinality(t[y])
  <2> TAKE y \in Handlers
  <2>1. told[y] \subseteq undone[y[1]] /\ sent[y] = Cardinality(told[y])
    BY <1>1 DEF Owes
  <2>2. CASE y = x
    <3>1. Cardinality(t[x]) = Cardinality(told[x]) + 1
      BY <1>6, <1>8, <1>9, FS_AddElement
    <3> QED
      BY <1>2, <1>3, <1>6, <1>8, <2>1, <2>2, <3>1
  <2>3. CASE y # x
    BY <1>2, <1>3, <1>8, <2>1, <2>3
  <2> QED
    BY <2>2, <2>3
<1>11. \A k, y : y \in Handlers /\ k # m /\ k \notin told[y] => k \notin t[y]
  BY <1>8
<1>12. \A y, z \in Handlers : y # z => t[y] \cap t[z] = {}
  <2> SUFFICES ASSUME NEW y \in Handlers, NEW z \in Handlers, y # z,
                      NEW k, k \in t[y], k \in t[z]
               PROVE  FALSE
    OBVIOUS
  <2>1. told[y] \cap told[z] = {}
    BY <1>1 DEF Owes
  <2>2. k = m \/ (k \in told[y] /\ k \in told[z])
    BY <1>11
  <2>3. m \in t[y] => y = x
    BY <1>6, <1>8
  <2>4. m \in t[z] => z = x
    BY <1>6, <1>8
  <2> QED
    BY <2>1, <2>2, <2>3, <2>4
<1>13. \A k \in Cmds : NeverRan(k)' =>
         k \in undone[k[1]] /\ \A y \in Handlers : k \notin t[y]
  <2> TAKE k \in Cmds
  <2> HAVE NeverRan(k)'
  <2>1. NeverRan(k)
    BY <1>2 DEF NeverRan
  <2>2. k # m
    BY <1>4, <2>1 DEF NeverRan
  <2>3. k \in undone[k[1]] /\ \A y \in Handlers : k \notin told[y]
    BY <1>1, <2>1 DEF Owes
  <2> QED
    BY <1>11, <2>2, <2>3
<1>14. \A y \in Handlers : handler'[y] = "ran" =>
         current'[y] \in undone[current'[y][1]] /\ \A z \in Handlers : current'[y] \notin t[z]
  <2> TAKE y \in Handlers
  <2> HAVE handler'[y] = "ran"
  <2>1. handler[y] = "ran" /\ y # x
    BY <1>2, <1>3
  <2>2. current[y] \in undone[current[y][1]] /\ \A z \in Handlers : current[y] \notin told[z]
    BY <1>1, <2>1 DEF Owes
  <2>3. <<current[y], y>> \in ran
    BY <2>1 DEF Placement
  <2>4. current[y] # m
    BY <1>4, <2>1, <2>3 DEF RunOnce
  <2> QED
    BY <1>2, <1>11, <2>2, <2>4
<1>15. \A c \in Calls : undone[c] \subseteq CmdsOf(c) /\ wg'[c] = Cardinality(undone[c])
  BY <1>1, <1>2 DEF Owes
<1>16. Owes(undone, t)'
  BY <1>10, <1>12, <1>13, <1>14, <1>15 DEF Owes
<1> QED
  BY <1>7, <1>16 DEF Owing

(* Whatever else happens leaves the witnesses as they are.                  *)
LEMMA OwingKept ==
  ASSUME Owing, UNCHANGED <<wg, sent>>,
         \A m \in Cmds : NeverRan(m)' => NeverRan(m),
         \A x \in Handlers : handler'[x] = "ran" =>
           \/ handler[x] = "ran" /\ current'[x] = current[x]
           \/ current'[x] \in Cmds /\ NeverRan(current'[x])
  PROVE  Owing'
<1>1. PICK undone \in Undone, told \in Told : Owes(undone, told)
  BY DEF Owing
<1>2. \A x \in Handlers : handler'[x] = "ran" =>
        /\ current'[x] \in undone[current'[x][1]]
        /\ \A y \in Handlers : current'[x] \notin told[y]
  BY <1>1 DEF Owes
<1>3. \A m \in Cmds : NeverRan(m)' =>
        m \in undone[m[1]] /\ \A y \in Handlers : m \notin told[y]
  BY <1>1 DEF Owes
<1>4. Owes(undone, told)'
  BY <1>1, <1>2, <1>3 DEF Owes
<1> QED
  BY <1>4 DEF Owing

LEMMA OwingHandler ==
  ASSUME TypeInv, Placement, Turns, Places, RunOnce, Owing,
         NEW x \in Handlers, HandlerStep(x)
  PROVE  Owing'
<1>t. handler \in [Handlers -> HandlerStates] /\ current \in [Handlers -> Cmds \cup {NoCmd}]
  BY DEF TypeInv, PipelineTypeOK
<1>1. CASE Run(x)
  <2>1. PICK m \in delivered[using[x]] :
          /\ handler' = [handler EXCEPT ![x] = "ran"]
          /\ current' = [current EXCEPT ![x] = m]
          /\ ran' = ran \cup {<<m, x>>}
    BY <1>1 DEF Run, MoveHandler
  <2>2. using[x] \in Handlers /\ UNCHANGED <<wg, sent>>
    BY <1>1 DEF Run, MoveHandler, TypeInv, Reading, callVars
  <2>3. m \in Cmds /\ NeverRan(m)
    BY <2>2 DEF RunOnce, TypeInv, PipelineTypeOK
  <2>4. \A k \in Cmds : NeverRan(k)' => NeverRan(k)
    BY <2>1 DEF NeverRan
  <2>5. \A y \in Handlers : handler'[y] = "ran" =>
           \/ handler[y] = "ran" /\ current'[y] = current[y]
           \/ current'[y] \in Cmds /\ NeverRan(current'[y])
    BY <1>t, <2>1, <2>3
  <2> QED
    BY <2>2, <2>4, <2>5, OwingKept
<1>2. CASE Signal(x) /\ ~ Cancelled(x[1])
  BY <1>2, OwingSignal
<1>3. CASE ~ Run(x) /\ ~ (Signal(x) /\ ~ Cancelled(x[1]))
  <2>1. UNCHANGED <<wg, sent, ran>>
    BY <1>3 DEF HandlerStep, Check, Create, Consume, ConsumeOnClosed, ConsumeTagInUse, Signal,
       Ack, ContextDone, DeliveriesClosed, callVars
  <2>2. \A y \in Handlers : handler'[y] = "ran" => handler[y] = "ran" /\ current'[y] = current[y]
    <3>1. handler'[x] # "ran" /\ \A y \in Handlers : y # x => handler'[y] = handler[y]
      BY <1>t, <1>3 DEF HandlerStep, Check, Create, Consume, ConsumeOnClosed, ConsumeTagInUse,
         Signal, Ack, ContextDone, DeliveriesClosed, MoveHandler
    <3>2. \A y \in Handlers : y # x => current'[y] = current[y]
      BY <1>t, <1>3 DEF HandlerStep, Check, Create, Consume, ConsumeOnClosed, ConsumeTagInUse,
         Signal, Ack, ContextDone, DeliveriesClosed
    <3> QED
      BY <3>1, <3>2
  <2>3. \A m \in Cmds : NeverRan(m)' => NeverRan(m)
    BY <2>1 DEF NeverRan
  <2> QED
    BY <2>1, <2>2, <2>3, OwingKept
<1> QED
  BY <1>1, <1>2, <1>3

LEMMA OwingNext ==
  ASSUME TypeInv, Placement, Turns, Places, RunOnce, Owing, [Next]_vars
  PROVE  Owing'
<1>1. ASSUME UNCHANGED <<wg, sent, ran, current>>,
             \A x \in Handlers : handler'[x] = "ran" => handler[x] = "ran"
      PROVE  Owing'
  <2>1. \A m \in Cmds : NeverRan(m)' => NeverRan(m)
    BY <1>1 DEF NeverRan
  <2>2. \A x \in Handlers : handler'[x] = "ran" => handler[x] = "ran" /\ current'[x] = current[x]
    BY <1>1
  <2> QED
    BY <1>1, <2>1, <2>2, OwingKept
<1>2. ASSUME NEW c \in Calls, CallStep(c) PROVE Owing'
  <2>1. UNCHANGED <<wg, sent, ran, current, handler>>
    BY <1>2 DEF CallStep, Start, ConsumersReady, Publish, CommandsFinished, ReadResult,
       AckResult, Return, workerVars, callVars
  <2> QED
    BY <1>1, <2>1
<1>3. ASSUME NEW x \in Handlers, Dial(x) \/ Deliver(x) PROVE Owing'
  <2>1. handler \in [Handlers -> HandlerStates]
    BY DEF TypeInv, PipelineTypeOK
  <2>2. UNCHANGED <<wg, sent, ran, current>>
    BY <1>3 DEF Dial, Deliver, workerVars, callVars
  <2>3. \A y \in Handlers : handler'[y] = "ran" => handler[y] = "ran"
    BY <1>3, <2>1 DEF Dial, Deliver, workerVars
  <2> QED
    BY <1>1, <2>2, <2>3
<1>4. CASE UNCHANGED vars
  BY <1>1, <1>4 DEF vars, workerVars, callVars
<1> QED
  BY <1>2, <1>3, <1>4, OwingRecv, OwingHandler DEF Next

-----------------------------------------------------------------------------
(* The five layers together.                                                *)

LEMMA NoPanicNext ==
  ASSUME TypeInv, Placement, Places, RunOnce, Counted, Owing, ~ panic, [Next]_vars
  PROVE  ~ panic'
<1>1. ASSUME NEW c \in Calls, CallStep(c) PROVE ~ panic'
  <2>1. CASE ReadResult(c)
    <3>1. PICK e \in results : TRUE
      BY <2>1 DEF ReadResult
    <3>2. c \in UnderWay
      BY <2>1 DEF ReadResult, UnderWay
    <3>3. cmdRes[c] # 0
      BY <3>1, <3>2, QueuedResultIsNew
    <3> QED
      BY <2>1, <3>3 DEF ReadResult
  <2>2. CASE ~ ReadResult(c)
    BY <1>1, <2>2 DEF CallStep, Start, ConsumersReady, Publish, CommandsFinished, AckResult,
       Return, callVars
  <2> QED
    BY <2>1, <2>2
<1>2. ASSUME NEW x \in Handlers, Recv(x) PROVE ~ panic'
  BY <1>2, OwingRecv
<1>3. ASSUME NEW x \in Handlers, HandlerStep(x) \/ Dial(x) \/ Deliver(x) PROVE ~ panic'
  BY <1>3 DEF HandlerStep, Dial, Deliver, Check, Create, Consume, ConsumeOnClosed,
     ConsumeTagInUse, Run, Signal, Ack, ContextDone, DeliveriesClosed, callVars
<1>4. CASE UNCHANGED vars
  BY <1>4 DEF vars, callVars
<1> QED
  BY <1>1, <1>2, <1>3, <1>4 DEF Next

Unmixed == Turns /\ Places /\ RunOnce /\ Counted /\ Owing /\ ~ panic

LEMMA UnmixedInit == Init => Unmixed
<1> SUFFICES ASSUME Init PROVE Unmixed
  OBVIOUS
<1>1. UnderWay = {} /\ ran = {} /\ published = {} /\ results = {} /\ ~ panic
  BY DEF Init, UnderWay
<1>2. Turns
  BY <1>1 DEF Init, Turns
<1>3. Places
  BY <1>1 DEF Init, Places, Busy
<1>4. RunOnce
  BY <1>1 DEF Init, RunOnce
<1>5. Counted
  <2>1. Seen({}) = {} /\ Cardinality(Seen({})) = 0
    BY FS_EmptySet DEF Seen
  <2>2. \A c \in Calls : /\ acking[c] = {} /\ report[c] = {} /\ pc[c] = "idle"
                         /\ cmdRes[c] = NumCmds(c) /\ NumCmds(c) \in Nat
    BY PipelineAssumption DEF Init
  <2> QED
    BY <1>1, <2>1, <2>2 DEF Counted
<1> QED
  BY <1>1, <1>2, <1>3, <1>4, <1>5, OwingInit DEF Unmixed

LEMMA UnmixedNext ==
  TypeInv /\ Placement /\ TurnInv /\ (mixed \/ Unmixed) /\ [Next]_vars => (mixed \/ Unmixed)'
<1> SUFFICES ASSUME TypeInv, Placement, TurnInv, mixed \/ Unmixed, [Next]_vars, ~ mixed'
             PROVE  Unmixed'
  OBVIOUS
<1>1. Turns /\ Places /\ RunOnce /\ Counted /\ Owing /\ ~ panic
  BY MixedStays DEF Unmixed
<1>2. Turns' /\ Places'
  BY <1>1, TurnsNext, PlacesNext
<1>3. RunOnce' /\ Counted'
  BY <1>1, RunOnceNext, CountedNext
<1>4. Owing' /\ ~ panic'
  BY <1>1, OwingNext, NoPanicNext
<1> QED
  BY <1>2, <1>3, <1>4 DEF Unmixed

LEMMA UnmixedCorrect == Spec => [](mixed \/ Unmixed)
<1>1. Init => mixed \/ Unmixed
  BY UnmixedInit
<1> QED
  BY <1>1, TypeInit, TypeNext, PlacementInit, PlacementNext, TurnInit, TurnNext, UnmixedNext,
     PTL DEF Spec

(* No WaitGroup of the orchestrator goes below zero before a call has met   *)
(* another one, or messages that an earlier one left in the queues: every   *)
(* FinishedCommand and every result is of a command that is still counted   *)
(* (runner.go:74, consume.go:171).                                          *)
THEOREM PanicOnlyByMixing == Spec => []PanicNeedsMixing
<1>1. mixed \/ Unmixed => PanicNeedsMixing
  BY DEF Unmixed, PanicNeedsMixing
<1> QED
  BY UnmixedCorrect, <1>1, PTL

(* Until then a call that returns reports every one of its commands, each   *)
(* by one execution, and nothing of any other call (runner.go:100-151).     *)
THEOREM UnmixedReportsItsOwn == Spec => []ReportsItsOwn
<1>1. mixed \/ Unmixed => ReportsItsOwn
  <2> SUFFICES ASSUME Unmixed, NEW c \in Calls, pc[c] = "returned"
               PROVE  /\ \A m \in CmdsOf(c) : \E e \in report[c] : e[1] = m
                      /\ \A e, f \in report[c] :
                           e[1] \in CmdsOf(c) /\ (e[1] = f[1] => e = f)
    BY DEF ReportsItsOwn
  <2>1. Seen(report[c]) = CmdsOf(c) /\ report[c] \subseteq ran
    BY DEF Unmixed, Counted
  <2>2. \A e, f \in report[c] : e[1] = f[1] => e = f
    BY <2>1 DEF Unmixed, RunOnce
  <2> QED
    BY <2>1, <2>2 DEF Seen
<1> QED
  BY UnmixedCorrect, <1>1, PTL

=============================================================================
