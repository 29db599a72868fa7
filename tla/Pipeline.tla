------------------------------ MODULE Pipeline ------------------------------
(***************************************************************************)
(* The tasks of webhooks that are handled side by side, each webhook       *)
(* running its tasks in turn (controller/handler.go), on one set of queues *)
(* and on the ConsumerInstance that each worker process keeps between      *)
(* tasks (internal/mq/consumer_server.go).                                 *)
(*                                                                         *)
(* A call <<h, k>> is RunTaskOnAllMachines for task k of webhook h:        *)
(*                                                                         *)
(*   idle -> dial -> publish -> collect -> returned                        *)
(*                                                                         *)
(* A handler <<c, w>> is the StartConsumer that call c opens on worker w:  *)
(*                                                                         *)
(*   none -> check (-> create) -> return -> loop -> ran -> signalled       *)
(*        -> loop, and ended.                                              *)
(*                                                                         *)
(* TaskRun has the faults of one call and its result queues; here nothing  *)
(* fails but what calls do to one another.  A result is in either result   *)
(* queue, and the two collectors of a call are taken together.  Results    *)
(* are queued as they are published: only ReadResult looks for them, and   *)
(* it may as well come when a result in transit would have arrived.        *)
(***************************************************************************)
EXTENDS Integers, Sequences, FiniteSets

CONSTANTS
  Tasks,       \* for each webhook, a sequence of [machines, cmds]
  NoConsumer,  \* ConsumerInstance is nil
  NoCmd        \* no command in hand

Webhooks == DOMAIN Tasks

Calls == UNION {{<<h, k>> : k \in DOMAIN Tasks[h]} : h \in Webhooks}

Machines(c) == Tasks[c[1]][c[2]].machines

NumCmds(c) == Tasks[c[1]][c[2]].cmds

(* The messages of cmd-queue that c publishes.                              *)
CmdsOf(c) == {<<c, i>> : i \in 1 .. NumCmds(c)}

Cmds == UNION {CmdsOf(c) : c \in Calls}

Workers == UNION {Machines(c) : c \in Calls}

Handlers == UNION {{<<c, w>> : w \in Machines(c)} : c \in Calls}

(* An execution of a command by a handler, and its result.                  *)
Executions == Cmds \X Handlers

ASSUME PipelineAssumption ==
  /\ \A c \in Calls : Machines(c) # {} /\ NumCmds(c) \in Nat
  /\ NoConsumer \notin Handlers
  /\ NoCmd \notin Cmds

VARIABLES
  pc,         \* pc[c]: where call c is
  handler,    \* handler[x]: where StartConsumer is
  instance,   \* instance[w]: ConsumerInstance, named by the handler that made it
  using,      \* using[x]: the Consumer whose deliveries x reads
  conn,       \* conn[u]: the broker connection of the Consumer that u made
  cmdQueue,   \* ready commands
  unacked,    \* unacked[u]: commands delivered on it, not acknowledged
  delivered,  \* delivered[u]: commands waiting in the Go channel msgs
  current,    \* current[x]: the command x is running
  sent,       \* sent[x]: FinishedCommand messages in its stream
  wg,         \* wg[c]: counter of wg
  results,    \* ready messages of the result queues
  acking,     \* acking[c]: results read and not yet acknowledged
  cmdRes,     \* cmdRes[c]: counter of cmdResWg
  report,     \* report[c]: the results read
  panic,      \* a WaitGroup went below zero: the orchestrator is gone
  ran,        \* history: every execution
  published,  \* history: every command that was published
  overlap,    \* history: two calls were under way at the same time
  mixed       \* history: a call met another, or messages another had left

workerVars == <<handler, instance, using, conn, current, sent, ran>>
queueVars == <<cmdQueue, unacked, delivered>>
resultVars == <<results, acking, cmdRes, report>>
callVars == <<pc, wg, panic, published>>
historyVars == <<overlap, mixed>>

vars == <<workerVars, queueVars, resultVars, callVars, historyVars>>

Init ==
  /\ pc = [c \in Calls |-> "idle"]
  /\ handler = [x \in Handlers |-> "none"]
  /\ instance = [w \in Workers |-> NoConsumer]
  /\ using = [x \in Handlers |-> NoConsumer]
  /\ conn = [x \in Handlers |-> "none"]
  /\ cmdQueue = {}
  /\ unacked = [x \in Handlers |-> {}]
  /\ delivered = [x \in Handlers |-> {}]
  /\ current = [x \in Handlers |-> NoCmd]
  /\ sent = [x \in Handlers |-> 0]
  /\ wg = [c \in Calls |-> NumCmds(c)]
  /\ results = {}
  /\ acking = [c \in Calls |-> {}]
  /\ cmdRes = [c \in Calls |-> NumCmds(c)]
  /\ report = [c \in Calls |-> {}]
  /\ panic = FALSE
  /\ ran = {}
  /\ published = {}
  /\ overlap = FALSE
  /\ mixed = FALSE

-----------------------------------------------------------------------------
(* The calls, in the orchestrator.                                          *)

MoveCall(c, from, to) ==
  /\ ~panic
  /\ pc[c] = from
  /\ pc' = [pc EXCEPT ![c] = to]

UnderWay == {c \in Calls : pc[c] \notin {"idle", "returned"}}

Leftovers == cmdQueue # {} \/ results # {} \/ \E u \in Handlers : unacked[u] # {}

(* Webhooks start when they like, a task when the one before has returned.  *)
Start(c) ==
  /\ c[2] > 1 => pc[<<c[1], c[2] - 1>>] = "returned"
  /\ MoveCall(c, "idle", "dial")
  /\ overlap' = (overlap \/ UnderWay # {})
  /\ mixed' = (mixed \/ UnderWay # {} \/ Leftovers)
  /\ UNCHANGED <<workerVars, queueVars, resultVars, wg, panic, published>>

(* A dispatcher calls StartConsumer.                                        *)
Dial(x) ==
  /\ ~panic
  /\ pc[x[1]] = "dial"
  /\ handler[x] = "none"
  /\ handler' = [handler EXCEPT ![x] = "check"]
  /\ UNCHANGED <<instance, using, conn, current, sent, ran, queueVars, resultVars,
                 callVars, historyVars>>

(* consumersReady.Wait and the sleep of 3 s, in which every handler gets as *)
(* far as its loop, or ends.                                                *)
ConsumersReady(c) ==
  /\ MoveCall(c, "dial", "publish")
  /\ \A w \in Machines(c) :
       handler[<<c, w>>] \notin {"none", "check", "create", "return"}
  /\ UNCHANGED <<workerVars, queueVars, resultVars, wg, panic, published, historyVars>>

Publish(c) ==
  /\ ~panic
  /\ pc[c] = "publish"
  /\ \E m \in CmdsOf(c) \ published :
       /\ published' = published \cup {m}
       /\ cmdQueue' = cmdQueue \cup {m}
  /\ UNCHANGED <<workerVars, unacked, delivered, resultVars, pc, wg, panic, historyVars>>

(* Mutation: Done does not look at the counter.                             *)
Bug_Unchecked(x) ==
  /\ ~panic
  /\ sent[x] > 0
  /\ sent' = [sent EXCEPT ![x] = @ - 1]
  /\ wg' = [wg EXCEPT ![x[1]] = @ - 1]
  /\ UNCHANGED <<handler, instance, using, conn, current, ran, queueVars, resultVars,
                 pc, panic, published, historyVars>>

(* A dispatcher receives FinishedCommand: wg.Done, whatever command of      *)
(* whatever call it was.                                                    *)
Recv(x) ==
  /\ ~panic
  /\ sent[x] > 0
  /\ sent' = [sent EXCEPT ![x] = @ - 1]
  /\ IF wg[x[1]] = 0
       THEN panic' = TRUE /\ UNCHANGED wg
       ELSE wg' = [wg EXCEPT ![x[1]] = @ - 1] /\ UNCHANGED panic
  /\ UNCHANGED <<handler, instance, using, conn, current, ran, queueVars, resultVars,
                 pc, published, historyVars>>

(* Every command is published and wg.Wait returns; cancel, and the          *)
(* collectors subscribe.                                                    *)
CommandsFinished(c) ==
  /\ MoveCall(c, "publish", "collect")
  /\ CmdsOf(c) \subseteq published
  /\ wg[c] = 0
  /\ UNCHANGED <<workerVars, queueVars, resultVars, wg, panic, published, historyVars>>

Cancelled(c) == pc[c] \in {"collect", "returned"}

(* One of the two collectors gets a result, appends it to its buffer, and   *)
(* calls cmdResWg.Done.                                                     *)
ReadResult(c) ==
  /\ ~panic
  /\ pc[c] = "collect"
  /\ Cardinality(acking[c]) < 2
  /\ \E e \in results :
       /\ results' = results \ {e}
       /\ acking' = [acking EXCEPT ![c] = @ \cup {e}]
       /\ report' = [report EXCEPT ![c] = @ \cup {e}]
  /\ IF cmdRes[c] = 0
       THEN panic' = TRUE /\ UNCHANGED cmdRes
       ELSE cmdRes' = [cmdRes EXCEPT ![c] = @ - 1] /\ UNCHANGED panic
  /\ UNCHANGED <<workerVars, queueVars, pc, wg, published, historyVars>>

AckResult(c) ==
  /\ ~panic
  /\ \E e \in acking[c] : acking' = [acking EXCEPT ![c] = @ \ {e}]
  /\ UNCHANGED <<workerVars, queueVars, results, cmdRes, report, callVars, historyVars>>

(* Mutation: cmdResWg.Add is one short.                                     *)
Bug_OneShort(c) ==
  /\ MoveCall(c, "collect", "returned")
  /\ cmdRes[c] <= 1
  /\ results' = results \cup acking[c]
  /\ acking' = [acking EXCEPT ![c] = {}]
  /\ UNCHANGED <<workerVars, queueVars, cmdRes, report, wg, panic, published,
                 historyVars>>

(* cmdResWg.Wait returns; Close gives back what was not acknowledged.       *)
Return(c) ==
  /\ MoveCall(c, "collect", "returned")
  /\ cmdRes[c] = 0
  /\ results' = results \cup acking[c]
  /\ acking' = [acking EXCEPT ![c] = {}]
  /\ UNCHANGED <<workerVars, queueVars, cmdRes, report, wg, panic, published,
                 historyVars>>

-----------------------------------------------------------------------------
(* The handlers, in the workers.                                            *)

MoveHandler(x, from, to) ==
  /\ ~panic
  /\ handler[x] = from
  /\ handler' = [handler EXCEPT ![x] = to]

(* Mutation: getConsumer makes a new Consumer every time.                   *)
Bug_NoInstance(x) ==
  /\ MoveHandler(x, "check", "create")
  /\ UNCHANGED <<instance, using, conn, current, sent, ran, queueVars, resultVars,
                 callVars, historyVars>>

(* getConsumer: if ConsumerInstance == nil.                                 *)
Check(x) ==
  /\ MoveHandler(x, "check", IF instance[x[2]] = NoConsumer THEN "create" ELSE "return")
  /\ UNCHANGED <<instance, using, conn, current, sent, ran, queueVars, resultVars,
                 callVars, historyVars>>

(* NewConsumer, and the assignment.                                         *)
Create(x) ==
  /\ MoveHandler(x, "create", "return")
  /\ conn' = [conn EXCEPT ![x] = "open"]
  /\ instance' = [instance EXCEPT ![x[2]] = x]
  /\ UNCHANGED <<using, current, sent, ran, queueVars, resultVars, callVars, historyVars>>

(* return ConsumerInstance, by now perhaps that of another handler, and     *)
(* channel.Consume on a channel nobody has subscribed on.                   *)
Consume(x) ==
  /\ MoveHandler(x, "return", "loop")
  /\ conn[instance[x[2]]] = "open"
  /\ using' = [using EXCEPT ![x] = instance[x[2]]]
  /\ conn' = [conn EXCEPT ![instance[x[2]]] = "subscribed"]
  /\ UNCHANGED <<instance, current, sent, ran, queueVars, resultVars, callVars,
                 historyVars>>

ConsumeOnClosed(x) ==
  /\ MoveHandler(x, "return", "ended")
  /\ conn[instance[x[2]]] = "dead"
  /\ UNCHANGED <<instance, using, conn, current, sent, ran, queueVars, resultVars, callVars,
                 historyVars>>

(* Mutation: what the closed connection held is gone.                       *)
Bug_NoRequeue(u) ==
  /\ conn' = [conn EXCEPT ![u] = "dead"]
  /\ unacked' = [unacked EXCEPT ![u] = {}]
  /\ UNCHANGED cmdQueue

(* The broker closes connection u, and what it held is ready again.         *)
Disconnect(u) ==
  /\ conn' = [conn EXCEPT ![u] = "dead"]
  /\ cmdQueue' = cmdQueue \cup unacked[u]
  /\ unacked' = [unacked EXCEPT ![u] = {}]

(* The tag is in use, by a handler that still reads or by one long gone.    *)
ConsumeTagInUse(x) ==
  /\ MoveHandler(x, "return", "ended")
  /\ conn[instance[x[2]]] = "subscribed"
  /\ Disconnect(instance[x[2]])
  /\ UNCHANGED <<delivered, instance, using, current, sent, ran, resultVars, callVars,
                 historyVars>>

(* Mutation: Consume with autoAck.                                          *)
Bug_AutoAck(u) ==
  /\ ~panic
  /\ conn[u] = "subscribed"
  /\ \E m \in cmdQueue :
       /\ cmdQueue' = cmdQueue \ {m}
       /\ delivered' = [delivered EXCEPT ![u] = @ \cup {m}]
  /\ UNCHANGED <<unacked, workerVars, resultVars, callVars, historyVars>>

(* The broker pushes a command to a subscription, read or abandoned.        *)
Deliver(u) ==
  /\ ~panic
  /\ conn[u] = "subscribed"
  /\ \E m \in cmdQueue :
       /\ cmdQueue' = cmdQueue \ {m}
       /\ unacked' = [unacked EXCEPT ![u] = @ \cup {m}]
       /\ delivered' = [delivered EXCEPT ![u] = @ \cup {m}]
  /\ UNCHANGED <<workerVars, resultVars, callVars, historyVars>>

(* A command is run and its result published.                               *)
Run(x) ==
  /\ MoveHandler(x, "loop", "ran")
  /\ \E m \in delivered[using[x]] :
       /\ delivered' = [delivered EXCEPT ![using[x]] = @ \ {m}]
       /\ current' = [current EXCEPT ![x] = m]
       /\ ran' = ran \cup {<<m, x>>}
       /\ results' = results \cup {<<m, x>>}
  /\ UNCHANGED <<instance, using, conn, sent, cmdQueue, unacked, acking, cmdRes,
                 report, callVars, historyVars>>

(* Mutation: the output is sent before, in a message of the same kind.      *)
Bug_SentTwice(x) ==
  /\ MoveHandler(x, "ran", "signalled")
  /\ sent' = IF Cancelled(x[1]) THEN sent ELSE [sent EXCEPT ![x] = @ + 2]
  /\ UNCHANGED <<instance, using, conn, current, ran, queueVars, resultVars, callVars,
                 historyVars>>

(* stream.Send, to a stream that may be cancelled.                          *)
Signal(x) ==
  /\ MoveHandler(x, "ran", "signalled")
  /\ sent' = IF Cancelled(x[1]) THEN sent ELSE [sent EXCEPT ![x] = @ + 1]
  /\ UNCHANGED <<instance, using, conn, current, ran, queueVars, resultVars, callVars,
                 historyVars>>

(* Mutation: d.Nack(false, true) for d.Ack(false).                          *)
Bug_Nack(x) ==
  /\ MoveHandler(x, "signalled", "loop")
  /\ unacked' = [unacked EXCEPT ![using[x]] = @ \ {current[x]}]
  /\ cmdQueue' = cmdQueue \cup {current[x]}
  /\ current' = [current EXCEPT ![x] = NoCmd]
  /\ UNCHANGED <<instance, using, conn, sent, ran, delivered, resultVars, callVars,
                 historyVars>>

Ack(x) ==
  /\ MoveHandler(x, "signalled", "loop")
  /\ unacked' = [unacked EXCEPT ![using[x]] = @ \ {current[x]}]
  /\ current' = [current EXCEPT ![x] = NoCmd]
  /\ UNCHANGED <<instance, using, conn, sent, ran, cmdQueue, delivered, resultVars,
                 callVars, historyVars>>

(* The loop sees ctx.Done; the subscription stays.                          *)
ContextDone(x) ==
  /\ Cancelled(x[1])
  /\ MoveHandler(x, "loop", "ended")
  /\ UNCHANGED <<instance, using, conn, current, sent, ran, queueVars, resultVars,
                 callVars, historyVars>>

(* The loop finds msgs closed.                                              *)
DeliveriesClosed(x) ==
  /\ MoveHandler(x, "loop", "ended")
  /\ conn[using[x]] = "dead"
  /\ delivered' = [delivered EXCEPT ![using[x]] = {}]
  /\ UNCHANGED <<instance, using, conn, current, sent, ran, cmdQueue, unacked,
                 resultVars, callVars, historyVars>>

-----------------------------------------------------------------------------

CallStep(c) ==
  \/ Start(c)
  \/ ConsumersReady(c)
  \/ Publish(c)
  \/ CommandsFinished(c)
  \/ ReadResult(c)
  \/ AckResult(c)
  \/ Return(c)

HandlerStep(x) ==
  \/ Check(x)
  \/ Create(x)
  \/ Consume(x)
  \/ ConsumeOnClosed(x)
  \/ ConsumeTagInUse(x)
  \/ Run(x)
  \/ Signal(x)
  \/ Ack(x)
  \/ ContextDone(x)
  \/ DeliveriesClosed(x)

Next ==
  \/ \E c \in Calls : CallStep(c)
  \/ \E x \in Handlers : Dial(x) \/ Recv(x) \/ HandlerStep(x) \/ Deliver(x)

Spec == Init /\ [][Next]_vars

-----------------------------------------------------------------------------

PCs == {"idle", "dial", "publish", "collect", "returned"}

HandlerStates == {"none", "check", "create", "return", "loop", "ran",
                  "signalled", "ended"}

(* Every variable has its type: no WaitGroup counter is ever negative.      *)
PipelineTypeOK ==
  /\ pc \in [Calls -> PCs]
  /\ handler \in [Handlers -> HandlerStates]
  /\ instance \in [Workers -> Handlers \cup {NoConsumer}]
  /\ using \in [Handlers -> Handlers \cup {NoConsumer}]
  /\ conn \in [Handlers -> {"none", "open", "subscribed", "dead"}]
  /\ cmdQueue \subseteq Cmds
  /\ unacked \in [Handlers -> SUBSET Cmds]
  /\ delivered \in [Handlers -> SUBSET Cmds]
  /\ current \in [Handlers -> Cmds \cup {NoCmd}]
  /\ sent \in [Handlers -> Nat]
  /\ wg \in [Calls -> Nat]
  /\ results \subseteq Executions
  /\ acking \in [Calls -> SUBSET Executions]
  /\ cmdRes \in [Calls -> Nat]
  /\ report \in [Calls -> SUBSET Executions]
  /\ panic \in BOOLEAN
  /\ ran \subseteq Executions
  /\ published \subseteq Cmds
  /\ overlap \in BOOLEAN
  /\ mixed \in BOOLEAN

(* However calls close each other's connections, a published command that   *)
(* never ran is in one place: ready, or held for one worker                 *)
(* (consumer_server.go:11-19, consume.go:98-141).                           *)
NothingLost ==
  \A m \in published : (\A x \in Handlers : <<m, x>> \notin ran) =>
    \/ m \in cmdQueue /\ \A u \in Handlers : m \notin unacked[u]
    \/ m \notin cmdQueue /\ \E u \in Handlers : \A v \in Handlers :
         m \in unacked[v] <=> v = u

(* However many calls share the queue and the Consumers, a command runs in  *)
(* two handlers only when a connection that one of them reads from was      *)
(* closed under it (consume.go:98-141, consumer_server.go:11-19).           *)
TwiceOnlyWhenClosed ==
  \A e, f \in ran : e[1] = f[1] /\ e # f =>
    \E x \in {e[2], f[2]} : conn[using[x]] = "dead"

(* Tasks in turn share one Consumer per worker: a second one comes only of  *)
(* two calls in getConsumer at the same time (consumer_server.go:11-19).    *)
OneConsumer ==
  ~overlap => \A w \in Workers : \A x, y \in Handlers :
    x[2] = w /\ y[2] = w /\ conn[x] # "none" /\ conn[y] # "none" => x = y

(* The orchestrator panics only after a call met another, or commands or    *)
(* results that an earlier one had not acknowledged (runner.go:74,          *)
(* consume.go:171).                                                         *)
PanicNeedsMixing == panic => mixed

(* Until then a call that returns reports each of its own commands once,    *)
(* and nothing else, whatever earlier tasks left in the workers             *)
(* (runner.go:100-151).                                                     *)
ReportsItsOwn ==
  ~mixed => \A c \in Calls : pc[c] = "returned" =>
    /\ \A m \in CmdsOf(c) : \E e \in report[c] : e[1] = m
    /\ \A e, f \in report[c] : e[1] \in CmdsOf(c) /\ (e[1] = f[1] => e = f)

-----------------------------------------------------------------------------
(* A call as its caller sees it.                                            *)

(* The wait is over for the caller when wg is at zero.                      *)
Phase(c) ==
  CASE pc[c] \in {"idle", "dial"} -> "sending"
    [] pc[c] = "publish" -> IF wg[c] = 0 THEN "waiting" ELSE "sending"
    [] pc[c] = "collect" -> "collecting"
    [] pc[c] = "returned" -> "nil"

Accepted(c) == CmdsOf(c) \cap published

Settled(c) ==
  {m \in Accepted(c) : m \notin cmdQueue /\ \A u \in Handlers : m \notin unacked[u]}

(* One queue stands for both.                                               *)
Outcome(e) == [cmd |-> e[1], worker |-> e[2][2], queue |-> "output"]

Outcomes(S) == {Outcome(e) : e \in S}

Executed(c) == Outcomes({e \in ran : e[1] \in CmdsOf(c)})

Reported(c) == IF pc[c] = "returned" THEN Outcomes(report[c]) ELSE {}

Contract(c) == INSTANCE TaskContract WITH
  Cmds <- CmdsOf(c),
  task <- CmdsOf(c),
  phase <- Phase(c),
  accepted <- Accepted(c),
  repeated <- {},
  settled <- Settled(c),
  executed <- Executed(c),
  reported <- Reported(c)

ContractStep(c) == [Contract(c)!Next]_(Contract(c)!contractVars)

(* Every call of a pipeline keeps the contract of a task that is alone, and *)
(* repeats nothing, until a call meets another or what an earlier one left  *)
(* (handler.go:36-49): earlier tasks, the Consumers they leave subscribed   *)
(* and their handlers that still run make no difference.                    *)
CallsKeepContract ==
  /\ \A c \in Calls : Contract(c)!Init
  /\ [][\A c \in Calls : mixed' \/ ContractStep(c)]_vars

(* "array of machines the job will run on" (pkg/config/types.go:54).        *)
RunsOnItsMachines == \A e \in ran : e[2][2] \in Machines(e[1][1])
=============================================================================
