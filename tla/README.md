# ConflowCI, specified in TLA+

ConflowCI runs the pipeline of a pull request on several machines. A webhook reaches the
*orchestrator*, which has every endpoint build the pull request, runs the tasks of the
pipeline by sending their commands through RabbitMQ to the *workers*, collects the results
from two more queues, and removes what was built. This directory holds TLA+ models of the
parts whose correctness depends on the order in which several actors move, the TLC runs
that check small instances of them, and proofs by TLAPS for instances of every size.

## 1. The system

| Component | Source | State | Operations |
|---|---|---|---|
| Webhook handler | `internal/orchestrator/controller/handler.go` | none of its own; one call per request, concurrently | `HandleWebhook`: build, each task in turn, clean up |
| Repository build | `internal/sync/build.go` | a metadata file on the orchestrator's disk | `BuildAllEndpoints`, `BuildRepository`, `syncRepository`, `RemoveAllRepositoryWorkspaces` |
| Git provider | `internal/provider/github/util.go` | repository, references and worktrees on each worker's disk | `Clone`, `Fetch`, `CreateWorkTree`, `RemoveWorkTree` |
| Task executor | `internal/sync/executor.go` | the commands and machines of a task | `NewTaskExecutor`, `GetFilesByRegex` |
| Task runner | `internal/sync/runner.go` | three WaitGroups, the channel `done`, the outputs | `RunTaskOnAllMachines` |
| Command consumer | `internal/mq/consume.go`, `consumer_server.go` | `ConsumerInstance`, one per worker process, kept between tasks | `StartConsumer`, `ConsumeCommand`, `ConsumeQueueContents` |
| Publisher | `internal/mq/publish.go` | an AMQP channel and its return listeners | `NewPublisher`, `PublishWithRetry` |
| Broker | RabbitMQ, external | `cmd-queue`, `output-queue`, `error-queue`, what is unacknowledged on each connection | deliver, requeue |
| Configuration | `pkg/config` | the cached `Cfg` | `GetConfig`, `NewConfig`, validation |
| Routes and start-up | `internal/orchestrator/routes`, `cmd/orchestrator` | none | load the configuration, serve `webhook` |
| Connections | `pkg/grpc` | certificates on each host, `TlsFlag` | `CreateNewClientConnection`, TLS configurations |
| Worker process | `cmd/worker` | none | listen, load credentials, serve |
| Crypto, SSH | `pkg/crypto`, `pkg/ssh` | none | pure I/O, used by neither process |

How they interact. The orchestrator calls each worker by gRPC: `Clone`, `Fetch` and the
worktree calls while building, `StartConsumer` for a task. `StartConsumer` is a stream that
stays open: the worker reads commands from `cmd-queue`, runs each with `/bin/sh`, publishes
its result, tells the orchestrator with a `FinishedCommand` message and only then
acknowledges the command. Orchestrator and worker share nothing but the stream and the
broker. Inside the orchestrator, goroutines meet in WaitGroups, in the channel `done` and
in the context whose `cancel` ends the streams.

What is hard, and what should hold:

* *Three counts of one thing.* The runner counts finish messages in `wg` and results in
  `cmdResWg`, and the broker counts deliveries. They agree only while every command is
  delivered once. Without redelivery neither count may go below zero (that would end the
  process), a returned task has reported everything that ran and nothing else, and no
  command runs after `wg.Wait`.
* *Manual acknowledgement.* No crash or lost connection may lose a command; another worker
  must run it.
* *Failures that are logged and forgotten.* A failing dial, publish, subscribe or collector
  must not lose commands or fake results. Several do make the task wait for ever (section 6).
* *State that outlives a task.* `ConsumerInstance` is used by all tasks of a worker.
* *Results in transit.* A worker publishes results without confirms, so its finish message
  may arrive before its result. Nothing a worker has still to do may be waited for, and no
  result may vanish but by a fault.
* *Ending.* A task without faults returns and leaves no command queued; after the return every
  dispatcher, collector and handler ends.
* *Concurrent webhooks on one disk.* Builds of one pull request share reference, worktree
  and metadata, and a fetch lists the remote some time before it sets the reference. What is
  built should be the push the webhook was about or a later one, and worktrees be gone at the
  end; section 6 has where they are not.
* *Concurrent webhooks in one process.* `GetConfig` caches without a lock; tasks of different
  webhooks share three queues and the `ConsumerInstance` of each worker. What each webhook
  may then see of the others must be known: no command lost, no report falsified and no
  panic unless tasks really met.

`PROJECT.json` lists every hazard with its line and the properties that guard it.

## 2. Modules

```
MessageQueue  <-  Worker  <-  TaskRun  <-  TaskProperties  <-  MCTaskRun
                                             |         <-  TaskProofs  <-  TaskRefinement
                                             +-- implements TaskContract
Build  <-  MCBuild
       <-  BuildProofs
Pipeline  <-  MCPipeline
    |     <-  PipelineProofs  <-  UnmixedProofs  <-  PipelineRefinement
    +-- each call implements TaskContract
Config  <-  Executor     <-+-  Orchestrator  <-  MCOrchestrator
        <-  Connections  <-+                 <-  OrchestratorProofs
```

(`A <- B`: B extends A.) The code nests: a webhook of `Orchestrator` contains a build (`Build`)
and a sequence of tasks (`TaskRun`). One state space of all of them would be out of reach, so
each level is checked against what the level below establishes: `Orchestrator` lets a build
end (`BuildsEnd`), lets a task that meets no other end (`TaskReturns`) and any other end,
hang or panic; `Pipeline` says when the latter can happen. `TaskContract` is what the two levels
of a task have in common: `TaskRun` implements it under every fault, and so does each call of
`Pipeline` until it meets another.

**`MessageQueue`** is the broker as `internal/mq` uses it: ready commands (`cmdQueue`),
commands delivered and not acknowledged per worker (`unacked`), those still in the Go
channel of the subscription (`delivered`), results not yet acknowledged (`resultQueues`),
whether the queues are `declared`, and `consumer[w]`, the state of `ConsumerInstance` in
worker `w`: `nil`, `open`, `subscribed` (never cancelled by the code) or `dead`. Queues are
sets: every message is distinct and no property depends on order. `Deliver` hands any ready
command to any subscriber, as RabbitMQ does without a prefetch limit. `Disconnect` makes
what a connection held ready again and records it in `redelivered`.

**`Worker`** is `StartConsumer` with `ConsumeCommand`. `handler[w]` names the point the
handler has reached; each action is one call with an effect others can see: `GetConsumer`,
`Consume` (three outcomes, by the state of `ConsumerInstance`), `Run` (a command is taken
and run; its exit status chooses the result queue), `PublishResult`, `Signal`, `Ack`.
`ContextDone` and `DeliveriesClosed` are the two ways out of the loop, `Crash` the end of
the process. `ran` is a history of executions. A published result is `inTransit`, on the AMQP
connection of the worker's publisher, which is not the consumer's (`consume.go:81`): there are
no confirms and `Publish` returns 1 ms after writing the frame (`publish.go:95`), so the handler
goes on, and `ResultArrives` puts the result in its queue at any later time. It may be destroyed
first by a broken connection (`ResultLost`) or with the process (`Crash`); `lost` records that.

**`TaskRun`** is one call of `RunTaskOnAllMachines`: its own goroutine (`pc`), one
dispatcher per endpoint (`Dial`, `DialFails`, `DialCrashed`, `Recv`, `RecvEnds`,
`StreamBreaks`), the publishing loop with what `PublishWithRetry` can do to one message
(`Publish`, `PublishReturned`, `PublishGivesUp`, `PublishDropped`, `PublisherFails`), the
two collectors (`Subscribe`, `ReadResult`, `AckResult`, `CollectorExits` and their
failures), the goroutine that closes `done`, and the return (`Collected`,
`CloseConsumers`). A `Done` on a WaitGroup at zero leads to the state `panic`. `clientConns`
are the endpoints a gRPC `ClientConn` was opened for; no step closes one. The initial
states leave open which commands and machines the task has, even none, and what earlier
tasks left in each `ConsumerInstance`.

**`TaskProperties`** states what is checked and proved about `TaskRun`.

**`TaskContract`** is the task as `HandleWebhook` sees it, without broker, stream, goroutine or
counter: commands are accepted, handed out again, run and settled, and the call waits,
collects, and returns. Until something is handed out again it is exact. `KeepsContract` in
`TaskProperties` is its specification under the mapping of `pc` to a phase, `publication` and
`redelivered` to sets of commands, and `ran` and `outputs` to executions.

**`Pipeline`** is several calls of `RunTaskOnAllMachines` at a time, on shared queues and on
workers that keep their `ConsumerInstance`: webhooks side by side, each with its tasks in turn.
`pc[c]` is where call `c` is, `handler[x]` where the `StartConsumer` that a call opened on a
worker is. `Check` and `Create` are the two halves of `getConsumer`, between which another
handler may run; `conn[u]` is the connection of the Consumer that handler `u` made and
`using[x]` the Consumer that `x` reads from, which may be another's. Nothing fails in this
model but what calls do to one another: a second subscription with a tag in use makes the
broker close the connection (`ConsumeTagInUse`). Commands and results carry no owner in the
code, so a handler runs any command, a collector reads any result, and each counts for the
call that received it. The histories `overlap` and `mixed` record whether two calls were
under way at once, and whether a call met another or something an earlier one had left.
`Contract(c)` is `TaskContract` under the mapping of call `c`: its commands are those it
published, its executions those of its commands by any handler, nothing is repeated, and the
wait is over when `wg[c]` is at zero. `CallsKeepContract` asks every step for a step of the
contract of every call, as long as `mixed` is false.

**`Config`** is `pkg/config`: `NewConfig` with `expandEnv`, `parseHost` and the two validations
whose errors it drops, as operators from a file to a configuration or `Nil`. A text is a value
that may be empty, may expand to another, and may equal another; ports are numbers and
`Uint16` is the conversion. **`Executor`** is `NewWorkerBuilder`, `NewTaskExecutor` and
`getTasksMachine`, as operators from a configuration. **`Connections`** is `pkg/grpc` and the
`main` of a worker: a host holds some of three secrets, and what each side needs of them
decides who exits, who gets a nil connection and who serves (`Reachable`).

**`Orchestrator`** is the process: `main` loads the configuration and serves; each webhook calls
`GetConfig` and goes on as `HandleWebhook`. `GetConfig` is four actions, `Check`, `Cached`,
`Load` and `Store`, which interleave with those of other webhooks and with edits of the file.
`Cached` may hand out the value that was checked or read `Cfg` again: the source reads it
twice, and without synchronisation a compiler may merge the reads. `dead` records what ended
the process.

**`Build`** is `HandleWebhook` around the build. `stage[h]` is where webhook `h` is,
`step[h][e]` where its goroutine for endpoint `e` is. The disks are `metadata` (one file, on
the orchestrator's host: `getWorkerConfig` makes a `WorkerBuilderServer` in the
orchestrator's own process), `cloned`, `fetched` (which push the reference `pr-<id>` is
at), `worktree` and `dirty` (worktrees with files git does not know) for each host. Pushes
are counted, so that "newer" has a meaning.

A fetch is two steps, because `remote.Fetch` of go-git is several: `ListReferences` sees the head
of the pull request at the remote (`listed`), and `UpdateReference`, when the pack is
transferred, forces the reference to what was seen, whatever it is by then. So a slow fetch may
set a reference back. go-git reads the reference before it writes it, by compare-and-set: when
another fetch changed it after this one's listing (`raced`), this one may be refused. A fetch
whose caller is gone (`FetchFails`, `Crash`) may go on in the worker (`late`, `ListLate`,
`UpdateLate`). Setting a reference under a worktree that has it checked out makes the worktree
differ from its branch (`moved`), and `git worktree remove` then refuses it as it refuses one with
untracked files (`Clean`).

Build steps run by `bash` in the orchestrator's process and so succeed only if the worktree is
on its host. Calls other than a fetch may fail before or after they took effect, and if after, it
is by the time they are seen to fail. `Crash` is a killed orchestrator or one of the nil
dereferences the code runs into (a connection that could not be made, `build.go:188-200`
and `130-138`; an RPC error of `CreateWorkTree`, `build.go:63-64`).

Definitions named `Bug_...` are mutations of the definition that
follows: each is a plausible mistake, and TLC finds the property it is listed with violated
when it takes the place of the definition.

## 3. Runs

| Run | Instance | Checks |
|---|---|---|
| `task_redelivery` | 2 workers, 2 commands, one crash anywhere | the other safety properties of `TaskProperties`, and that `TaskRun` implements `TaskContract` |
| `task_partial` | 2 workers, 1 command, any 2 faults of the 5 kinds, any state left by earlier tasks, the sleep may be too short | the same but for the type invariant, and `NoResultVanishes` |
| `task_live` | 2 workers, 2 commands, no faults, fair | `TaskReturns`, `QueueDrains` |
| `task_failover` | 2 workers, 1 command, one crash or lost connection of a worker or collector, fair | `Failover`, `GoroutinesEnd` |
| `build_hooks` | 2 webhooks, 1 pull request, 2 pushes, 2 endpoints on 1 or 2 hosts, one fault | `BuildsWhatWasPushed`, `NoWorktreeLeft`, `WarmBuildSyncs` |
| `build_answers` | 2 webhooks, 1 pull request, 2 endpoints on 1 host, one fault, fair | `BuildsEnd` |
| `orchestrator_requests` | 3 webhooks, 1 worker, 8 contents of the file, 1 edit, any of 3 sets of secrets on each host | `NilConfigOnlyByRace`, `StartConfigStays`, `AddressSurvives` |
| `orchestrator_answers` | 2 webhooks, otherwise the same, fair | `ValidIsAnswered` |
| `pipeline_mix` | one webhook with two tasks in turn on `w1`, another with a task on `w1` and `w2`, a command each | `NothingLost`, `TwiceOnlyWhenClosed`, `OneConsumer`, `PanicNeedsMixing`, `ReportsItsOwn`, `CallsKeepContract` |

What the properties of `Build` exempt happens: without `met`, `moved` or `raced` in
`BuildsWhatWasPushed`, `NoWorktreeLeft` and `WarmBuildSyncs`, TLC finds each violated without a
fault, by two webhooks of one pull request with a push between them.

The remaining runs each show a sentence of the documentation to be untrue of the code:

| Run | Sentence | What happens |
|---|---|---|
| `later_task_hangs` | the two tasks of `examples/conflow-ci.yaml` | a worker subscribes a second time with the same tag, its connection is closed, nobody consumes |
| `build_endpoint_unsynced` | build.go:216 | one endpoint writes the metadata file before another looks for it: the other never clones |
| `runs_on_ignored` | types.go:54 | with two webhooks at a time, a command runs on a machine its task does not name |

**Bounds.** Two workers are enough for a command to move from one to another and for two
acknowledgements, finish messages and results to interleave; two commands are enough for
one to stand in for the other in a count (section 6).
`MaxFaults` bounds faults per behaviour: two are enough for one fault while recovering
from another. `MaxRetries` is 2 for the code's 10: `PublishWithRetry` treats all attempts but
the last alike. Two webhooks of one pull request meet in every stage; webhooks of two pull
requests share only the repository and the metadata file, which those of one share too, and the
proofs have any number of both. Two pushes are the fewest that let a fetch be overtaken;
`build_answers` has one, since no wait depends on pushes. Three webhooks are the fewest that let
`GetConfig` hand out nil: one that loaded a configuration, one that failed to, one that was
in between; one edit is needed for the two to differ. The eight contents are a good file, an
unreadable one, an unset variable, a port that is no number, one beyond 2^16 that wraps to
another worker's, a machine that does not exist, no hosts, and two hosts with two tasks.
`MaxFound` bounds the files that `find` reports: none or one. In `pipeline_mix` three calls of
one command each meet in every order, and the second call of one webhook finds what its first
left. Workers, commands, webhooks, pull requests and
endpoints are interchangeable, so safety runs use symmetry; liveness runs do not. The
proofs below remove the bounds for the safety properties.

`CHECK_DEADLOCK FALSE` is set in every run because a task that returned, one that waits for
ever, and a webhook that was answered may all have nothing left to do.

**Fairness.** `TaskRun` assumes weak fairness of each goroutine, each handler and the
broker's deliveries and arrivals: the Go scheduler runs every goroutine that can run, gRPC
delivers or fails, RabbitMQ pushes to subscribers and takes what was published while it is up.
No fault is fair. A `select` with both `done` closed and messages ready picks at random, so it
ends with probability one; here the results have all been read when `done` is closed. `Build`
assumes that each goroutine runs and that its calls and build steps return; the calls have no
deadline (`build.go:198`), so this is an assumption on workers and network. That tasks end is *not*
assumed: `RemoveAll` is not fair, and `BuildsEnd` is about what comes before the tasks and after
them, because an endpoint that cannot be dialled, or a second task, holds a webhook between the
two for ever (section 6, `later_task_hangs`). Pushes, new webhooks and fetches without a caller
are not fair. `Orchestrator` assumes weak fairness of each handler, of the workers' start-up, and
of the end of a task that is executable and met no other, which `task_live` checks; a task that
met another may do anything.

## 4. Proofs

`TaskProofs` proves, of `Spec` for any finite sets of workers and commands and any number of
faults of any kind:

| Theorem | Property |
|---|---|
| `TypeCorrect` | every variable keeps its type; counters stay natural numbers |
| `NothingVanishes` | an accepted command is ready, held or run |
| `AtMostOnce` | only a redelivered command runs twice |
| `NoPanic` | without redelivery no counter goes below zero |
| `ReportIsComplete` | without redelivery a nil return reports everything that ran and every command |
| `QuietAfterWait` | without redelivery no command runs after `wg.Wait` |
| `ResultsAreKept` | a finish message is sent after its result, and only a fault destroys a result |

The inductive invariant is built in layers, each preserved with the help of those before:
`TypeInv` (types, and a busy handler has a command); `Placement` (only queued commands are
anywhere, and none is nowhere); `Unique` (a command that was not redelivered is in one place
only: ready, held by one worker or run); `Waiting` (a finish message is sent once per
execution, and `wg` is the number of commands less the messages received); `Results` (a
result is read once, `cmdRes` is the number of commands less the results read, and the
report is what was read). `Kept`, for `ResultsAreKept`, stands beside them: it adds to
`NoResultVanishes` what a handler has published and has still to signal. `RunAtMostOnce` and `NeverPanics` are conjuncts; they are not
inductive alone, because nothing in them says that a command that has run is in no queue or
that a message not yet received has not been counted. At a `Recv` with `wg = 0` the
executions received would be as many as the commands and the one in transit one more, which
`CountOneMore` and `CountedAll` refute by counting. The sets are finite by
`MessageQueueAssumption`.

`BuildProofs` proves, of `Spec` for any sets and any bounds:

| Theorem | Property | Inductive invariant |
|---|---|---|
| `BuildTypeCorrect` | types; tasks run and answers go out after every goroutine waited for | itself |
| `BuildIsFresh` | `BuildsWhatWasPushed` | `Fresh`: nothing listed or set passes the head; when a webhook comes and no fetch of its pull request is between listing and setting, every later listing is at least the push it is about (`Knows`), and so is what its own fetch sets and its worktree holds |
| `WarmBuild` | `WarmBuildSyncs` | `Warmth`: set up stays set up, so no goroutine of the webhook clones, and only a fetch in `raced` is refused |
| `WorktreesGo` | `NoWorktreeLeft` | `Owned`: without faults, every worktree that is clean has a goroutine that will remove it, and one that differs from its branch is in `moved` |

`TaskRefinement` proves `TaskKeepsContract`, that `Spec` implies `KeepsContract`: from the
invariant `IInv` of `TaskProofs`, every step of `TaskRun` maps to a step of `TaskContract` or
leaves its variables unchanged. The lemmas go actor by actor (the broker, a handler, the
task); the steps that need the invariant are an execution (the command was not settled and
has not run, unless redelivered), the end of the wait (all of the commands have run) and the
return (the report is everything that ran).

`PipelineProofs` proves, of `Spec` for any webhooks, tasks, machines and numbers of commands:

| Theorem | Property | Inductive invariant |
|---|---|---|
| `PipelineTypeCorrect` | types; counters stay natural numbers | with `Reading`: a handler in its loop uses a Consumer that exists |
| `NothingIsLost` | `NothingLost` | `Placement`: a published command is held at most once, and until it ran at least once; a handler acknowledges only what it ran |
| `TwiceTakesAClose` | `TwiceOnlyWhenClosed` | `Closing`: on a connection that is not closed only unacknowledged messages are buffered, and a command that ran there is nowhere else |
| `OneConsumerPerWorker` | `OneConsumer` | `TurnInv`: `getConsumer` runs only while its call dials, and without overlap one call is under way |

`UnmixedProofs` proves, of the same, what holds until a call meets another or what an earlier
one left:

| Theorem | Property |
|---|---|
| `PanicOnlyByMixing` | `PanicNeedsMixing`: no WaitGroup goes below zero |
| `UnmixedReportsItsOwn` | `ReportsItsOwn`: a returned call reports each of its commands once, and nothing else |

Neither is inductive: handlers of earlier calls go on reading and running, Consumers stay
subscribed, and a counter alone does not say whose message it will count next. The invariant
`Unmixed` has five layers. `Turns`: one call is under way. `Places`: all that the queues and the
workers hold is that call's, and a worker still owes the broker what it is running; a handler
that is refused its tag therefore closes a connection that holds nothing (`TagInUseHarmless`).
`RunOnce`: no command has two executions. `Counted`: `cmdRes` is the number of commands less
those among the results read, and a queued result is of a command not yet read, so a collector
never finds the counter at zero (`QueuedResultIsNew`). `Owing`: `wg[c]` is the size of a set of
undone commands, and the finish messages in the streams stand for disjoint parts of it. The
sets are not in the model: `Owing` says that they exist, and the proof of each step gives the
next ones (`Signal` adds a command to its stream's, `Recv` removes one from both). A sum over
the streams of a call would say the same, but needs induction over the handlers.

`PipelineRefinement` proves `CallsRefineContract`, that `Spec` implies `CallsKeepContract`, with
one more conjunct, `Waited` (a call past its wait has `wg` at zero for ever). An execution by a
handler of any call maps to `Execute` of the call whose command it is, which has not returned
because its `wg` still counts the command (`StillCounted`); the end of the wait and the return
map to `Finish` and `Return` because nothing is left to run and nothing else was run.

`OrchestratorProofs` proves, of `Spec` for any webhooks, contents of the file and edits:

| Theorem | Property | Inductive invariant |
|---|---|---|
| `OrchestratorTypeCorrect` | types; a webhook past the route has a configuration | itself |
| `StartConfigKept` | `StartConfigStays` | `StartInv`: no webhook is taken while `main` loads, and after a successful start nobody is in the loading half of `GetConfig` |
| `NilConfigNeedsRace` | `NilConfigOnlyByRace` | `History` and `NilSeen`: where a configuration came from, who failed, and that both are needed before a nil is seen; uses `StartInv` |
| `AddressesSurvive` | `AddressSurvives` | the types; `HostAddress` is parsing and formatting, `PortKept` the arithmetic |

The proofs assume only the named assumptions on the constants. Every safety property and every
action property that a run checks is proved. Liveness (`TaskReturns`, `QueueDrains`,
`GoroutinesEnd`, `Failover`, `BuildsEnd`, `ValidIsAnswered`) is checked by TLC only: fairness
and `ENABLED` are beyond the prover.

## 5. What is left out

* A restart of the broker: exchange and queues are not durable (`consume.go:34-57`), so it
  loses all of them and the code means the pipeline to start over. A worker that is started
  again: the task under way does not dial it a second time.
* Faults while calls overlap: `TaskRun` has the faults and one call, `Pipeline` several calls
  and no faults. `Pipeline` takes the two collectors of a call together, leaves the exit status
  of a command open (a result is in either queue), has results queued as they are published
  (only a collector looks for them, and may look late), and has the sleep of 3 s suffice.
* The time between publishing a command and the broker having it: the orchestrator goes on to
  wait for finish messages only, and deliveries come at any later time.
* The order of a queue, the text of commands and results, and logging.
* What a clone looks like while it is running. A clone is one step of the worker. A reference is
  read and written as a whole.
* Pull requests of different forks with equal branch names, which share a worktree path.
* Build outputs, which are only logged; the contents of certificates; where task files lie on
  disk; SSH and crypto helpers, test containers, generated code.

## 6. Where the code stops short of its promises

Beside the runs of section 3 that exhibit a divergence, the models contain these
consequences, which the safety properties are stated around:

* A command whose publisher cannot be created is skipped and stays counted: the task waits in
  `wg.Wait` for ever (`runner.go:91`), though `publish.go:32` wants the pipeline to fail when the
  message queue is down.
* The WaitGroups count messages, not commands. After a redelivery two results of one command
  stand for two commands, and `done` is closed with another never run (`runner.go:74`), though
  `runner.go:124` says that all results have been read. `TaskContract` says what is left then.
* `wg.Done` comes before `d.Ack` (`consume.go:171-172`): the call may return and close the
  channel in between, and the result stays queued for the next task. In `Pipeline` this is a
  way to `mixed`.
* A task without errors ends in `RunningTask` (`runner.go:145`), though `types.go:33` has a state
  for completion.
* The errors of `ValidatePipeline` and `ValidateProvider` are dropped (`config.go:46-47`), though
  `config.go:24` promises a validated configuration. A task without `runs_on`, or with the name
  of no host, waits for ever with its commands queued; `files: []` passes as a list of no files.
  `ValidIsAnswered` therefore has validity as a premise.
* A configuration without hosts whose task looks for files ends the process (`executor.go:28`).
* A port of 65536 or more is taken modulo 2^16 (`host.go:42`) without an error.
* A client connection needs the client's key pair, on the orchestrator as on every worker, which
  calls itself (`worker/main.go:56`); `src/README.md` has each make only one of the two pairs.
  Without the CA the orchestrator starts, and exits at its first webhook (`util.go:38`).
* `-tls=false` on the orchestrator reaches no worker, which always asks for TLS (`util.go:57-60`).
* Every call of `RunTaskOnAllMachines` opens a `ClientConn` for each endpoint and closes none
  (`runner.go:41`; `build.go:196` closes its own): their goroutines stay, here and in the worker,
  for as long as the process lives. `GoroutinesEnd` is about the others.
* A collector that loses its connection before the last result spins and waits for ever with its
  task (`consume.go:166-174`).
* A fetch that is slow, or that a worker goes on with after its caller gave up, may set the
  reference back to an older push (`util.go:78`), which a webhook then builds.
* A push between two webhooks of one pull request leaves their worktree: the fetch of the second
  moves the branch under it, git refuses to remove it, the refusal is not looked at
  (`build.go:109`), and every later build of that branch is refused its worktree.
* One endpoint that cannot be dialled leaves `consumersReady.Wait` waiting for ever
  (`runner.go:42`, `54`): the goroutine returns before `consumersReady.Done`.
* An error of a collector is logged, but the `err` returned is that of the last
  `NewConsumer`: the task returns nil with no outputs (`runner.go:138`).
* A clone followed by a failing fetch or metadata write leaves a repository without metadata:
  every later build clones into it and is refused (`build.go:223-246`).
* A worktree in which a build left untracked files is not removed, and the next build of
  that branch cannot create it (`build.go:109`).
* Build steps run on the orchestrator's host (`build.go:88`), whichever endpoint they are for: in
  the worktree that is there, which another webhook may have made of an older push.

## 7. Plan

1. *Done:* `MessageQueue`, `Worker`, `TaskRun` with runs and proofs; `Build` with runs and
   proofs; `TaskContract` with the refinement checked and proved; `Pipeline`, `Config`,
   `Executor`, `Connections` and `Orchestrator` with runs and proofs.
2. *Done:* proofs of `PanicNeedsMixing`, `ReportsItsOwn`, `CallsKeepContract` and
   `TwiceOnlyWhenClosed`.
3. `Build`, extended: branch names shared by pull requests of different forks.
4. A run of `Pipeline` with one lost connection, when its state space allows; `CallsKeepContract`
   then with what was redelivered as `repeated`.
