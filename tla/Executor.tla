------------------------------ MODULE Executor ------------------------------
(***************************************************************************)
(* From a configuration to the work of a webhook: NewWorkerBuilder         *)
(* (internal/sync/build.go) and NewTaskExecutor (internal/sync/executor.go)*)
(***************************************************************************)
EXTENDS Config

LOCAL INSTANCE SequencesExt

(* NewWorkerBuilder: what of the configuration a build uses.                *)
NewWorkerBuilder(cfg) ==
  [name |-> cfg.config.build,
   runsOn |-> cfg.endpoints,
   steps |-> cfg.config.steps,
   cloneURL |-> GetCloneURL(cfg),
   token |-> GetToken(cfg)]

(* Mutation: the loop over the hosts starts at the second.                  *)
Bug_FromSecond(cfg, task) ==
  SelectSeq(Tail(cfg.endpoints), LAMBDA ep : ep.name \in ToSet(task.runsOn))

(* getTasksMachine: in the order of the hosts; two hosts of one name are    *)
(* both taken, a name without host is not missed.                           *)
GetTasksMachine(cfg, task) ==
  SelectSeq(cfg.endpoints, LAMBDA ep : ep.name \in ToSet(task.runsOn))

(* task.File is nil: the files are those that find reports on the host of   *)
(* the first endpoint.                                                      *)
FindsFiles(task) == task.files = Nil

(* Endpoints[0] without endpoints.                                          *)
IndexOutOfRange(cfg, task) == FindsFiles(task) /\ cfg.endpoints = <<>>

(* The n lines that find reports, each a file.                              *)
GetFilesByRegex(n) == [i \in 1 .. n |-> i]

(* te, for the files the task names or finds: every command with every file.*)
NewTaskExecutor(cfg, task, files) ==
  [runsOn |-> GetTasksMachine(cfg, task),
   cmds |-> {<<i, j>> : i \in DOMAIN task.commands, j \in DOMAIN files}]
=============================================================================
