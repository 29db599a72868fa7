---------------------------- MODULE Orchestrator ----------------------------
(***************************************************************************)
(* The orchestrator process (cmd/orchestrator/main.go): it loads the       *)
(* configuration, serves webhooks (internal/orchestrator), and hands each  *)
(* the configuration that GetConfig returns (pkg/config/config.go).        *)
(*                                                                         *)
(* GetConfig takes no lock, and fiber runs handlers concurrently, so its   *)
(* steps interleave:  check -> cached,  or  check -> load -> store.        *)
(* A webhook goes on  handler -> build -> tasks <-> run -> cleanup         *)
(* -> answered,  or ends as refused, or hung in a task.                    *)
(*                                                                         *)
(* A build is Build, a task TaskRun, seen from the caller: a task returns  *)
(* for certain only when it is the first one the workers see and no other  *)
(* runs at the same time (TaskReturns); Pipeline has the rest.             *)
(***************************************************************************)
EXTENDS Executor, Connections

CONSTANTS
  Requests,  \* webhook requests
  Contents,  \* what each version of the configuration file holds
  MaxEdits,  \* bound: how often the file is changed
  MaxFound   \* bound: how many files find reports

Versions == DOMAIN Contents

(* The configuration that a version is loaded to; config.Cfg and the        *)
(* callers of GetConfig point to one of these.                              *)
Config == [v \in Versions |-> NewConfig(Contents[v])]

Main == "main"  \* the call of GetConfig at start-up

Callers == Requests \cup {Main}

ASSUME OrchestratorAssumption ==
  /\ Main \notin Requests
  /\ Nil \notin Versions
  /\ \A v \in Versions : IsFile(Contents[v])
  /\ MaxEdits \in Nat
  /\ MaxFound \in Nat

VARIABLES
  file,    \* the version of the configuration file
  edits,   \* how often it was changed
  Cfg,     \* the variable config.Cfg: the version it was loaded from, or nil
  pc,      \* pc[c]: where the goroutine of c is
  got,     \* got[c]: what GetConfig has loaded, or seen, or handed out
  loaded,  \* history: loaded[c]: how the NewConfig of c ended
  next,    \* next[r]: the index of the task under way
  te,      \* te[r]: the TaskExecutor of that task
  used,    \* some task was started on a worker
  alone,   \* history: webhooks none of whose tasks met another task's traces
  dead     \* "" or why the process ended

fileVars == <<file, edits>>
configVars == <<Cfg, got, loaded>>
taskVars == <<next, te, used, alone>>

vars == <<connectionVars, fileVars, configVars, taskVars, pc, dead>>

NoTask == [runsOn |-> <<>>, cmds |-> {}]

Causes == {"", "nil config", "exit", "nil connection", "index", "tasks mixed"}

Init ==
  /\ ConnectionsInit
  /\ file \in Versions
  /\ edits = 0
  /\ Cfg = Nil
  /\ pc = [c \in Callers |-> IF c = Main THEN "check" ELSE "idle"]
  /\ got = [c \in Callers |-> Nil]
  /\ loaded = [c \in Callers |-> "none"]
  /\ next = [r \in Requests |-> 1]
  /\ te = [r \in Requests |-> NoTask]
  /\ used = FALSE
  /\ alone = Requests
  /\ dead = ""

Move(c, from, to) ==
  /\ dead = ""
  /\ pc[c] = from
  /\ pc' = [pc EXCEPT ![c] = to]

Die(cause) == dead' = cause

(* Someone changes the configuration file.                                  *)
Edit ==
  /\ edits < MaxEdits
  /\ edits' = edits + 1
  /\ file' \in Versions \ {file}
  /\ UNCHANGED <<connectionVars, configVars, taskVars, pc, dead>>

-----------------------------------------------------------------------------
(* GetConfig.                                                               *)

(* Where c goes on; main does not look at the result.                       *)
Returned(c, to) == IF c = Main THEN "serving" ELSE to

(* A webhook arrives.                                                       *)
Arrive(r) ==
  /\ pc[Main] = "serving"
  /\ Move(r, "idle", "check")
  /\ UNCHANGED <<connectionVars, fileVars, configVars, taskVars, dead>>

(* Mutation: a configuration is loaded for every call.                      *)
Bug_AlwaysLoad(c) ==
  /\ Move(c, "check", "load")
  /\ UNCHANGED <<connectionVars, fileVars, configVars, taskVars, dead>>

(* if Cfg != nil.                                                           *)
Check(c) ==
  /\ Move(c, "check", IF Cfg = Nil THEN "load" ELSE "cached")
  /\ got' = [got EXCEPT ![c] = Cfg]
  /\ UNCHANGED <<connectionVars, fileVars, Cfg, loaded, taskVars, dead>>

(* return Cfg, nil: the build may read Cfg again or keep what it read.      *)
Cached(c) ==
  /\ Move(c, "cached", Returned(c, "handler"))
  /\ \E cfg \in {got[c], Cfg} : got' = [got EXCEPT ![c] = cfg]
  /\ UNCHANGED <<connectionVars, fileVars, Cfg, loaded, taskVars, dead>>

Load(c) ==
  /\ Move(c, "load", "store")
  /\ got' = [got EXCEPT ![c] = IF Config[file] = Nil THEN Nil ELSE file]
  /\ loaded' = [loaded EXCEPT ![c] = IF Config[file] = Nil THEN "failed" ELSE "ok"]
  /\ UNCHANGED <<connectionVars, fileVars, Cfg, taskVars, dead>>

(* Mutation: GetConfig returns Cfg, whatever NewConfig returned.            *)
Bug_ErrorIgnored(c) ==
  /\ Move(c, "store", Returned(c, "handler"))
  /\ Cfg' = got[c]
  /\ UNCHANGED <<connectionVars, fileVars, got, loaded, taskVars, dead>>

(* Cfg = c, a nil after an error too.                                       *)
Store(c) ==
  /\ Move(c, "store", Returned(c, IF got[c] = Nil THEN "refused" ELSE "handler"))
  /\ Cfg' = got[c]
  /\ UNCHANGED <<connectionVars, fileVars, got, loaded, taskVars, dead>>

-----------------------------------------------------------------------------
(* HandleWebhook.                                                           *)

(* Mutation: the handler is passed the pointer, and looks at it later.      *)
Bug_PointerPassed(r) ==
  /\ \E to \in {"refused", "build"} : Move(r, "handler", to)
  /\ UNCHANGED <<connectionVars, fileVars, configVars, taskVars, dead>>

(* The route dereferences what it was handed; another event than            *)
(* pull_request, or a body that does not parse, is refused.                 *)
Handle(r) ==
  /\ \/ /\ got[r] = Nil
        /\ Move(r, "handler", "handler")
        /\ Die("nil config")
     \/ /\ got[r] # Nil
        /\ \E to \in {"refused", "build"} : Move(r, "handler", to)
        /\ UNCHANGED dead
  /\ UNCHANGED <<connectionVars, fileVars, configVars, taskVars>>

(* BuildAllEndpoints, as far as it decides whether the process lives: with  *)
(* an endpoint, a missing CA exits and a missing client pair leaves the     *)
(* connection nil, which is used.  Otherwise it ends (BuildsEnd).           *)
BuildEndpoints(r) ==
  LET wb == NewWorkerBuilder(Config[got[r]]) IN
  /\ Move(r, "build", "tasks")
  /\ dead' = CASE wb.runsOn # <<>> /\ ClientExits -> "exit"
               [] wb.runsOn # <<>> /\ ClientFails -> "nil connection"
               [] OTHER -> ""
  /\ UNCHANGED <<connectionVars, fileVars, configVars, taskVars>>

Tasks(r) == Config[got[r]].config.tasks

Running == {r \in Requests : pc[r] = "run"}

(* RunTaskOnAllMachines is called.  What it shares with other tasks is the  *)
(* broker's queues and each worker's consumer.                              *)
StartTask(r, executor) ==
  /\ Move(r, "tasks", "run")
  /\ te' = [te EXCEPT ![r] = executor]
  /\ alone' = IF used \/ Running # {} THEN alone \ (Running \cup {r}) ELSE alone
  /\ used' = (used \/ executor.runsOn # <<>>)
  /\ UNCHANGED <<next, dead>>

SkipTask(r) ==
  /\ Move(r, "tasks", "tasks")
  /\ next' = [next EXCEPT ![r] = @ + 1]
  /\ UNCHANGED <<te, alone, used, dead>>

(* NewTaskExecutor, for the next task; the call to find may fail.           *)
PrepareTask(r) ==
  /\ pc[r] = "tasks"
  /\ next[r] \in DOMAIN Tasks(r)
  /\ LET task == Tasks(r)[next[r]]
         cfg == Config[got[r]] IN
     \/ /\ IndexOutOfRange(cfg, task)
        /\ Move(r, "tasks", "tasks")
        /\ Die("index")
        /\ UNCHANGED taskVars
     \/ /\ ~FindsFiles(task)
        /\ StartTask(r, NewTaskExecutor(cfg, task, task.files))
     \/ /\ FindsFiles(task) /\ ~IndexOutOfRange(cfg, task)
        /\ \/ SkipTask(r)
           \/ /\ Reachable(cfg.endpoints[1])
              /\ \E n \in 0 .. MaxFound :
                   StartTask(r, NewTaskExecutor(cfg, task, GetFilesByRegex(n)))
  /\ UNCHANGED <<connectionVars, fileVars, configVars>>

(* Every dispatcher can open its stream, and there is a worker for the      *)
(* commands, if there are any.                                              *)
Executable(r) ==
  /\ \A i \in DOMAIN te[r].runsOn : Reachable(te[r].runsOn[i])
  /\ te[r].cmds = {} \/ te[r].runsOn # <<>>

TaskEnds(r) ==
  /\ Move(r, "run", "tasks")
  /\ Executable(r)
  /\ next' = [next EXCEPT ![r] = @ + 1]
  /\ te' = [te EXCEPT ![r] = NoTask]
  /\ UNCHANGED <<connectionVars, fileVars, configVars, used, alone, dead>>

(* A dispatcher gives up and consumersReady.Wait never returns, or nobody   *)
(* takes the commands.                                                      *)
TaskHangs(r) ==
  /\ ~Executable(r)
  /\ Move(r, "run", "hung")
  /\ UNCHANGED <<connectionVars, fileVars, configVars, taskVars, dead>>

(* Tasks that meet another's commands and results may hang one another or   *)
(* drive a WaitGroup below zero.                                            *)
TasksMix(r) ==
  /\ r \notin alone
  /\ \/ Move(r, "run", "hung") /\ UNCHANGED dead
     \/ Move(r, "run", "run") /\ Die("tasks mixed")
  /\ UNCHANGED <<connectionVars, fileVars, configVars, taskVars>>

TasksOver(r) ==
  /\ Move(r, "tasks", "cleanup")
  /\ next[r] \notin DOMAIN Tasks(r)
  /\ UNCHANGED <<connectionVars, fileVars, configVars, taskVars, dead>>

(* RemoveAllRepositoryWorkspaces, then 200 OK.                              *)
Answer(r) ==
  /\ Move(r, "cleanup", "answered")
  /\ UNCHANGED <<connectionVars, fileVars, configVars, taskVars, dead>>

-----------------------------------------------------------------------------

GetConfigStep(c) == Check(c) \/ Cached(c) \/ Load(c) \/ Store(c)

HandlerStep(r) ==
  \/ Handle(r)
  \/ BuildEndpoints(r)
  \/ PrepareTask(r)
  \/ TasksOver(r)
  \/ Answer(r)

WorkerStep ==
  /\ \E w \in Workers : WorkerStarts(w)
  /\ UNCHANGED <<fileVars, configVars, taskVars, pc, dead>>

Next ==
  \/ Edit
  \/ WorkerStep
  \/ \E c \in Callers : GetConfigStep(c)
  \/ \E r \in Requests :
       Arrive(r) \/ HandlerStep(r) \/ TaskEnds(r) \/ TaskHangs(r) \/ TasksMix(r)

(* Goroutines and worker processes go on; a task ends for certain when it   *)
(* met no other.                                                            *)
Fairness ==
  /\ WF_vars(WorkerStep)
  /\ \A c \in Callers : WF_vars(GetConfigStep(c))
  /\ \A r \in Requests : WF_vars(HandlerStep(r)) /\ WF_vars(r \in alone /\ TaskEnds(r))

Spec == Init /\ [][Next]_vars

FairSpec == Spec /\ Fairness

-----------------------------------------------------------------------------

PCs == {"check", "cached", "load", "store", "serving", "idle", "handler", "build",
        "tasks", "run", "hung", "cleanup", "answered", "refused"}

Loaded == {v \in Versions : Config[v] # Nil}

(* Every variable has its type, and a webhook works on a configuration that *)
(* some version of the file was loaded to.                                  *)
OrchestratorTypeOK ==
  /\ ConnectionsTypeOK
  /\ file \in Versions
  /\ edits \in Nat
  /\ Cfg \in Loaded \cup {Nil}
  /\ pc \in [Callers -> PCs]
  /\ got \in [Callers -> Loaded \cup {Nil}]
  /\ loaded \in [Callers -> {"none", "ok", "failed"}]
  /\ next \in [Requests -> Nat \ {0}]
  /\ used \in BOOLEAN
  /\ alone \subseteq Requests
  /\ dead \in Causes
  /\ \A r \in Requests : pc[r] \in {"build", "tasks", "run", "cleanup"} => got[r] # Nil

Started == pc[Main] = "serving" /\ loaded[Main] = "ok"

(* When the configuration could be loaded at start-up, every webhook runs   *)
(* with that one: no interleaving of GetConfig calls and edits of the file  *)
(* replaces it (config.go:12-22).                                           *)
StartConfigStays ==
  [][Started => /\ Cfg' = Cfg
                /\ \A r \in Requests : got'[r] # got[r] => got'[r] = Cfg]_vars

(* GetConfig hands out nil without an error only after a start-up without   *)
(* configuration, when of two other webhooks one loaded the file before an  *)
(* edit, or after one, that the other did not see (config.go:13-17).        *)
NilConfigOnlyByRace ==
  dead = "nil config" =>
    /\ loaded[Main] = "failed"
    /\ edits > 0
    /\ \E p, q \in Requests : loaded[p] = "ok" /\ loaded[q] = "failed"

(* A host whose port is a port, or that has none, is dialled under the      *)
(* address the file gives (host.go:28-45, 58-63).                           *)
AddressSurvives ==
  \A c \in Callers : got[c] # Nil =>
    \A i \in DOMAIN Config[got[c]].endpoints :
      LET address == Config[got[c]].config.hosts[i].address IN
      address.port = Nil \/ address.port \in 1 .. TwoTo16 - 1 =>
        GetEndpointURL(Config[got[c]].endpoints[i]) = address

(* A worker serves where each host is, and the orchestrator can call it.    *)
Prepared(cfg) ==
  /\ {"ca", "client"} \subseteq secrets[Orchestrator]
  /\ \A i \in DOMAIN cfg.endpoints : Reachable(cfg.endpoints[i])

KnowsMachines(cfg) ==
  \A i \in DOMAIN cfg.config.tasks : \E j \in DOMAIN cfg.endpoints :
    LET runsOn == cfg.config.tasks[i].runsOn IN
    \E k \in DOMAIN runsOn : runsOn[k] = cfg.endpoints[j].name

(* A webhook is answered whose configuration passes ValidatePipeline and    *)
(* names machines on which workers serve, unless its tasks meet others or   *)
(* the process dies of another webhook: whatever its own tasks look for or  *)
(* find, and whatever GetConfig does meanwhile (routes.go:15-23,            *)
(* handler.go:18-57, executor.go:19-77).                                    *)
ValidIsAnswered ==
  \A r \in Requests :
    (/\ pc[r] = "build"
     /\ LET cfg == Config[got[r]] IN
        Prepared(cfg) /\ ValidPipeline(cfg.config) /\ KnowsMachines(cfg))
    ~> \/ pc[r] = "answered"
       \/ r \notin alone
       \/ dead \in {"nil config", "index", "tasks mixed"}
=============================================================================
