------------------------- MODULE OrchestratorProofs -------------------------
(***************************************************************************)
(* Proofs about Orchestrator, for any number of webhooks and workers, any  *)
(* contents of the file and any number of edits.                           *)
(*                                                                         *)
(* StartInv says who may be inside GetConfig when.  RaceInv says what has  *)
(* been loaded before a nil can be seen.                                   *)
(***************************************************************************)
EXTENDS Orchestrator, TLAPS

-----------------------------------------------------------------------------
(* Types.                                                                   *)

LEMMA LoadType ==
  ASSUME NEW v \in Versions
  PROVE  (IF Config[v] = Nil THEN Nil ELSE v) \in Loaded \cup {Nil}
  BY DEF Loaded

LEMMA TypeInit == Init => OrchestratorTypeOK
<1> SUFFICES ASSUME Init PROVE OrchestratorTypeOK
  OBVIOUS
<1>1. ConnectionsTypeOK
  BY DEF Init, ConnectionsInit, ConnectionsTypeOK, WorkerStates
<1>2. pc \in [Callers -> PCs]
  BY DEF Init, PCs
<1>3. \A r \in Requests : pc[r] = "idle"
  BY OrchestratorAssumption DEF Init, Callers
<1>4. got \in [Callers -> Loaded \cup {Nil}] /\ loaded \in [Callers -> {"none", "ok", "failed"}]
  BY DEF Init
<1>5. next \in [Requests -> Nat \ {0}]
  <2>1. 1 \in Nat \ {0}
    OBVIOUS
  <2> QED
    BY <2>1, Zenon DEF Init
<1>6. file \in Versions /\ edits \in Nat /\ Cfg \in Loaded \cup {Nil} /\ dead \in Causes
  BY DEF Init, Causes
<1>7. used \in BOOLEAN /\ alone \subseteq Requests
  BY DEF Init
<1> QED
  BY <1>1, <1>2, <1>3, <1>4, <1>5, <1>6, <1>7 DEF OrchestratorTypeOK

LEMMA GetConfigTypes ==
  ASSUME OrchestratorTypeOK, NEW c \in Callers, GetConfigStep(c)
  PROVE  OrchestratorTypeOK'
<1> USE DEF OrchestratorTypeOK, connectionVars, fileVars, taskVars, Returned
<1>c. ConnectionsTypeOK' /\ UNCHANGED <<file, edits, next, used, alone, dead>>
  BY DEF GetConfigStep, Check, Cached, Load, Store, ConnectionsTypeOK
<1>p. /\ pc' \in [Callers -> PCs]
      /\ pc[c] \in {"check", "cached", "load", "store"}
      /\ pc'[c] \in {"load", "cached", "store", "serving", "handler", "refused"}
      /\ \A d \in Callers : d # c => pc'[d] = pc[d]
  BY DEF GetConfigStep, Check, Cached, Load, Store, Move, PCs
<1>g. /\ got' \in [Callers -> Loaded \cup {Nil}]
      /\ \A d \in Callers : d # c => got'[d] = got[d]
      /\ Cfg' \in Loaded \cup {Nil}
      /\ loaded' \in [Callers -> {"none", "ok", "failed"}]
  BY LoadType DEF GetConfigStep, Check, Cached, Load, Store
<1> QED
  BY <1>c, <1>p, <1>g DEF Callers

LEMMA HandlerTypes ==
  ASSUME OrchestratorTypeOK, NEW r \in Requests,
         Arrive(r) \/ HandlerStep(r) \/ TaskEnds(r) \/ TaskHangs(r) \/ TasksMix(r)
  PROVE  OrchestratorTypeOK'
<1> USE DEF OrchestratorTypeOK, connectionVars, fileVars, configVars, taskVars
<1>c. ConnectionsTypeOK' /\ UNCHANGED <<file, edits, Cfg, got, loaded>>
  <2>1. UNCHANGED <<connectionVars, fileVars, configVars>>
    BY DEF HandlerStep, Arrive, Handle, BuildEndpoints, PrepareTask, StartTask, SkipTask,
           TasksOver, Answer, TaskEnds, TaskHangs, TasksMix
  <2> QED
    BY <2>1 DEF ConnectionsTypeOK
<1>p. /\ pc' \in [Callers -> PCs]
      /\ \A d \in Callers : d # r => pc'[d] = pc[d]
      /\ pc'[r] \in {"build", "tasks", "run", "cleanup"} =>
           got[r] # Nil \/ pc[r] \in {"build", "tasks", "run", "cleanup"}
  <2> USE DEF Move, PCs, Callers
  <2>1. CASE Arrive(r) \/ TasksOver(r) \/ Answer(r)
    BY <2>1 DEF Arrive, TasksOver, Answer
  <2>2. CASE Handle(r)
    <3>1. \/ Move(r, "handler", "handler") \/ Move(r, "handler", "refused")
          \/ got[r] # Nil /\ Move(r, "handler", "build")
      BY <2>2, Zenon DEF Handle
    <3> QED
      BY <3>1
  <2>3. CASE BuildEndpoints(r)
    BY <2>3 DEF BuildEndpoints
  <2>4. CASE PrepareTask(r)
    <3>1. Move(r, "tasks", "run") \/ Move(r, "tasks", "tasks")
      BY <2>4 DEF PrepareTask, StartTask, SkipTask
    <3> QED
      BY <3>1
  <2>5. CASE TaskEnds(r) \/ TaskHangs(r) \/ TasksMix(r)
    BY <2>5 DEF TaskEnds, TaskHangs, TasksMix
  <2> QED
    BY <2>1, <2>2, <2>3, <2>4, <2>5 DEF HandlerStep
<1>u. used' \in BOOLEAN
  <2>1. UNCHANGED used \/ \E executor : StartTask(r, executor)
    BY DEF HandlerStep, Arrive, Handle, BuildEndpoints, PrepareTask, SkipTask, TasksOver,
           Answer, TaskEnds, TaskHangs, TasksMix
  <2>2. ASSUME NEW executor, StartTask(r, executor) PROVE used' \in BOOLEAN
    <3>1. used' = (used \/ executor.runsOn # <<>>)
      BY <2>2, Zenon DEF StartTask
    <3>2. CASE used
      BY <3>1, <3>2, Zenon
    <3>3. CASE ~used
      BY <3>1, <3>3, Zenon
    <3> QED
      BY <3>2, <3>3
  <2> QED
    BY <2>1, <2>2
<1>n. next' \in [Requests -> Nat \ {0}]
  <2>1. next' = next \/ next' = [next EXCEPT ![r] = next[r] + 1]
    BY DEF HandlerStep, Arrive, Handle, BuildEndpoints, PrepareTask, StartTask, SkipTask,
           TasksOver, Answer, TaskEnds, TaskHangs, TasksMix
  <2> QED
    BY <2>1
<1>a. alone' \subseteq Requests
  BY DEF HandlerStep, Arrive, Handle, BuildEndpoints, PrepareTask, StartTask, SkipTask,
         TasksOver, Answer, TaskEnds, TaskHangs, TasksMix, Running
<1>d. dead' \in Causes
  BY DEF HandlerStep, Arrive, Handle, BuildEndpoints, PrepareTask, StartTask, SkipTask,
         TasksOver, Answer, TaskEnds, TaskHangs, TasksMix, Die, Causes
<1> QED
  BY <1>c, <1>p, <1>n, <1>a, <1>u, <1>d DEF Callers

LEMMA WorkerTypes ==
  ASSUME ConnectionsTypeOK, NEW w \in Workers, WorkerStarts(w)
  PROVE  ConnectionsTypeOK'
  BY DEF ConnectionsTypeOK, WorkerStarts, Listen, LoadCredentials, Serve, Become,
         WorkerStates

LEMMA TypeNext == OrchestratorTypeOK /\ [Next]_vars => OrchestratorTypeOK'
<1> SUFFICES ASSUME OrchestratorTypeOK, [Next]_vars PROVE OrchestratorTypeOK'
  OBVIOUS
<1>1. CASE Edit
  BY <1>1 DEF Edit, OrchestratorTypeOK, ConnectionsTypeOK, connectionVars, configVars, taskVars
<1>2. CASE WorkerStep
  <2>1. ConnectionsTypeOK'
    BY <1>2, WorkerTypes DEF WorkerStep, OrchestratorTypeOK
  <2> QED
    BY <1>2, <2>1 DEF WorkerStep, OrchestratorTypeOK, fileVars, configVars, taskVars
<1>3. ASSUME NEW c \in Callers, GetConfigStep(c) PROVE OrchestratorTypeOK'
  BY <1>3, GetConfigTypes
<1>4. ASSUME NEW r \in Requests,
             Arrive(r) \/ HandlerStep(r) \/ TaskEnds(r) \/ TaskHangs(r) \/ TasksMix(r)
      PROVE  OrchestratorTypeOK'
  BY <1>4, HandlerTypes
<1>5. CASE UNCHANGED vars
  BY <1>5 DEF vars, OrchestratorTypeOK, ConnectionsTypeOK, connectionVars, fileVars,
              configVars, taskVars
<1> QED
  BY <1>1, <1>2, <1>3, <1>4, <1>5 DEF Next

(* Every variable keeps its type, and a webhook past the route has a        *)
(* configuration that was loaded (routes.go:17-22).                         *)
THEOREM OrchestratorTypeCorrect == Spec => []OrchestratorTypeOK
<1> QED
  BY TypeInit, TypeNext, PTL DEF Spec

-----------------------------------------------------------------------------
(* Ports and addresses.                                                     *)

LEMMA ModSmall ==
  ASSUME NEW m \in Nat \ {0}, NEW n \in 0 .. m - 1
  PROVE  n % m = n
  BY SMT

LEMMA PortKept ==
  ASSUME NEW port \in 1 .. TwoTo16 - 1
  PROVE  Uint16(port) = port /\ port # 0 /\ port # Nil
<1>1. TwoTo16 \in Nat \ {0}
  BY SMT DEF TwoTo16
<1>2. port \in 0 .. TwoTo16 - 1 /\ port # 0 /\ port \in Int
  BY <1>1, SMT
<1>3. port % TwoTo16 = port
  BY <1>1, <1>2, ModSmall
<1>4. port # Nil
  BY <1>2, ConfigAssumption
<1>5. Uint16(port) = port
  BY <1>3, Zenon DEF Uint16
<1> QED
  BY <1>2, <1>4, <1>5, Zenon

LEMMA GotLoaded ==
  ASSUME OrchestratorTypeOK, NEW c \in Callers, got[c] # Nil
  PROVE  got[c] \in Loaded
<1>1. got \in [Callers -> Loaded \cup {Nil}]
  BY DEF OrchestratorTypeOK
<1> QED
  BY <1>1

LEMMA HostAddress ==
  ASSUME NEW h, IsHost(h), h.address.port = Nil \/ h.address.port \in 1 .. TwoTo16 - 1
  PROVE  GetEndpointURL(ParseHost(h)) = h.address
<1>1. PICK host, port : h.address = [host |-> host, port |-> port]
  <2> SUFFICES h.address = [host |-> h.address.host, port |-> h.address.port]
    BY Zenon
  <2> QED
    BY Zenon DEF IsHost
<1>2. CASE port = Nil
  BY <1>1, <1>2, SMT DEF GetEndpointURL, ParseHost
<1>3. CASE port \in 1 .. TwoTo16 - 1
  <2>1. Uint16(port) = port /\ port # 0 /\ port # Nil
    BY <1>3, PortKept
  <2> QED
    BY <1>1, <2>1, SMT DEF GetEndpointURL, ParseHost
<1> QED
  BY <1>1, <1>2, <1>3, SMT

LEMMA HostsKept ==
  ASSUME NEW v \in Versions, Config[v] # Nil
  PROVE  /\ Config[v].config.hosts = Contents[v].hosts
         /\ Config[v].endpoints = [i \in DOMAIN Contents[v].hosts |->
                                    ParseHost(Contents[v].hosts[i])]
<1> DEFINE f == Contents[v]
<1>1. Config[v] = [config |-> ExpandEnv(f), endpoints |-> ValidateParseHosts(f)]
  BY SMT DEF Config, NewConfig
<1>2. PICK status, auth, env, repository, branch, build, steps, hosts, tasks :
        f = [status |-> status, auth |-> auth, env |-> env, repository |-> repository,
             branch |-> branch, build |-> build, steps |-> steps, hosts |-> hosts,
             tasks |-> tasks]
  <2>1. IsFile(f)
    BY OrchestratorAssumption, Zenon
  <2>2. f = [status |-> f.status, auth |-> f.auth, env |-> f.env,
             repository |-> f.repository, branch |-> f.branch, build |-> f.build,
             steps |-> f.steps, hosts |-> f.hosts, tasks |-> f.tasks]
    BY <2>1, Zenon DEF IsFile
  <2> QED
    BY <2>2, Zenon
<1>3. ExpandEnv(f).hosts = f.hosts
  BY <1>2, SMT DEF ExpandEnv
<1> QED
  BY <1>1, <1>3 DEF ValidateParseHosts

(* A configured address survives parsing and formatting, for every port     *)
(* that TCP has (host.go:28-45, 58-63).                                     *)
THEOREM AddressesSurvive == Spec => []AddressSurvives
<1>1. OrchestratorTypeOK => AddressSurvives
  <2> SUFFICES ASSUME OrchestratorTypeOK,
                      NEW c \in Callers, got[c] # Nil,
                      NEW i \in DOMAIN Config[got[c]].endpoints,
                      \/ Config[got[c]].config.hosts[i].address.port = Nil
                      \/ Config[got[c]].config.hosts[i].address.port \in 1 .. TwoTo16 - 1
               PROVE  GetEndpointURL(Config[got[c]].endpoints[i])
                        = Config[got[c]].config.hosts[i].address
    BY Zenon DEF AddressSurvives
  <2> DEFINE v == got[c]
             h == Contents[v].hosts[i]
  <2>1. v \in Versions /\ Config[v] # Nil
    BY GotLoaded DEF Loaded
  <2>2. /\ Config[v].config.hosts = Contents[v].hosts
        /\ i \in DOMAIN Contents[v].hosts
        /\ Config[v].endpoints[i] = ParseHost(Contents[v].hosts[i])
    BY <2>1, HostsKept
  <2>3. IsHost(Contents[v].hosts[i])
    BY <2>1, <2>2, OrchestratorAssumption, Zenon DEF IsFile
  <2>4. h.address.port = Nil \/ h.address.port \in 1 .. TwoTo16 - 1
    BY <2>2, Zenon
  <2>5. GetEndpointURL(ParseHost(h)) = h.address
    BY <2>3, <2>4, HostAddress, Zenon
  <2> QED
    BY <2>2, <2>5, Zenon
<1> QED
  BY <1>1, OrchestratorTypeCorrect, PTL

-----------------------------------------------------------------------------
(* What steps other than those of GetConfig do to it: nothing.              *)

LEMMA HandlerMoves ==
  ASSUME OrchestratorTypeOK, NEW r \in Requests,
         HandlerStep(r) \/ TaskEnds(r) \/ TaskHangs(r) \/ TasksMix(r)
  PROVE  /\ UNCHANGED <<configVars, fileVars>>
         /\ pc[r] \in {"handler", "build", "tasks", "run", "cleanup"}
         /\ pc'[r] \in {"handler", "build", "tasks", "run", "hung", "cleanup",
                        "answered", "refused"}
         /\ pc'[r] = "handler" => pc[r] = "handler"
         /\ \A d \in Callers : d # r => pc'[d] = pc[d]
         /\ dead' = "nil config" => /\ pc[r] = "handler" /\ got[r] = Nil
                                   \/ dead = "nil config"
  BY DEF OrchestratorTypeOK, HandlerStep, Handle, BuildEndpoints, PrepareTask, StartTask,
         SkipTask, TasksOver, Answer, TaskEnds, TaskHangs, TasksMix, Move, Die, PCs, Callers

LEMMA ArriveMoves ==
  ASSUME OrchestratorTypeOK, NEW r \in Requests, Arrive(r)
  PROVE  /\ UNCHANGED <<configVars, fileVars, dead>>
         /\ pc[Main] = "serving"
         /\ pc[r] = "idle" /\ pc'[r] = "check"
         /\ \A d \in Callers : d # r => pc'[d] = pc[d]
  BY DEF OrchestratorTypeOK, Arrive, Move, PCs, Callers

-----------------------------------------------------------------------------
(* The configuration that main loads.                                       *)

(* Until main has loaded the configuration no webhook is taken; afterwards, *)
(* when it succeeded, every call of GetConfig finds it in Cfg.              *)
MainLoads ==
  /\ pc[Main] \in {"check", "load", "store", "serving"}
  /\ pc[Main] # "serving" => Cfg = Nil /\ \A r \in Requests : pc[r] = "idle"
  /\ pc[Main] \in {"store", "serving"} => loaded[Main] # "none"
  /\ pc[Main] = "store" => (loaded[Main] = "ok" => got[Main] # Nil)

StartKept ==
  Started =>
    /\ Cfg # Nil
    /\ \A r \in Requests :
         /\ pc[r] \notin {"load", "store"}
         /\ pc[r] = "cached" => got[r] = Cfg

StartInv == MainLoads /\ StartKept

LEMMA StartInit == Init => StartInv
<1> SUFFICES ASSUME Init PROVE StartInv
  OBVIOUS
<1>1. pc[Main] = "check" /\ Cfg = Nil
  BY DEF Init, Callers
<1>2. \A r \in Requests : pc[r] = "idle"
  BY OrchestratorAssumption DEF Init, Callers
<1> QED
  BY <1>1, <1>2 DEF StartInv, MainLoads, StartKept, Started

LEMMA StartNext == OrchestratorTypeOK /\ StartInv /\ [Next]_vars => StartInv'
<1> SUFFICES ASSUME OrchestratorTypeOK, StartInv, [Next]_vars PROVE StartInv'
  OBVIOUS
<1> USE DEF StartInv, MainLoads, StartKept, Started, configVars, fileVars
<1>m. Main \in Callers /\ Main \notin Requests /\ Requests \subseteq Callers
  BY OrchestratorAssumption DEF Callers
<1>1. CASE Edit \/ WorkerStep \/ UNCHANGED vars
  BY <1>1 DEF Edit, WorkerStep, vars, taskVars
<1>2. ASSUME NEW r \in Requests, Arrive(r) PROVE StartInv'
  BY <1>m, <1>2, ArriveMoves
<1>3. ASSUME NEW r \in Requests, HandlerStep(r) \/ TaskEnds(r) \/ TaskHangs(r) \/ TasksMix(r)
      PROVE  StartInv'
  BY <1>m, <1>3, HandlerMoves
<1>4. ASSUME GetConfigStep(Main) PROVE StartInv'
  <2>1. CASE Check(Main)
    BY <1>m, <2>1 DEF Check, Move, Returned, OrchestratorTypeOK
  <2>2. CASE Cached(Main)
    BY <1>m, <2>2 DEF Cached, Move
  <2>3. CASE Load(Main)
    BY <1>m, <2>3, OrchestratorAssumption DEF Load, Move, OrchestratorTypeOK
  <2>4. CASE Store(Main)
    BY <1>m, <2>4 DEF Store, Move, Returned, OrchestratorTypeOK
  <2> QED
    BY <1>4, <2>1, <2>2, <2>3, <2>4 DEF GetConfigStep
<1>5. ASSUME NEW r \in Requests, GetConfigStep(r) PROVE StartInv'
  <2>0. pc[Main] = "serving"
    BY <1>m, <1>5 DEF GetConfigStep, Check, Cached, Load, Store, Move
  <2>1. CASE Check(r)
    BY <1>m, <2>0, <2>1 DEF Check, Move, OrchestratorTypeOK
  <2>2. CASE Cached(r)
    BY <1>m, <2>0, <2>2 DEF Cached, Move, Returned, OrchestratorTypeOK
  <2>3. CASE Load(r)
    BY <1>m, <2>0, <2>3 DEF Load, Move, OrchestratorTypeOK
  <2>4. CASE Store(r)
    BY <1>m, <2>0, <2>4 DEF Store, Move, Returned, OrchestratorTypeOK
  <2> QED
    BY <1>5, <2>1, <2>2, <2>3, <2>4 DEF GetConfigStep
<1> QED
  BY <1>1, <1>2, <1>3, <1>4, <1>5 DEF Next, Callers

LEMMA StartCorrect == Spec => [](OrchestratorTypeOK /\ StartInv)
<1> QED
  BY TypeInit, TypeNext, StartInit, StartNext, PTL DEF Spec

(* A configuration that was loaded at start-up stays, for any number of     *)
(* webhooks and edits (config.go:12-22).                                    *)
THEOREM StartConfigKept == Spec => StartConfigStays
<1>1. OrchestratorTypeOK /\ StartInv /\ [Next]_vars
        => [Started => /\ Cfg' = Cfg
                       /\ \A r \in Requests : got'[r] # got[r] => got'[r] = Cfg]_vars
  <2> SUFFICES ASSUME OrchestratorTypeOK, StartInv, [Next]_vars, Started
               PROVE  /\ Cfg' = Cfg
                      /\ \A r \in Requests : got'[r] # got[r] => got'[r] = Cfg
    OBVIOUS
  <2> USE DEF configVars
  <2>1. CASE Edit \/ WorkerStep \/ UNCHANGED vars
    BY <2>1 DEF Edit, WorkerStep, vars
  <2>2. ASSUME NEW r \in Requests, Arrive(r) PROVE UNCHANGED <<Cfg, got>>
    BY <2>2, ArriveMoves
  <2>3. ASSUME NEW r \in Requests,
               HandlerStep(r) \/ TaskEnds(r) \/ TaskHangs(r) \/ TasksMix(r)
        PROVE  UNCHANGED <<Cfg, got>>
    BY <2>3, HandlerMoves
  <2>4. ASSUME NEW c \in Callers, GetConfigStep(c)
        PROVE  Cfg' = Cfg /\ \A r \in Requests : got'[r] # got[r] => got'[r] = Cfg
    <3>1. c \in Requests /\ (Check(c) \/ Cached(c))
      BY <2>4 DEF GetConfigStep, Check, Cached, Load, Store, Move, StartInv, StartKept,
                  Started, Callers
    <3>2. CASE Check(c)
      BY <3>1, <3>2 DEF Check, OrchestratorTypeOK, Callers
    <3>3. CASE Cached(c)
      BY <3>1, <3>3 DEF Cached, Move, OrchestratorTypeOK, Callers, StartInv, StartKept
    <3> QED
      BY <3>1, <3>2, <3>3
  <2> QED
    BY <2>1, <2>2, <2>3, <2>4 DEF Next
<1> QED
  BY <1>1, StartCorrect, PTL DEF Spec, StartConfigStays

-----------------------------------------------------------------------------
(* The configuration that nobody has.                                       *)

(* What each call has loaded, and from where a configuration comes.         *)
History ==
  /\ \A c \in Callers : pc[c] \in {"idle", "check", "load"} => loaded[c] = "none"
  /\ \A c \in Callers : pc[c] = "store" /\ got[c] = Nil => loaded[c] = "failed"
  /\ \A c \in Callers : pc[c] = "cached" => got[c] # Nil
  /\ edits = 0 => \A c \in Callers : /\ loaded[c] = "ok" => Config[file] # Nil
                                     /\ loaded[c] = "failed" => Config[file] = Nil
  /\ Cfg # Nil => \E d \in Callers : loaded[d] = "ok"
  /\ \A c \in Callers : got[c] # Nil => \E d \in Callers : loaded[d] = "ok"

Race ==
  /\ loaded[Main] = "failed"
  /\ edits > 0
  /\ \E p, q \in Requests : loaded[p] = "ok" /\ loaded[q] = "failed"

NilSeen ==
  /\ Cfg = Nil /\ (\E c \in Callers : pc[c] = "cached") => Race
  /\ (\E r \in Requests : pc[r] = "handler" /\ got[r] = Nil) => Race
  /\ dead = "nil config" => Race

RaceInv == History /\ NilSeen

LEMMA RaceInit == Init => RaceInv
  BY OrchestratorAssumption
     DEF Init, RaceInv, History, NilSeen, Callers

(* A call loads once, so what Race says of the past stays true.             *)
LEMMA RaceStays ==
  ASSUME OrchestratorTypeOK, History, Race, [Next]_vars
  PROVE  Race'
<1> USE DEF configVars, fileVars
<1>1. edits' > 0
  <2>1. UNCHANGED edits \/ edits' = edits + 1
    BY DEF Next, Edit, WorkerStep, GetConfigStep, Check, Cached, Load, Store, Arrive,
           HandlerStep, Handle, BuildEndpoints, PrepareTask, TasksOver, Answer, TaskEnds,
           TaskHangs, TasksMix, vars
  <2> QED
    BY <2>1 DEF Race, OrchestratorTypeOK
<1>2. \A c \in Callers : loaded[c] # "none" => loaded'[c] = loaded[c]
  <2>1. UNCHANGED loaded \/ \E c \in Callers : Load(c)
    BY DEF Next, Edit, WorkerStep, GetConfigStep, Check, Cached, Store, Arrive,
           HandlerStep, Handle, BuildEndpoints, PrepareTask, TasksOver, Answer, TaskEnds,
           TaskHangs, TasksMix, vars
  <2>2. ASSUME NEW c \in Callers, Load(c)
        PROVE  \A d \in Callers : loaded[d] # "none" => loaded'[d] = loaded[d]
    BY <2>2 DEF Load, Move, History, OrchestratorTypeOK
  <2> QED
    BY <2>1, <2>2
<1> QED
  BY <1>1, <1>2 DEF Race, Callers

LEMMA HistoryNext == OrchestratorTypeOK /\ History /\ [Next]_vars => History'
<1> SUFFICES ASSUME OrchestratorTypeOK, History, [Next]_vars PROVE History'
  OBVIOUS
<1> USE DEF History, configVars, fileVars
<1>1. CASE Edit
  BY <1>1 DEF Edit, OrchestratorTypeOK
<1>2. CASE WorkerStep \/ UNCHANGED vars
  BY <1>2 DEF WorkerStep, vars
<1>3. ASSUME NEW r \in Requests, Arrive(r) PROVE History'
  BY <1>3, ArriveMoves
<1>4. ASSUME NEW r \in Requests, HandlerStep(r) \/ TaskEnds(r) \/ TaskHangs(r) \/ TasksMix(r)
      PROVE  History'
  <2>1. \A d \in Callers :
          pc'[d] \in {"idle", "check", "load", "store", "cached"} => pc'[d] = pc[d]
    BY <1>4, HandlerMoves
  <2>2. UNCHANGED <<Cfg, got, loaded, edits, file>>
    BY <1>4, HandlerMoves
  <2> QED
    BY <2>1, <2>2
<1>5. ASSUME NEW c \in Callers, GetConfigStep(c) PROVE History'
  <2>1. CASE Check(c)
    BY <2>1 DEF Check, Move, OrchestratorTypeOK
  <2>2. CASE Cached(c)
    BY <2>2 DEF Cached, Move, Returned, OrchestratorTypeOK
  <2>3. CASE Load(c)
    BY <2>3, OrchestratorAssumption DEF Load, Move, OrchestratorTypeOK
  <2>4. CASE Store(c)
    BY <2>4 DEF Store, Move, Returned, OrchestratorTypeOK
  <2> QED
    BY <1>5, <2>1, <2>2, <2>3, <2>4 DEF GetConfigStep
<1> QED
  BY <1>1, <1>2, <1>3, <1>4, <1>5 DEF Next

(* A call that stores nil over a configuration makes the race.              *)
LEMMA NilMakesRace ==
  ASSUME OrchestratorTypeOK, StartInv, History, NEW c \in Callers, Store(c),
         Cfg' = Nil, \E d \in Callers : pc[d] = "cached"
  PROVE  Race
<1>1. PICK d \in Callers : pc[d] = "cached" /\ loaded[c] = "failed" /\ c # d /\ got[d] # Nil
  BY DEF Store, Move, History
<1>2. PICK p \in Callers : loaded[p] = "ok"
  BY <1>1 DEF History
<1>3. pc[Main] = "serving" /\ c # Main
  BY <1>1, OrchestratorAssumption DEF StartInv, MainLoads, Callers, Store, Move
<1>4. loaded[Main] = "failed"
  <2>1. loaded[Main] # "ok"
    BY <1>3 DEF StartInv, StartKept, Started, Store, Move, Callers
  <2> QED
    BY <1>3, <2>1 DEF StartInv, MainLoads, OrchestratorTypeOK, Callers
<1>5. edits > 0
  BY <1>1, <1>2 DEF History, OrchestratorTypeOK
<1> QED
  BY <1>1, <1>2, <1>3, <1>4, <1>5 DEF Race, Callers

LEMMA NilSeenNext ==
  OrchestratorTypeOK /\ StartInv /\ History /\ NilSeen /\ [Next]_vars => NilSeen'
<1> SUFFICES ASSUME OrchestratorTypeOK, StartInv, History, NilSeen, [Next]_vars, ~ Race
             PROVE  NilSeen'
  BY RaceStays DEF NilSeen
<1> USE DEF NilSeen, configVars, fileVars
<1>1. CASE Edit \/ WorkerStep \/ UNCHANGED vars
  BY <1>1 DEF Edit, WorkerStep, vars
<1>2. ASSUME NEW r \in Requests, Arrive(r) PROVE NilSeen'
  BY <1>2, ArriveMoves DEF Callers
<1>3. ASSUME NEW r \in Requests, HandlerStep(r) \/ TaskEnds(r) \/ TaskHangs(r) \/ TasksMix(r)
      PROVE  NilSeen'
  BY <1>3, HandlerMoves DEF Callers
<1>4. ASSUME NEW c \in Callers, GetConfigStep(c) PROVE NilSeen'
  <2>d. UNCHANGED dead
    BY <1>4 DEF GetConfigStep, Check, Cached, Load, Store
  <2>1. CASE Check(c)
    BY <2>1, <2>d DEF Check, Move, OrchestratorTypeOK, Callers
  <2>2. CASE Cached(c)
    <3>1. got[c] # Nil /\ Cfg # Nil
      BY <2>2 DEF Cached, Move, History
    <3>2. UNCHANGED <<Cfg, loaded, edits>> /\ got'[c] # Nil
      BY <2>2, <3>1 DEF Cached, OrchestratorTypeOK
    <3>3. \A d \in Callers : d # c => got'[d] = got[d] /\ pc'[d] = pc[d]
      BY <2>2 DEF Cached, Move, OrchestratorTypeOK
    <3> QED
      BY <2>d, <3>1, <3>2, <3>3 DEF Callers
  <2>3. CASE Load(c)
    BY <2>3, <2>d DEF Load, Move, OrchestratorTypeOK, Callers
  <2>4. CASE Store(c)
    BY <2>4, <2>d, NilMakesRace DEF Store, Move, Returned, OrchestratorTypeOK, Callers
  <2> QED
    BY <1>4, <2>1, <2>2, <2>3, <2>4 DEF GetConfigStep
<1> QED
  BY <1>1, <1>2, <1>3, <1>4 DEF Next

(* Only a race of webhooks with an edit hands out nil without an error      *)
(* (config.go:13-17).                                                       *)
THEOREM NilConfigNeedsRace == Spec => []NilConfigOnlyByRace
<1>1. OrchestratorTypeOK /\ StartInv /\ RaceInv /\ [Next]_vars => RaceInv'
  BY HistoryNext, NilSeenNext DEF RaceInv
<1>2. RaceInv => NilConfigOnlyByRace
  BY DEF RaceInv, NilSeen, Race, NilConfigOnlyByRace
<1> QED
  BY StartCorrect, RaceInit, <1>1, <1>2, PTL DEF Spec
=============================================================================
