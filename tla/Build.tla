-------------------------------- MODULE Build --------------------------------
(***************************************************************************)
(* The builds of pull requests: HandleWebhook calls BuildAllEndpoints,     *)
(* runs the tasks of the pipeline, and calls RemoveAllRepositoryWorkspaces *)
(* (internal/orchestrator/controller/handler.go, internal/sync/build.go).  *)
(*                                                                         *)
(* Webhooks are handled concurrently, and each starts one goroutine per    *)
(* endpoint.  Clone, Fetch and the worktree calls go to the worker of that *)
(* endpoint; the metadata file and the build steps are the orchestrator's  *)
(* own, since getWorkerConfig makes a WorkerBuilderServer in its process.  *)
(*                                                                         *)
(* A goroutine goes  check -> clone -> fetch -> update -> metadata ->      *)
(* worktree -> steps -> built,  leaving out clone when there is a metadata *)
(* file, and ends as unsynced, refused or failed when a stage fails.       *)
(*                                                                         *)
(* A fetch takes two steps, as go-git's does: it lists the references of   *)
(* the remote and, when what they name was transferred, sets its own by    *)
(* compare-and-set.  The reference, pr-<id>, is a branch, and the worktree *)
(* of the pull request has it checked out.                                 *)
(***************************************************************************)
EXTENDS Integers, FiniteSets

CONSTANTS
  Endpoints,  \* cfg.Endpoints
  Machines,   \* the hosts they are processes of
  Local,      \* the host of the orchestrator
  Hooks,      \* webhook requests
  PRs,        \* pull requests, each with a head branch of its own
  MaxPushes,  \* bound: pushes to a pull request
  MaxFaults   \* bound: how many faults a behaviour may hold

ASSUME BuildAssumption ==
  /\ Local \in Machines
  /\ MaxPushes \in Nat \ {0}
  /\ MaxFaults \in Nat

VARIABLES
  machineOf,  \* machineOf[e]: the host of endpoint e
  pr,         \* pr[h]: the pull request that h is about
  head,       \* head[p]: pushes to p so far; the last one is what Fetch gets
  arrived,    \* history: head of its pull request when h was received
  warm,       \* history: hooks received when every endpoint was set up
  met,        \* history: hooks received while their pull request was fetched
  metadata,   \* the orchestrator has a .conflowci.toml for the repository
  cloned,     \* hosts with a repository in the build directory
  fetched,    \* fetched[m][p]: the push of p that pr-<id> is at, 0 without
  worktree,   \* worktree[m][p]: the push checked out for p, 0 without
  dirty,      \* worktrees <<m, p>> in which a build step left files
  moved,      \* history: worktrees <<m, p>> whose branch a fetch has moved
  listed,     \* listed[h][e]: the push the fetch under way saw, 0 without
  raced,      \* fetches <<h, e>> whose reference another has set meanwhile
  late,       \* fetches <<m, p, push seen or 0>> that lost their caller
  stage,      \* stage[h]: where HandleWebhook is
  step,       \* step[h][e]: where the goroutine of h for e is
  faults      \* how many faults have happened

config == <<machineOf, pr>>
history == <<arrived, warm, met>>
disk == <<metadata, cloned, fetched, worktree, dirty, moved>>
fetches == <<listed, raced, late>>

vars == <<config, head, history, disk, fetches, stage, step, faults>>

Ended == {"built", "unsynced", "refused", "failed"}

Steps == {"idle", "check", "clone", "fetch", "update", "metadata", "worktree",
          "steps", "remove", "removed"} \cup Ended

Stages == {"waiting", "build", "tasks", "remove", "done", "lost"}

Active == {"build", "tasks", "remove"}

(* Any endpoint on any host; nothing was built yet.                         *)
Init ==
  /\ machineOf \in [Endpoints -> Machines]
  /\ pr \in [Hooks -> PRs]
  /\ head = [p \in PRs |-> 1]
  /\ arrived = [h \in Hooks |-> 0]
  /\ warm = {}
  /\ met = {}
  /\ metadata = FALSE
  /\ cloned = {}
  /\ fetched = [m \in Machines |-> [p \in PRs |-> 0]]
  /\ worktree = [m \in Machines |-> [p \in PRs |-> 0]]
  /\ dirty = {}
  /\ moved = {}
  /\ listed = [h \in Hooks |-> [e \in Endpoints |-> 0]]
  /\ raced = {}
  /\ late = {}
  /\ stage = [h \in Hooks |-> "waiting"]
  /\ step = [h \in Hooks |-> [e \in Endpoints |-> "idle"]]
  /\ faults = 0

Fault ==
  /\ faults < MaxFaults
  /\ faults' = faults + 1

(* The goroutine of h for e goes from one step to the next.                 *)
Move(h, e, from, to) ==
  /\ stage[h] \in Active
  /\ step[h][e] = from
  /\ step' = [step EXCEPT ![h][e] = to]
  /\ UNCHANGED <<config, head, history, stage>>

(* The reference pr-<id> of p on host m is forced to push n, under the      *)
(* worktree that has it checked out when there is one.                      *)
SetReference(m, p, n) ==
  /\ fetched' = [fetched EXCEPT ![m][p] = n]
  /\ moved' = IF worktree[m][p] # 0 /\ fetched[m][p] # n
                THEN moved \cup {<<m, p>>} ELSE moved

(* The fetches under way that see their reference changed by that.          *)
Overtaken(m, p, n) ==
  {k \in Hooks \X Endpoints :
     /\ step[k[1]][k[2]] = "update" /\ pr[k[1]] = p /\ machineOf[k[2]] = m
     /\ fetched[m][p] # n}

SetWorktree(m, p, n) == worktree' = [worktree EXCEPT ![m][p] = n]

-----------------------------------------------------------------------------

(* Someone pushes to the head branch of p.                                  *)
Push(p) ==
  /\ head[p] < MaxPushes
  /\ head' = [head EXCEPT ![p] = @ + 1]
  /\ UNCHANGED <<config, history, disk, fetches, stage, step, faults>>

(* The push that some fetch of p has seen, and not yet set its reference to.*)
BeingFetched(p) ==
  \/ \E g \in Hooks, f \in Endpoints : pr[g] = p /\ step[g][f] = "update"
  \/ \E c \in late : c[2] = p /\ c[3] # 0

SetUp == metadata /\ \A e \in Endpoints : machineOf[e] \in cloned

(* A pull_request event is accepted; BuildAllEndpoints starts.              *)
Receive(h) ==
  /\ stage[h] = "waiting"
  /\ stage' = [stage EXCEPT ![h] = "build"]
  /\ step' = [step EXCEPT ![h] = [e \in Endpoints |-> "check"]]
  /\ arrived' = [arrived EXCEPT ![h] = head[pr[h]]]
  /\ warm' = IF SetUp THEN warm \cup {h} ELSE warm
  /\ met' = IF BeingFetched(pr[h]) THEN met \cup {h} ELSE met
  /\ UNCHANGED <<config, head, disk, fetches, faults>>

(* Mutation: the metadata file is not looked for.                           *)
Bug_AlwaysClone(h, e) ==
  /\ Move(h, e, "check", "clone")
  /\ UNCHANGED <<disk, fetches, faults>>

(* checkMetadatFileExist, on the orchestrator's own disk.                   *)
CheckMetadata(h, e) ==
  /\ Move(h, e, "check", IF metadata THEN "fetch" ELSE "clone")
  /\ UNCHANGED <<disk, fetches, faults>>

(* Clone: git refuses a directory that already holds a repository.          *)
Clone(h, e) ==
  /\ Move(h, e, "clone", IF machineOf[e] \in cloned THEN "unsynced" ELSE "fetch")
  /\ cloned' = cloned \cup {machineOf[e]}
  /\ UNCHANGED <<metadata, fetched, worktree, dirty, moved, fetches, faults>>

(* The clone fails, or its answer is lost.                                  *)
CloneFails(h, e) ==
  /\ Fault
  /\ Move(h, e, "clone", "unsynced")
  /\ cloned' \in {cloned, cloned \cup {machineOf[e]}}
  /\ UNCHANGED <<metadata, fetched, worktree, dirty, moved, fetches>>

(* The remote's references are listed; without a repository there is        *)
(* nothing to open.                                                         *)
ListReferences(h, e) ==
  LET there == machineOf[e] \in cloned
  IN /\ Move(h, e, "fetch", IF there THEN "update" ELSE "unsynced")
     /\ listed' = [listed EXCEPT ![h][e] = IF there THEN head[pr[h]] ELSE 0]
     /\ UNCHANGED <<disk, raced, late, faults>>

(* The fetch of h for e is over.                                            *)
EndFetch(h, e) == listed' = [listed EXCEPT ![h][e] = 0]

(* Mutation: a reference that exists is left where it is.                   *)
Bug_FetchOnce(h, e) ==
  LET m == machineOf[e]
      p == pr[h]
      n == IF fetched[m][p] = 0 THEN listed[h][e] ELSE fetched[m][p]
  IN /\ EndFetch(h, e)
     /\ Move(h, e, "update", "metadata")
     /\ SetReference(m, p, n)
     /\ raced' = (raced \cup Overtaken(m, p, n)) \ {<<h, e>>}
     /\ UNCHANGED <<metadata, cloned, worktree, dirty, late, faults>>

(* What was listed is transferred, and the reference is set to it, whatever *)
(* it is by then; refused when another fetch sets it between this one's     *)
(* look at it and its write.                                                *)
UpdateReference(h, e) ==
  LET m == machineOf[e]
      p == pr[h]
      n == listed[h][e]
  IN /\ EndFetch(h, e)
     /\ \/ /\ Move(h, e, "update", "metadata")
           /\ SetReference(m, p, n)
           /\ raced' = (raced \cup Overtaken(m, p, n)) \ {<<h, e>>}
        \/ /\ <<h, e>> \in raced /\ fetched[m][p] # n
           /\ Move(h, e, "update", "unsynced")
           /\ UNCHANGED <<raced, fetched, moved>>
     /\ UNCHANGED <<metadata, cloned, worktree, dirty, late, faults>>

(* The fetch fails, or its answer is lost; the worker may go on with it.    *)
FetchFails(h, e) ==
  /\ Fault
  /\ \E from \in {"fetch", "update"} : Move(h, e, from, "unsynced")
  /\ late' \in {late, late \cup {<<machineOf[e], pr[h], listed[h][e]>>}}
  /\ raced' = raced \ {<<h, e>>}
  /\ EndFetch(h, e)
  /\ UNCHANGED disk

(* A worker goes on with a fetch that nobody waits for.                     *)
ListLate(m, p) ==
  /\ <<m, p, 0>> \in late
  /\ m \in cloned
  /\ late' = (late \ {<<m, p, 0>>}) \cup {<<m, p, head[p]>>}
  /\ UNCHANGED <<config, head, history, disk, listed, raced, stage, step, faults>>

UpdateLate(m, p, n) ==
  /\ n # 0 /\ <<m, p, n>> \in late
  /\ late' = late \ {<<m, p, n>>}
  /\ SetReference(m, p, n)
  /\ raced' = raced \cup Overtaken(m, p, n)
  /\ UNCHANGED <<config, head, history, metadata, cloned, worktree, dirty, listed,
                 stage, step, faults>>

CreateMetadata(h, e) ==
  /\ Move(h, e, "metadata", "worktree")
  /\ metadata' = TRUE
  /\ UNCHANGED <<cloned, fetched, worktree, dirty, moved, fetches, faults>>

CreateMetadataFails(h, e) ==
  /\ Fault
  /\ Move(h, e, "metadata", "unsynced")
  /\ UNCHANGED <<disk, fetches>>

(* git worktree add, at a path named after the head branch: refused when    *)
(* the path exists.                                                         *)
CreateWorkTree(h, e) ==
  LET m == machineOf[e]
      free == worktree[m][pr[h]] = 0
  IN /\ Move(h, e, "worktree", IF free THEN "steps" ELSE "refused")
     /\ IF free THEN SetWorktree(m, pr[h], fetched[m][pr[h]]) ELSE UNCHANGED worktree
     /\ UNCHANGED <<metadata, cloned, fetched, dirty, moved, fetches, faults>>

CreateWorkTreeFails(h, e) ==
  /\ Fault
  /\ Move(h, e, "worktree", "refused")
  /\ UNCHANGED <<disk, fetches>>

(* bash -c "cd <worktree> && <steps>", on the orchestrator's host: without  *)
(* a worktree there cd fails; with one the steps may fail, and may leave    *)
(* files git does not know.                                                 *)
RunSteps(h, e) ==
  LET here == worktree[Local][pr[h]] # 0
  IN /\ \E result \in {"built", "failed"} :
          /\ here \/ result = "failed"
          /\ Move(h, e, "steps", result)
     /\ dirty' \in {dirty} \cup IF here THEN {dirty \cup {<<Local, pr[h]>>}} ELSE {}
     /\ UNCHANGED <<metadata, cloned, fetched, worktree, moved, fetches, faults>>

(* Mutation: wg.Done only where a build succeeds.                           *)
Bug_BuildsEnded(h) == \A e \in Endpoints : step[h][e] = "built"

(* Mutation: wg.Add(1) for all of the endpoints.                            *)
Bug_FirstEnded(h) == \E e \in Endpoints : step[h][e] \in Ended

(* wg.Wait of BuildAllEndpoints returns.                                    *)
BuildsEnded(h) == \A e \in Endpoints : step[h][e] \in Ended

RunTasks(h) ==
  /\ stage[h] = "build"
  /\ BuildsEnded(h)
  /\ stage' = [stage EXCEPT ![h] = "tasks"]
  /\ UNCHANGED <<config, head, history, disk, fetches, step, faults>>

(* The tasks are over, however they ended: RemoveAllRepositoryWorkspaces.   *)
RemoveAll(h) ==
  /\ stage[h] = "tasks"
  /\ stage' = [stage EXCEPT ![h] = "remove"]
  /\ step' = [step EXCEPT ![h] = [e \in Endpoints |-> "remove"]]
  /\ UNCHANGED <<config, head, history, disk, fetches, faults>>

(* git status finds nothing in the worktree: no files left by build steps,  *)
(* and what its branch is at, each push having contents of its own.         *)
Clean(m, p) == <<m, p>> \notin dirty /\ worktree[m][p] = fetched[m][p]

(* Mutation: only worktrees of the latest push are removed.                 *)
Bug_RemoveLatest(h, e) ==
  LET m == machineOf[e]
      p == pr[h]
      gone == Clean(m, p) /\ worktree[m][p] = head[p]
  IN /\ Move(h, e, "remove", "removed")
     /\ IF gone THEN SetWorktree(m, p, 0) ELSE UNCHANGED worktree
     /\ moved' = IF gone THEN moved \ {<<m, p>>} ELSE moved
     /\ UNCHANGED <<metadata, cloned, fetched, dirty, fetches, faults>>

(* git worktree remove: refused when the worktree is not clean.  Its error  *)
(* is not looked at.                                                        *)
RemoveWorkTree(h, e) ==
  LET m == machineOf[e]
      p == pr[h]
  IN /\ Move(h, e, "remove", "removed")
     /\ IF Clean(m, p) THEN SetWorktree(m, p, 0) ELSE UNCHANGED worktree
     /\ moved' = IF Clean(m, p) THEN moved \ {<<m, p>>} ELSE moved
     /\ UNCHANGED <<metadata, cloned, fetched, dirty, fetches, faults>>

RemoveWorkTreeFails(h, e) ==
  /\ Fault
  /\ Move(h, e, "remove", "removed")
  /\ UNCHANGED <<disk, fetches>>

(* wg.Wait returns; 200 OK.                                                 *)
Respond(h) ==
  /\ stage[h] = "remove"
  /\ \A e \in Endpoints : step[h][e] = "removed"
  /\ stage' = [stage EXCEPT ![h] = "done"]
  /\ UNCHANGED <<config, head, history, disk, fetches, step, faults>>

(* The orchestrator dies and is started again: killed, or by a nil pointer, *)
(* of a connection that could not be created (build.go:188-200, 130-138) or *)
(* of the answer to a CreateWorkTree that failed (build.go:63-64).  Workers *)
(* may go on with its fetches.                                              *)
Crash ==
  LET lost == {k \in Hooks \X Endpoints :
                 stage[k[1]] \in Active /\ step[k[1]][k[2]] \in {"fetch", "update"}}
  IN /\ Fault
     /\ \E h \in Hooks : stage[h] \in Active
     /\ stage' = [h \in Hooks |-> IF stage[h] \in Active THEN "lost" ELSE stage[h]]
     /\ step' = [h \in Hooks |-> [e \in Endpoints |->
                   IF stage[h] \in Active THEN "idle" ELSE step[h][e]]]
     /\ \E on \in SUBSET lost :
          late' = late \cup {<<machineOf[k[2]], pr[k[1]], listed[k[1]][k[2]]>> : k \in on}
     /\ listed' = [h \in Hooks |-> [e \in Endpoints |-> 0]]
     /\ raced' = {}
     /\ UNCHANGED <<config, head, history, disk>>

-----------------------------------------------------------------------------

EndpointStep(h, e) ==
  \/ CheckMetadata(h, e)
  \/ Clone(h, e)
  \/ ListReferences(h, e)
  \/ UpdateReference(h, e)
  \/ CreateMetadata(h, e)
  \/ CreateWorkTree(h, e)
  \/ RunSteps(h, e)
  \/ RemoveWorkTree(h, e)

EndpointFault(h, e) ==
  \/ CloneFails(h, e)
  \/ FetchFails(h, e)
  \/ CreateMetadataFails(h, e)
  \/ CreateWorkTreeFails(h, e)
  \/ RemoveWorkTreeFails(h, e)

HookStep(h) == RunTasks(h) \/ Respond(h)

LateFetch(m, p) ==
  \/ ListLate(m, p)
  \/ \E n \in 1..head[p] : UpdateLate(m, p, n)

Next ==
  \/ \E p \in PRs : Push(p)
  \/ \E h \in Hooks :
       \/ Receive(h)
       \/ HookStep(h)
       \/ RemoveAll(h)
       \/ \E e \in Endpoints : EndpointStep(h, e) \/ EndpointFault(h, e)
  \/ \E m \in Machines, p \in PRs : LateFetch(m, p)
  \/ Crash

(* Every goroutine keeps running, and what it calls or starts returns.      *)
(* Nothing makes the tasks end: RemoveAll may never come.                   *)
Fairness ==
  \A h \in Hooks :
    /\ WF_vars(HookStep(h))
    /\ \A e \in Endpoints : WF_vars(EndpointStep(h, e))

Spec == Init /\ [][Next]_vars

FairSpec == Spec /\ Fairness

-----------------------------------------------------------------------------

(* Every variable has its type, and HandleWebhook runs tasks and answers    *)
(* only after every goroutine it waits for (build.go:142, 212).             *)
BuildTypeOK ==
  /\ machineOf \in [Endpoints -> Machines]
  /\ pr \in [Hooks -> PRs]
  /\ head \in [PRs -> Nat \ {0}]
  /\ arrived \in [Hooks -> Nat]
  /\ warm \subseteq Hooks
  /\ met \subseteq Hooks
  /\ metadata \in BOOLEAN
  /\ cloned \subseteq Machines
  /\ fetched \in [Machines -> [PRs -> Nat]]
  /\ worktree \in [Machines -> [PRs -> Nat]]
  /\ dirty \subseteq Machines \X PRs
  /\ moved \subseteq Machines \X PRs
  /\ listed \in [Hooks -> [Endpoints -> Nat]]
  /\ raced \subseteq Hooks \X Endpoints
  /\ late \subseteq Machines \X PRs \X Nat
  /\ stage \in [Hooks -> Stages]
  /\ step \in [Hooks -> [Endpoints -> Steps]]
  /\ faults \in Nat
  /\ \A h \in Hooks, e \in Endpoints :
       /\ stage[h] = "tasks" => step[h][e] \in Ended
       /\ stage[h] = "done" => step[h][e] = "removed"
       /\ stage[h] \in {"waiting", "lost"} => step[h][e] = "idle"

(* Where the steps of an endpoint on the orchestrator's host are run, they  *)
(* find no worktree or one of the push the webhook was about, or of a later *)
(* one (build.go:50-88), whatever other builds of the pull request fetch,   *)
(* create and remove meanwhile, unless the webhook came while a fetch of    *)
(* that pull request was under way: such a fetch may have seen an older     *)
(* push and set the reference back.                                         *)
BuildsWhatWasPushed ==
  \A h \in Hooks, e \in Endpoints :
    LET n == worktree[Local][pr[h]] IN
    step[h][e] = "steps" /\ machineOf[e] = Local /\ h \notin met =>
      n = 0 \/ n >= arrived[h]

(* When every webhook was answered, without faults, a worktree is left only *)
(* where build steps left files in it or where a fetch has moved its branch *)
(* (build.go:117-143, util.go:112-125): any other is removed by one of the  *)
(* webhooks that built in it, and the pull request can be built again.      *)
NoWorktreeLeft ==
  faults = 0 /\ (\A h \in Hooks : stage[h] \in {"waiting", "done"}) =>
    \A m \in Machines, p \in PRs :
      worktree[m][p] # 0 => <<m, p>> \in dirty \cup moved

(* Once the metadata file exists and every endpoint has its repository, a   *)
(* build fails to sync an endpoint only by a fault, or where another fetch  *)
(* changes the reference during its own (build.go:221-246, util.go:78-90).  *)
WarmBuildSyncs ==
  \A h \in warm, e \in Endpoints :
    step[h][e] = "unsynced" => faults > 0 \/ <<h, e>> \in raced

(* A build of all endpoints ends, and so does the removal of all worktrees, *)
(* unless the orchestrator dies: each goroutine calls wg.Done on each of    *)
(* its ways out (build.go:124-143, 184-213).                                *)
BuildsEnd ==
  \A h \in Hooks :
    /\ (stage[h] = "build") ~> (stage[h] # "build")
    /\ (stage[h] = "remove") ~> (stage[h] \in {"done", "lost"})

(* "SyncRepository syncs the repository to the latest commit of specified   *)
(* branch" (build.go:216): with a host for every endpoint, and no faults,   *)
(* no endpoint is left unsynced.                                            *)
EveryEndpointSynced ==
  faults = 0 /\ (\A e, f \in Endpoints : machineOf[e] = machineOf[f] => e = f) =>
    \A h \in Hooks, e \in Endpoints : step[h][e] # "unsynced"
=============================================================================
