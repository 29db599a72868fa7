---------------------------- MODULE BuildProofs ----------------------------
(***************************************************************************)
(* Proofs about Build, for all sets of endpoints, hosts, webhooks and pull *)
(* requests, any number of pushes and of faults.                           *)
(*                                                                         *)
(* Each property has an invariant of its own on top of the types: what     *)
(* webhooks know of their pull request (Fresh), what a warm start gives  *)
(* (Warmth), and who will still remove a worktree (Owned).                 *)
(***************************************************************************)
EXTENDS Build, TLAPS

-----------------------------------------------------------------------------
(* Types.                                                                   *)

LEMMA TypeInit == Init => BuildTypeOK
<1> SUFFICES ASSUME Init PROVE BuildTypeOK
  OBVIOUS
<1>1. /\ fetched \in [Machines -> [PRs -> Nat]]
      /\ worktree \in [Machines -> [PRs -> Nat]]
  BY DEF Init
<1>2. step \in [Hooks -> [Endpoints -> Steps]]
  BY DEF Init, Steps
<1>3. /\ head \in [PRs -> Nat \ {0}]
      /\ arrived \in [Hooks -> Nat]
      /\ stage \in [Hooks -> Stages]
  BY DEF Init, Stages
<1>4. \A h \in Hooks, e \in Endpoints : stage[h] = "waiting" /\ step[h][e] = "idle"
  BY DEF Init
<1>5. listed \in [Hooks -> [Endpoints -> Nat]]
  BY DEF Init
<1> QED
  BY <1>1, <1>2, <1>3, <1>4, <1>5 DEF Init, BuildTypeOK

LEMMA SetReferenceType ==
  ASSUME BuildTypeOK, NEW m \in Machines, NEW p \in PRs, NEW n \in Nat,
         SetReference(m, p, n)
  PROVE  /\ fetched' \in [Machines -> [PRs -> Nat]]
         /\ moved' \subseteq Machines \X PRs
  BY DEF BuildTypeOK, SetReference

LEMMA EndFetchType ==
  ASSUME BuildTypeOK, NEW h \in Hooks, NEW e \in Endpoints, EndFetch(h, e)
  PROVE  listed' \in [Hooks -> [Endpoints -> Nat]]
  BY DEF BuildTypeOK, EndFetch

LEMMA SetWorktreeType ==
  ASSUME BuildTypeOK, NEW m \in Machines, NEW p \in PRs, NEW n \in Nat, SetWorktree(m, p, n)
  PROVE  worktree' \in [Machines -> [PRs -> Nat]]
  BY DEF BuildTypeOK, SetWorktree

LEMMA MoveType ==
  ASSUME BuildTypeOK, NEW h \in Hooks, NEW e \in Endpoints, NEW from, NEW to \in Steps,
         Move(h, e, from, to), from \notin Ended
  PROVE  /\ step' \in [Hooks -> [Endpoints -> Steps]]
         /\ \A g \in Hooks, f \in Endpoints :
              /\ stage[g] = "tasks" => step'[g][f] \in Ended
              /\ stage[g] = "done" => step'[g][f] = "removed"
              /\ stage[g] \in {"waiting", "lost"} => step'[g][f] = "idle"
         /\ UNCHANGED <<config, head, history, stage>>
<1>1. step' = [step EXCEPT ![h][e] = to] /\ stage[h] \in {"build", "remove"}
  BY DEF Move, Active, BuildTypeOK
<1>2. \A g \in Hooks, f \in Endpoints :
        g # h \/ f # e => step'[g][f] = step[g][f]
  BY <1>1 DEF BuildTypeOK
<1>3. \A g \in Hooks : stage[g] \notin {"build", "remove"} => g # h
  BY <1>1
<1>4. step' \in [Hooks -> [Endpoints -> Steps]]
  BY <1>1 DEF BuildTypeOK
<1> QED
  BY <1>2, <1>3, <1>4 DEF Move, BuildTypeOK

LEMMA TypeNext == BuildTypeOK /\ [Next]_vars => BuildTypeOK'
<1> SUFFICES ASSUME BuildTypeOK, [Next]_vars PROVE BuildTypeOK'
  OBVIOUS
<1> USE DEF BuildTypeOK, Stages, Steps, Ended, Active, config, history, disk, fetches
<1>1. ASSUME NEW p \in PRs, Push(p) PROVE BuildTypeOK'
  BY <1>1 DEF Push
<1>2. ASSUME NEW h \in Hooks, Receive(h) PROVE BuildTypeOK'
  BY <1>2 DEF Receive
<1>3. ASSUME NEW h \in Hooks, HookStep(h) \/ RemoveAll(h) PROVE BuildTypeOK'
  <2>1. CASE RunTasks(h)
    BY <2>1 DEF RunTasks, BuildsEnded
  <2>2. CASE RemoveAll(h)
    BY <2>2 DEF RemoveAll
  <2>3. CASE Respond(h)
    BY <2>3 DEF Respond
  <2> QED
    BY <1>3, <2>1, <2>2, <2>3 DEF HookStep
<1>4. ASSUME NEW h \in Hooks, NEW e \in Endpoints, EndpointStep(h, e)
      PROVE  BuildTypeOK'
  <2>1. CASE CheckMetadata(h, e)
    BY <2>1 DEF CheckMetadata, Move
  <2>2. CASE Clone(h, e)
    BY <2>2 DEF Clone, Move
  <2>3. CASE ListReferences(h, e)
    <3>1. listed' \in [Hooks -> [Endpoints -> Nat]]
      BY <2>3 DEF ListReferences
    <3> QED
      BY <2>3, <3>1 DEF ListReferences, Move
  <2>8. CASE UpdateReference(h, e)
    <3>1. listed' \in [Hooks -> [Endpoints -> Nat]]
      BY <2>8, EndFetchType DEF UpdateReference
    <3>2. /\ fetched' \in [Machines -> [PRs -> Nat]]
          /\ moved' \subseteq Machines \X PRs
      BY <2>8, SetReferenceType DEF UpdateReference
    <3>3. raced' \subseteq Hooks \X Endpoints
      BY <2>8 DEF UpdateReference, Overtaken
    <3>4. PICK to \in {"metadata", "unsynced"} : Move(h, e, "update", to)
      BY <2>8 DEF UpdateReference
    <3>5. /\ step' \in [Hooks -> [Endpoints -> Steps]]
          /\ \A g \in Hooks, f \in Endpoints :
               /\ stage[g] = "tasks" => step'[g][f] \in Ended
               /\ stage[g] = "done" => step'[g][f] = "removed"
               /\ stage[g] \in {"waiting", "lost"} => step'[g][f] = "idle"
          /\ UNCHANGED <<config, head, history, stage>>
      BY <3>4, MoveType
    <3> QED
      BY <2>8, <3>1, <3>2, <3>3, <3>5 DEF UpdateReference
  <2>4. CASE CreateMetadata(h, e)
    BY <2>4 DEF CreateMetadata, Move
  <2>5. CASE CreateWorkTree(h, e)
    <3>1. worktree' \in [Machines -> [PRs -> Nat]]
      BY <2>5, SetWorktreeType DEF CreateWorkTree
    <3> QED
      BY <2>5, <3>1 DEF CreateWorkTree, Move
  <2>6. CASE RunSteps(h, e)
    BY <2>6, BuildAssumption DEF RunSteps, Move
  <2>7. CASE RemoveWorkTree(h, e)
    <3>1. worktree' \in [Machines -> [PRs -> Nat]]
      BY <2>7, SetWorktreeType DEF RemoveWorkTree
    <3> QED
      BY <2>7, <3>1 DEF RemoveWorkTree, Move
  <2> QED
    BY <1>4, <2>1, <2>2, <2>3, <2>4, <2>5, <2>6, <2>7, <2>8 DEF EndpointStep
<1>5. ASSUME NEW h \in Hooks, NEW e \in Endpoints, EndpointFault(h, e)
      PROVE  BuildTypeOK'
  <2>1. CASE CloneFails(h, e)
    BY <2>1 DEF CloneFails, Move, Fault
  <2>2. CASE FetchFails(h, e)
    <3>1. listed' \in [Hooks -> [Endpoints -> Nat]]
      BY <2>2, EndFetchType DEF FetchFails
    <3>2. late' \subseteq Machines \X PRs \X Nat
      BY <2>2 DEF FetchFails
    <3>3. PICK from \in {"fetch", "update"} : Move(h, e, from, "unsynced")
      BY <2>2 DEF FetchFails
    <3>4. faults' \in Nat /\ UNCHANGED disk /\ raced' \subseteq raced
      BY <2>2 DEF FetchFails, Fault
    <3>5. /\ step' \in [Hooks -> [Endpoints -> Steps]]
          /\ \A g \in Hooks, f \in Endpoints :
               /\ stage[g] = "tasks" => step'[g][f] \in Ended
               /\ stage[g] = "done" => step'[g][f] = "removed"
               /\ stage[g] \in {"waiting", "lost"} => step'[g][f] = "idle"
          /\ UNCHANGED <<config, head, history, stage>>
      BY <3>3, MoveType
    <3> QED
      BY <3>1, <3>2, <3>4, <3>5
  <2>3. CASE CreateMetadataFails(h, e)
    BY <2>3 DEF CreateMetadataFails, Move, Fault
  <2>4. CASE CreateWorkTreeFails(h, e)
    BY <2>4 DEF CreateWorkTreeFails, Move, Fault
  <2>5. CASE RemoveWorkTreeFails(h, e)
    BY <2>5 DEF RemoveWorkTreeFails, Move, Fault
  <2> QED
    BY <1>5, <2>1, <2>2, <2>3, <2>4, <2>5 DEF EndpointFault
<1>6. CASE Crash
  <2>1. late' \subseteq Machines \X PRs \X Nat
    BY <1>6 DEF Crash
  <2>2. listed' \in [Hooks -> [Endpoints -> Nat]] /\ raced' = {}
    BY <1>6 DEF Crash
  <2> QED
    BY <1>6, <2>1, <2>2 DEF Crash, Fault
<1>7. CASE UNCHANGED vars
  BY <1>7 DEF vars
<1>8. ASSUME NEW m \in Machines, NEW p \in PRs, LateFetch(m, p) PROVE BuildTypeOK'
  <2>1. CASE ListLate(m, p)
    BY <2>1 DEF ListLate
  <2>2. ASSUME NEW n \in 1..head[p], UpdateLate(m, p, n) PROVE BuildTypeOK'
    <3>1. /\ fetched' \in [Machines -> [PRs -> Nat]]
          /\ moved' \subseteq Machines \X PRs
      BY <2>2, SetReferenceType DEF UpdateLate
    <3>2. raced' \subseteq Hooks \X Endpoints
      BY <2>2 DEF UpdateLate, Overtaken
    <3> QED
      BY <2>2, <3>1, <3>2 DEF UpdateLate
  <2> QED
    BY <1>8, <2>1, <2>2 DEF LateFetch
<1> QED
  BY <1>1, <1>2, <1>3, <1>4, <1>5, <1>6, <1>7, <1>8 DEF Next

(* Every variable has its type, and tasks and answers wait for every        *)
(* goroutine of their stage.                                                *)
THEOREM BuildTypeCorrect == Spec => []BuildTypeOK
  BY TypeInit, TypeNext, PTL DEF Spec

-----------------------------------------------------------------------------
(* What the helpers change, value by value.                                 *)

Moved(h, e, from, to) ==
  /\ step[h][e] = from /\ step'[h][e] = to /\ stage[h] \in Active
  /\ \A g \in Hooks, f \in Endpoints :
       (g = h /\ f = e) \/ step'[g][f] = step[g][f]
  /\ UNCHANGED <<machineOf, pr, head, arrived, warm, met, stage>>

LEMMA MoveValue ==
  ASSUME BuildTypeOK, NEW h \in Hooks, NEW e \in Endpoints, NEW from, NEW to,
         Move(h, e, from, to)
  PROVE  Moved(h, e, from, to)
  BY DEF Move, Moved, BuildTypeOK, config, history

LEMMA SetReferenceValue ==
  ASSUME BuildTypeOK, NEW m \in Machines, NEW p \in PRs, NEW n, SetReference(m, p, n)
  PROVE  \A o \in Machines, q \in PRs :
           fetched'[o][q] = IF o = m /\ q = p THEN n ELSE fetched[o][q]
  BY DEF SetReference, BuildTypeOK

LEMMA EndFetchValue ==
  ASSUME BuildTypeOK, NEW h \in Hooks, NEW e \in Endpoints, EndFetch(h, e)
  PROVE  \A g \in Hooks, f \in Endpoints :
           listed'[g][f] = IF g = h /\ f = e THEN 0 ELSE listed[g][f]
  BY DEF EndFetch, BuildTypeOK

LEMMA SetWorktreeValue ==
  ASSUME BuildTypeOK, NEW m \in Machines, NEW p \in PRs, NEW v, SetWorktree(m, p, v)
  PROVE  \A n \in Machines, q \in PRs :
           worktree'[n][q] = IF n = m /\ q = p THEN v ELSE worktree[n][q]
  BY DEF SetWorktree, BuildTypeOK

-----------------------------------------------------------------------------
(* What is known of its pull request by a webhook that no fetch was ahead   *)
(* of: every fetch of it now under way has seen its push or a later one,    *)
(* and so have the references and the worktrees its goroutines go on with.  *)

Knowing == {"metadata", "worktree", "steps"}

Knows(h) ==
  /\ \A g \in Hooks, f \in Endpoints :
       pr[g] = pr[h] /\ step[g][f] = "update" => arrived[h] <= listed[g][f]
  /\ \A c \in late : c[2] = pr[h] /\ c[3] # 0 => arrived[h] <= c[3]
  /\ \A e \in Endpoints :
       step[h][e] \in Knowing => arrived[h] <= fetched[machineOf[e]][pr[h]]
  /\ \A e \in Endpoints :
       step[h][e] = "steps" => \/ worktree[machineOf[e]][pr[h]] = 0
                               \/ arrived[h] <= worktree[machineOf[e]][pr[h]]

Fresh ==
  /\ \A h \in Hooks : arrived[h] <= head[pr[h]]
  /\ \A h \in Hooks, e \in Endpoints : listed[h][e] # 0 => step[h][e] = "update"
  /\ \A h \in Hooks : h \notin met /\ stage[h] # "waiting" => Knows(h)

LEMMA FreshInit == Init => Fresh
  BY DEF Init, Fresh

(* A goroutine that moves without touching references or worktrees, and not *)
(* to where it would have to know more.                                     *)
LEMMA FreshMoved ==
  ASSUME Fresh, NEW h \in Hooks, NEW e \in Endpoints, NEW from, NEW to,
         Moved(h, e, from, to), UNCHANGED <<fetched, worktree, listed, late>>,
         from # "update", to # "update",
         to \in Knowing => from \in Knowing, to # "steps"
  PROVE  Fresh'
<1>1. \A g \in Hooks, f \in Endpoints :
        /\ step'[g][f] = "update" <=> step[g][f] = "update"
        /\ step'[g][f] \in Knowing => step[g][f] \in Knowing
        /\ step'[g][f] = "steps" => step[g][f] = "steps"
  BY DEF Moved
<1>2. UNCHANGED <<machineOf, pr, head, arrived, met, stage>>
  BY DEF Moved
<1>3. ASSUME NEW k \in Hooks, Knows(k) PROVE Knows(k)'
  BY <1>1, <1>2, <1>3 DEF Knows
<1> QED
  BY <1>1, <1>2, <1>3 DEF Fresh

(* A reference that is set to what a fetch has seen: no webhook that the    *)
(* fetch is not ahead of learns less.                                       *)
LEMMA FreshSet ==
  ASSUME BuildTypeOK, NEW k \in Hooks, Knows(k), NEW m \in Machines, NEW p \in PRs,
         NEW n \in Nat, p = pr[k] => arrived[k] <= n, SetReference(m, p, n),
         NEW e \in Endpoints, arrived[k] <= fetched[machineOf[e]][pr[k]]
  PROVE  arrived[k] <= fetched'[machineOf[e]][pr[k]]
<1>1. machineOf[e] \in Machines /\ pr[k] \in PRs
  BY DEF BuildTypeOK
<1> QED
  BY <1>1, SetReferenceValue

LEMMA FreshNext == BuildTypeOK /\ Fresh /\ [Next]_vars => Fresh'
<1> SUFFICES ASSUME BuildTypeOK, Fresh, [Next]_vars PROVE Fresh'
  OBVIOUS
<1> /\ machineOf \in [Endpoints -> Machines] /\ pr \in [Hooks -> PRs]
    /\ head \in [PRs -> Nat \ {0}] /\ arrived \in [Hooks -> Nat]
    /\ fetched \in [Machines -> [PRs -> Nat]]
    /\ worktree \in [Machines -> [PRs -> Nat]]
    /\ listed \in [Hooks -> [Endpoints -> Nat]]
    /\ late \subseteq Machines \X PRs \X Nat
    /\ stage \in [Hooks -> Stages] /\ step \in [Hooks -> [Endpoints -> Steps]]
  BY DEF BuildTypeOK
<1> USE DEF Knowing
<1>1. ASSUME NEW p \in PRs, Push(p) PROVE Fresh'
  <2>1. UNCHANGED <<machineOf, pr, arrived, met, fetched, worktree, listed, late,
                    stage, step>>
    BY <1>1 DEF Push, config, history, disk, fetches
  <2>2. \A q \in PRs : head'[q] \in Nat /\ head[q] <= head'[q]
    BY <1>1 DEF Push
  <2>3. \A k \in Hooks : Knows(k) => Knows(k)'
    BY <2>1 DEF Knows
  <2> QED
    BY <2>1, <2>2, <2>3 DEF Fresh
<1>2. ASSUME NEW h \in Hooks, Receive(h) PROVE Fresh'
  <2>1. UNCHANGED <<machineOf, pr, head, fetched, worktree, listed, late>>
    BY <1>2 DEF Receive, config, disk, fetches
  <2>2. \A g \in Hooks, f \in Endpoints :
          /\ step'[g][f] = IF g = h THEN "check" ELSE step[g][f]
          /\ g = h => step[g][f] = "idle"
    BY <1>2 DEF Receive, BuildTypeOK
  <2>3. \A g \in Hooks : /\ arrived'[g] = IF g = h THEN head[pr[h]] ELSE arrived[g]
                         /\ g # h => stage'[g] = stage[g]
                         /\ g \notin met' => g \notin met
    BY <1>2 DEF Receive
  <2>4. ASSUME NEW k \in Hooks, k \notin met', stage'[k] # "waiting" PROVE Knows(k)'
    <3>1. CASE k = h
      <4>1. ~BeingFetched(pr[h])
        BY <1>2, <2>4, <3>1 DEF Receive
      <4>2. \A g \in Hooks, f \in Endpoints :
              ~(pr'[g] = pr'[k] /\ step'[g][f] = "update")
        BY <2>1, <2>2, <3>1, <4>1 DEF BeingFetched
      <4>3. \A c \in late' : ~(c[2] = pr'[k] /\ c[3] # 0)
        BY <2>1, <3>1, <4>1 DEF BeingFetched
      <4>4. \A f \in Endpoints : step'[k][f] = "check"
        BY <2>2, <3>1
      <4> QED
        BY <4>2, <4>3, <4>4 DEF Knows
    <3>2. CASE k # h
      <4>1. Knows(k)
        BY <2>3, <2>4, <3>2 DEF Fresh
      <4>2. arrived'[k] = arrived[k]
        BY <2>3, <3>2
      <4>3. \A g \in Hooks, f \in Endpoints :
              step'[g][f] # "check" => step'[g][f] = step[g][f]
        BY <2>2
      <4>4. \A g \in Hooks, f \in Endpoints :
              pr[g] = pr[k] /\ step'[g][f] = "update" => arrived[k] <= listed[g][f]
        BY <4>1, <4>3 DEF Knows
      <4>5. \A f \in Endpoints : step'[k][f] = step[k][f]
        BY <2>2, <3>2
      <4> QED
        BY <2>1, <4>1, <4>2, <4>4, <4>5 DEF Knows
    <3> QED
      BY <3>1, <3>2
  <2>5. \A k \in Hooks : arrived'[k] <= head[pr[k]]
    BY <2>3 DEF Fresh
  <2> QED
    BY <2>1, <2>2, <2>4, <2>5 DEF Fresh
<1>3. ASSUME NEW h \in Hooks, HookStep(h) \/ RemoveAll(h) PROVE Fresh'
  <2>1. UNCHANGED <<machineOf, pr, head, arrived, met, fetched, worktree, listed, late>>
    BY <1>3 DEF HookStep, RunTasks, Respond, RemoveAll, config, history, disk, fetches
  <2>2. \A g \in Hooks, f \in Endpoints :
          \/ step'[g][f] = step[g][f]
          \/ step'[g][f] = "remove" /\ step[g][f] # "update"
    <3>1. CASE RemoveAll(h)
      <4>1. \A f \in Endpoints : step[h][f] \in Ended
        BY <3>1 DEF RemoveAll, BuildTypeOK
      <4>2. \A g \in Hooks, f \in Endpoints :
              step'[g][f] = IF g = h THEN "remove" ELSE step[g][f]
        BY <3>1 DEF RemoveAll
      <4>3. "update" \notin Ended
        BY DEF Ended
      <4> QED
        BY <4>1, <4>2, <4>3
    <3>2. CASE RunTasks(h) \/ Respond(h)
      <4>1. step' = step
        BY <3>2 DEF RunTasks, Respond
      <4> QED
        BY <4>1
    <3> QED
      BY <1>3, <3>1, <3>2 DEF HookStep
  <2>3. \A k \in Hooks : stage'[k] # "waiting" => stage[k] # "waiting"
    BY <1>3 DEF HookStep, RunTasks, Respond, RemoveAll
  <2>4. \A k \in Hooks : Knows(k) => Knows(k)'
    BY <2>1, <2>2 DEF Knows
  <2> QED
    BY <2>1, <2>2, <2>3, <2>4 DEF Fresh
<1>4. ASSUME NEW h \in Hooks, NEW e \in Endpoints, EndpointStep(h, e)
      PROVE  Fresh'
  <2>1. CASE CheckMetadata(h, e)
    <3>1. Moved(h, e, "check", IF metadata THEN "fetch" ELSE "clone")
      BY <2>1, MoveValue DEF CheckMetadata
    <3> QED
      BY <2>1, <3>1, FreshMoved DEF CheckMetadata, disk, fetches
  <2>2. CASE Clone(h, e)
    <3>1. Moved(h, e, "clone", IF machineOf[e] \in cloned THEN "unsynced" ELSE "fetch")
      BY <2>2, MoveValue DEF Clone
    <3> QED
      BY <2>2, <3>1, FreshMoved DEF Clone, fetches
  <2>3. CASE ListReferences(h, e)
    <3>1. Moved(h, e, "fetch", IF machineOf[e] \in cloned THEN "update" ELSE "unsynced")
      BY <2>3, MoveValue DEF ListReferences
    <3>2. UNCHANGED <<machineOf, pr, head, arrived, met, stage, fetched, worktree, late>>
      BY <2>3, <3>1 DEF Moved, ListReferences, disk
    <3>3. /\ listed'[h][e] = IF machineOf[e] \in cloned THEN head[pr[h]] ELSE 0
          /\ \A g \in Hooks, f \in Endpoints :
               (g = h /\ f = e) \/ listed'[g][f] = listed[g][f]
      BY <2>3 DEF ListReferences
    <3>4. \A g \in Hooks, f \in Endpoints :
            /\ (g = h /\ f = e) \/ step'[g][f] = step[g][f]
            /\ step'[g][f] \in Knowing => step'[g][f] = step[g][f]
      BY <3>1 DEF Moved
    <3>5. listed'[h][e] # 0 => step'[h][e] = "update" /\ listed'[h][e] = head[pr[h]]
      BY <3>1, <3>3 DEF Moved
    <3>6. step'[h][e] = "update" => listed'[h][e] = head[pr[h]]
      BY <3>1, <3>3 DEF Moved
    <3>7. ASSUME NEW k \in Hooks, Knows(k) PROVE Knows(k)'
      <4>1. ASSUME NEW g \in Hooks, NEW f \in Endpoints, pr[g] = pr[k],
                   step'[g][f] = "update"
            PROVE  arrived[k] <= listed'[g][f]
        <5>1. CASE g = h /\ f = e
          BY <3>6, <4>1, <5>1 DEF Fresh
        <5>2. CASE ~(g = h /\ f = e)
          BY <3>3, <3>4, <3>7, <4>1, <5>2 DEF Knows
        <5> QED
          BY <5>1, <5>2
      <4>2. \A f \in Endpoints :
              /\ step'[k][f] \in Knowing => step[k][f] \in Knowing
              /\ step'[k][f] = "steps" => step[k][f] = "steps"
        BY <3>4
      <4> QED
        BY <3>2, <3>7, <4>1, <4>2 DEF Knows
    <3>8. ASSUME NEW g \in Hooks, NEW f \in Endpoints, listed'[g][f] # 0
          PROVE  step'[g][f] = "update"
      <4>1. CASE g = h /\ f = e
        BY <3>5, <3>8, <4>1
      <4>2. CASE ~(g = h /\ f = e)
        <5>1. listed'[g][f] = listed[g][f] /\ step'[g][f] = step[g][f]
          BY <3>3, <3>4, <4>2
        <5> QED
          BY <3>8, <5>1 DEF Fresh
      <4> QED
        BY <4>1, <4>2
    <3> QED
      BY <3>2, <3>7, <3>8 DEF Fresh
  <2>8. CASE UpdateReference(h, e)
    <3>1. Moved(h, e, "update", "metadata") \/ Moved(h, e, "update", "unsynced")
      BY <2>8, MoveValue DEF UpdateReference
    <3>2. UNCHANGED <<machineOf, pr, head, arrived, met, stage, worktree, late>>
      BY <2>8, <3>1 DEF Moved, UpdateReference
    <3>3. \A g \in Hooks, f \in Endpoints :
            listed'[g][f] = IF g = h /\ f = e THEN 0 ELSE listed[g][f]
      BY <2>8, EndFetchValue DEF UpdateReference
    <3>4. \/ UNCHANGED fetched /\ step'[h][e] = "unsynced"
          \/ SetReference(machineOf[e], pr[h], listed[h][e])
      BY <2>8, MoveValue DEF UpdateReference, Moved
    <3>5. ASSUME NEW k \in Hooks, Knows(k) PROVE Knows(k)'
      <4>1. pr[h] = pr[k] => arrived[k] <= listed[h][e]
        BY <3>1, <3>5 DEF Moved, Knows
      <4>2. ASSUME NEW f \in Endpoints, step'[k][f] \in Knowing
            PROVE  arrived[k] <= fetched'[machineOf[f]][pr[k]]
        <5>1. CASE step[k][f] \in Knowing
          <6>1. arrived[k] <= fetched[machineOf[f]][pr[k]]
            BY <3>5, <5>1 DEF Knows
          <6> QED
            BY <3>4, <3>5, <4>1, <6>1, FreshSet
        <5>2. CASE step[k][f] \notin Knowing
          <6>1. k = h /\ f = e
            BY <3>1, <4>2, <5>2 DEF Moved
          <6>2. SetReference(machineOf[e], pr[h], listed[h][e])
            BY <3>4, <4>2, <6>1
          <6>3. fetched'[machineOf[e]][pr[h]] = listed[h][e]
            BY <6>2, SetReferenceValue
          <6> QED
            BY <4>1, <6>1, <6>3
        <5> QED
          BY <5>1, <5>2
      <4>3. \A g \in Hooks, f \in Endpoints :
              /\ step'[g][f] = "update" => step[g][f] = "update" /\ ~(g = h /\ f = e)
              /\ step'[g][f] = "steps" => step[g][f] = "steps"
        BY <3>1 DEF Moved
      <4> QED
        BY <3>2, <3>3, <3>5, <4>2, <4>3 DEF Knows
    <3> QED
      BY <3>1, <3>2, <3>3, <3>5 DEF Moved, Fresh
  <2>4. CASE CreateMetadata(h, e)
    <3>1. Moved(h, e, "metadata", "worktree")
      BY <2>4, MoveValue DEF CreateMetadata
    <3> QED
      BY <2>4, <3>1, FreshMoved DEF CreateMetadata, fetches
  <2>5. CASE CreateWorkTree(h, e)
    <3>1. Moved(h, e, "worktree",
                  IF worktree[machineOf[e]][pr[h]] = 0 THEN "steps" ELSE "refused")
      BY <2>5, MoveValue DEF CreateWorkTree
    <3>2. \A m \in Machines, p \in PRs :
            \/ worktree'[m][p] = worktree[m][p]
            \/ m = machineOf[e] /\ p = pr[h] /\ worktree'[m][p] = fetched[m][p]
      BY <2>5, SetWorktreeValue DEF CreateWorkTree
    <3>3. UNCHANGED <<machineOf, pr, head, arrived, met, stage, fetched, listed, late>>
      BY <2>5, <3>1 DEF Moved, CreateWorkTree, fetches
    <3>4. \A g \in Hooks, f \in Endpoints :
            /\ step'[g][f] = "update" <=> step[g][f] = "update"
            /\ step'[g][f] \in Knowing => step[g][f] \in Knowing
            /\ step'[g][f] = "steps" =>
                 \/ step[g][f] = "steps"
                 \/ g = h /\ f = e /\ worktree[machineOf[e]][pr[h]] = 0
      BY <3>1 DEF Moved
    <3>5. ASSUME NEW k \in Hooks, Knows(k) PROVE Knows(k)'
      <4>1. ASSUME NEW f \in Endpoints, step'[k][f] = "steps"
            PROVE  \/ worktree'[machineOf[f]][pr[k]] = 0
                   \/ arrived[k] <= worktree'[machineOf[f]][pr[k]]
        <5>1. arrived[k] <= fetched[machineOf[f]][pr[k]]
          BY <3>4, <3>5, <4>1 DEF Knows
        <5>2. \/ worktree[machineOf[f]][pr[k]] = 0
              \/ arrived[k] <= worktree[machineOf[f]][pr[k]]
          BY <3>4, <3>5, <4>1 DEF Knows
        <5>3. \/ worktree'[machineOf[f]][pr[k]] = worktree[machineOf[f]][pr[k]]
              \/ worktree'[machineOf[f]][pr[k]] = fetched[machineOf[f]][pr[k]]
          BY <3>2
        <5> QED
          BY <5>1, <5>2, <5>3
      <4> QED
        BY <3>3, <3>4, <3>5, <4>1 DEF Knows
    <3> QED
      BY <3>3, <3>4, <3>5 DEF Fresh
  <2>6. CASE RunSteps(h, e)
    <3>1. Moved(h, e, "steps", "built") \/ Moved(h, e, "steps", "failed")
      BY <2>6, MoveValue DEF RunSteps
    <3> QED
      BY <2>6, <3>1, FreshMoved DEF RunSteps, fetches
  <2>7. CASE RemoveWorkTree(h, e)
    <3>1. Moved(h, e, "remove", "removed")
      BY <2>7, MoveValue DEF RemoveWorkTree
    <3>2. \A m \in Machines, p \in PRs :
            worktree'[m][p] = 0 \/ worktree'[m][p] = worktree[m][p]
      BY <2>7, SetWorktreeValue DEF RemoveWorkTree
    <3>3. UNCHANGED <<machineOf, pr, head, arrived, met, stage, fetched, listed, late>>
      BY <2>7, <3>1 DEF Moved, RemoveWorkTree, fetches
    <3>4. \A g \in Hooks, f \in Endpoints :
            /\ step'[g][f] = "update" <=> step[g][f] = "update"
            /\ step'[g][f] \in Knowing => step'[g][f] = step[g][f]
      BY <3>1 DEF Moved
    <3>5. ASSUME NEW k \in Hooks, Knows(k) PROVE Knows(k)'
      BY <3>2, <3>3, <3>4, <3>5 DEF Knows
    <3> QED
      BY <3>3, <3>4, <3>5 DEF Fresh
  <2> QED
    BY <1>4, <2>1, <2>2, <2>3, <2>4, <2>5, <2>6, <2>7, <2>8 DEF EndpointStep
<1>5. ASSUME NEW h \in Hooks, NEW e \in Endpoints, EndpointFault(h, e)
      PROVE  Fresh'
  <2>1. CASE CloneFails(h, e)
    <3>1. Moved(h, e, "clone", "unsynced")
      BY <2>1, MoveValue DEF CloneFails
    <3> QED
      BY <2>1, <3>1, FreshMoved DEF CloneFails, fetches
  <2>2. CASE FetchFails(h, e)
    <3>1. Moved(h, e, "fetch", "unsynced") \/ Moved(h, e, "update", "unsynced")
      BY <2>2, MoveValue DEF FetchFails
    <3>2. UNCHANGED <<machineOf, pr, head, arrived, met, stage, fetched, worktree>>
      BY <2>2, <3>1 DEF Moved, FetchFails, disk
    <3>3. \A g \in Hooks, f \in Endpoints :
            listed'[g][f] = IF g = h /\ f = e THEN 0 ELSE listed[g][f]
      BY <2>2, EndFetchValue DEF FetchFails
    <3>4. \A c \in late' : c \in late \/ c = <<machineOf[e], pr[h], listed[h][e]>>
      BY <2>2 DEF FetchFails
    <3>5. ASSUME NEW k \in Hooks, Knows(k) PROVE Knows(k)'
      <4>1. pr[h] = pr[k] /\ listed[h][e] # 0 => arrived[k] <= listed[h][e]
        BY <3>5 DEF Knows, Fresh
      <4>2. \A c \in late' : c[2] = pr[k] /\ c[3] # 0 => arrived[k] <= c[3]
        BY <3>4, <3>5, <4>1 DEF Knows
      <4>3. \A g \in Hooks, f \in Endpoints :
              /\ step'[g][f] = "update" => step[g][f] = "update" /\ ~(g = h /\ f = e)
              /\ step'[g][f] \in Knowing => step'[g][f] = step[g][f]
        BY <3>1 DEF Moved
      <4> QED
        BY <3>2, <3>3, <3>5, <4>2, <4>3 DEF Knows
    <3> QED
      BY <3>1, <3>2, <3>3, <3>5 DEF Moved, Fresh
  <2>3. CASE CreateMetadataFails(h, e)
    <3>1. Moved(h, e, "metadata", "unsynced")
      BY <2>3, MoveValue DEF CreateMetadataFails
    <3> QED
      BY <2>3, <3>1, FreshMoved DEF CreateMetadataFails, disk, fetches
  <2>4. CASE CreateWorkTreeFails(h, e)
    <3>1. Moved(h, e, "worktree", "refused")
      BY <2>4, MoveValue DEF CreateWorkTreeFails
    <3> QED
      BY <2>4, <3>1, FreshMoved DEF CreateWorkTreeFails, disk, fetches
  <2>5. CASE RemoveWorkTreeFails(h, e)
    <3>1. Moved(h, e, "remove", "removed")
      BY <2>5, MoveValue DEF RemoveWorkTreeFails
    <3> QED
      BY <2>5, <3>1, FreshMoved DEF RemoveWorkTreeFails, disk, fetches
  <2> QED
    BY <1>5, <2>1, <2>2, <2>3, <2>4, <2>5 DEF EndpointFault
<1>6. CASE Crash
  <2>1. UNCHANGED <<machineOf, pr, head, arrived, met, fetched, worktree>>
    BY <1>6 DEF Crash, config, history, disk
  <2>2. \A g \in Hooks, f \in Endpoints :
          listed'[g][f] = 0 /\ step'[g][f] # "update"
                            /\ (step'[g][f] \in Knowing => step'[g][f] = step[g][f])
    <3>1. \A g \in Hooks, f \in Endpoints :
            step[g][f] = "update" => stage[g] \in Active
      BY DEF BuildTypeOK, Stages, Active, Ended
    <3>2. \A g \in Hooks, f \in Endpoints :
            step'[g][f] = IF stage[g] \in Active THEN "idle" ELSE step[g][f]
      BY <1>6 DEF Crash
    <3>3. \A g \in Hooks, f \in Endpoints : listed'[g][f] = 0
      BY <1>6 DEF Crash
    <3> QED
      BY <3>1, <3>2, <3>3
  <2>3. \A c \in late' :
          c \in late \/ \E g \in Hooks, f \in Endpoints :
                          c = <<machineOf[f], pr[g], listed[g][f]>>
    BY <1>6 DEF Crash
  <2>4. \A k \in Hooks : stage'[k] # "waiting" => stage[k] # "waiting"
    BY <1>6 DEF Crash, Active
  <2>5. ASSUME NEW k \in Hooks, Knows(k) PROVE Knows(k)'
    <3>1. ASSUME NEW c \in late', c[2] = pr[k], c[3] # 0 PROVE arrived[k] <= c[3]
      <4>1. CASE c \in late
        BY <2>5, <3>1, <4>1 DEF Knows
      <4>2. ASSUME NEW g \in Hooks, NEW f \in Endpoints,
                   c = <<machineOf[f], pr[g], listed[g][f]>>
            PROVE  arrived[k] <= c[3]
        BY <2>5, <3>1, <4>2 DEF Knows, Fresh
      <4> QED
        BY <2>3, <4>1, <4>2
    <3> QED
      BY <2>1, <2>2, <2>5, <3>1 DEF Knows
  <2> QED
    BY <2>1, <2>2, <2>4, <2>5 DEF Fresh
<1>7. CASE UNCHANGED vars
  <2>1. \A k \in Hooks : Knows(k) => Knows(k)'
    BY <1>7 DEF vars, Knows, config, history, disk, fetches
  <2> QED
    BY <1>7, <2>1 DEF vars, Fresh, config, history, disk, fetches
<1>8. ASSUME NEW m \in Machines, NEW p \in PRs, LateFetch(m, p) PROVE Fresh'
  <2>1. CASE ListLate(m, p)
    <3>1. UNCHANGED <<machineOf, pr, head, arrived, met, fetched, worktree, listed,
                      stage, step>>
      BY <2>1 DEF ListLate, config, history, disk
    <3>2. \A c \in late' : c \in late \/ c = <<m, p, head[p]>>
      BY <2>1 DEF ListLate
    <3>3. ASSUME NEW k \in Hooks, Knows(k) PROVE Knows(k)'
      <4>1. \A c \in late' : c[2] = pr[k] /\ c[3] # 0 => arrived[k] <= c[3]
        BY <3>2, <3>3 DEF Knows, Fresh
      <4> QED
        BY <3>1, <3>3, <4>1 DEF Knows
    <3> QED
      BY <3>1, <3>3 DEF Fresh
  <2>2. ASSUME NEW n \in 1..head[p], UpdateLate(m, p, n) PROVE Fresh'
    <3>1. UNCHANGED <<machineOf, pr, head, arrived, met, worktree, listed, stage, step>>
      BY <2>2 DEF UpdateLate, config, history
    <3>2. n \in Nat /\ SetReference(m, p, n) /\ <<m, p, n>> \in late /\ late' \subseteq late
      BY <2>2 DEF UpdateLate
    <3>3. ASSUME NEW k \in Hooks, Knows(k) PROVE Knows(k)'
      <4>1. p = pr[k] => arrived[k] <= n
        <5>1. <<m, p, n>>[2] = p /\ <<m, p, n>>[3] = n /\ n # 0
          BY <2>2
        <5> QED
          BY <3>2, <3>3, <5>1 DEF Knows
      <4>2. \A f \in Endpoints :
              step'[k][f] \in Knowing => arrived[k] <= fetched'[machineOf[f]][pr[k]]
        <5>1. \A f \in Endpoints :
                step[k][f] \in Knowing => arrived[k] <= fetched[machineOf[f]][pr[k]]
          BY <3>3 DEF Knows
        <5> QED
          BY <3>1, <3>2, <3>3, <4>1, <5>1, FreshSet
      <4> QED
        BY <3>1, <3>2, <3>3, <4>2 DEF Knows
    <3> QED
      BY <3>1, <3>3 DEF Fresh
  <2> QED
    BY <1>8, <2>1, <2>2 DEF LateFetch
<1> QED
  BY <1>1, <1>2, <1>3, <1>4, <1>5, <1>6, <1>7, <1>8 DEF Next

(* Steps run on the orchestrator's host find no worktree or one of the push *)
(* the webhook was about or of a later one, unless the webhook came while a *)
(* fetch of its pull request was under way.                                 *)
THEOREM BuildIsFresh == Spec => []BuildsWhatWasPushed
<1>1. ASSUME BuildTypeOK, Fresh PROVE BuildsWhatWasPushed
  <2>1. SUFFICES ASSUME NEW h \in Hooks, NEW e \in Endpoints, step[h][e] = "steps",
                        machineOf[e] = Local, h \notin met
                 PROVE  worktree[Local][pr[h]] = 0 \/ worktree[Local][pr[h]] >= arrived[h]
    BY <1>1 DEF BuildsWhatWasPushed, BuildTypeOK
  <2>2. stage[h] # "waiting"
    BY <1>1, <2>1 DEF BuildTypeOK
  <2>3. /\ worktree[Local][pr[h]] \in Nat
        /\ arrived[h] \in Nat
    <3>1. /\ worktree \in [Machines -> [PRs -> Nat]] /\ arrived \in [Hooks -> Nat]
          /\ pr[h] \in PRs /\ Local \in Machines
      BY <1>1, BuildAssumption DEF BuildTypeOK
    <3> QED
      BY <3>1
  <2> QED
    BY <2>1, <2>2, <2>3, <1>1 DEF Fresh, Knows
<1> QED
  BY <1>1, TypeInit, TypeNext, FreshInit, FreshNext, PTL DEF Spec

-----------------------------------------------------------------------------
(* A webhook received when every endpoint was set up: nothing takes that    *)
(* away, so its goroutines never clone.                                     *)

Warmth ==
  \A h \in warm :
    /\ SetUp
    /\ \A e \in Endpoints :
         /\ step[h][e] # "clone"
         /\ step[h][e] = "unsynced" => faults > 0 \/ <<h, e>> \in raced

(* Nothing a goroutine does undoes the setting up.                          *)
LEMMA WarmthMoved ==
  ASSUME Warmth, warm \subseteq Hooks, faults \in Nat,
         NEW h \in Hooks, NEW e \in Endpoints, NEW from, NEW to, Moved(h, e, from, to),
         metadata => metadata', cloned \subseteq cloned',
         faults' = faults \/ faults' = faults + 1, raced \ {<<h, e>>} \subseteq raced',
         h \in warm =>
           to # "clone" /\ (to = "unsynced" => faults' > 0 \/ <<h, e>> \in raced')
  PROVE  Warmth'
<1>1. UNCHANGED <<machineOf, warm>>
  BY DEF Moved
<1>2. \A g \in warm, f \in Endpoints :
        /\ step'[g][f] # "clone"
        /\ step'[g][f] = "unsynced" => faults' > 0 \/ <<g, f>> \in raced'
  <2>1. SUFFICES ASSUME NEW g \in warm, NEW f \in Endpoints
                 PROVE  /\ step'[g][f] # "clone"
                        /\ step'[g][f] = "unsynced" => faults' > 0 \/ <<g, f>> \in raced'
    OBVIOUS
  <2>2. CASE g = h /\ f = e
    BY <2>2 DEF Moved
  <2>3. CASE ~(g = h /\ f = e)
    <3>1. step'[g][f] = step[g][f] /\ <<g, f>> # <<h, e>>
      BY <2>3 DEF Moved
    <3>2. step[g][f] # "clone" /\ (step[g][f] = "unsynced" => faults > 0 \/ <<g, f>> \in raced)
      BY DEF Warmth
    <3> QED
      BY <3>1, <3>2
  <2> QED
    BY <2>2, <2>3
<1> QED
  BY <1>1, <1>2 DEF Warmth, SetUp

LEMMA WarmthNext == BuildTypeOK /\ Warmth /\ [Next]_vars => Warmth'
<1> SUFFICES ASSUME BuildTypeOK, Warmth, [Next]_vars PROVE Warmth'
  OBVIOUS
<1> USE DEF Warmth, SetUp
<1> /\ machineOf \in [Endpoints -> Machines] /\ pr \in [Hooks -> PRs]
    /\ warm \subseteq Hooks /\ cloned \subseteq Machines /\ faults \in Nat
    /\ worktree \in [Machines -> [PRs -> Nat]]
    /\ stage \in [Hooks -> Stages] /\ step \in [Hooks -> [Endpoints -> Steps]]
  BY DEF BuildTypeOK
<1>1. ASSUME NEW p \in PRs, Push(p) PROVE Warmth'
  BY <1>1 DEF Push, config, history, disk, fetches
<1>2. ASSUME NEW h \in Hooks, Receive(h) PROVE Warmth'
  BY <1>2 DEF Receive, config, disk, fetches
<1>3. ASSUME NEW h \in Hooks, HookStep(h) \/ RemoveAll(h) PROVE Warmth'
  <2>1. CASE RunTasks(h)
    BY <2>1 DEF RunTasks, config, history, disk, fetches
  <2>2. CASE RemoveAll(h)
    BY <2>2 DEF RemoveAll, config, history, disk, fetches
  <2>3. CASE Respond(h)
    BY <2>3 DEF Respond, config, history, disk, fetches
  <2> QED
    BY <1>3, <2>1, <2>2, <2>3 DEF HookStep
<1>4. ASSUME NEW h \in Hooks, NEW e \in Endpoints, EndpointStep(h, e)
      PROVE  Warmth'
  <2>1. CASE CheckMetadata(h, e)
    <3>1. Moved(h, e, "check", IF metadata THEN "fetch" ELSE "clone")
      BY <2>1, MoveValue DEF CheckMetadata
    <3> QED
      BY <2>1, <3>1, WarmthMoved DEF CheckMetadata, disk, fetches
  <2>2. CASE Clone(h, e)
    <3>1. Moved(h, e, "clone", IF machineOf[e] \in cloned THEN "unsynced" ELSE "fetch")
      BY <2>2, MoveValue DEF Clone
    <3>2. h \notin warm /\ cloned \subseteq cloned' /\ UNCHANGED <<metadata, raced, faults>>
      BY <2>2, <3>1 DEF Moved, Clone, fetches
    <3> QED
      BY <3>1, <3>2, WarmthMoved
  <2>3. CASE ListReferences(h, e)
    <3>1. Moved(h, e, "fetch", IF machineOf[e] \in cloned THEN "update" ELSE "unsynced")
      BY <2>3, MoveValue DEF ListReferences
    <3> QED
      BY <2>3, <3>1, WarmthMoved DEF ListReferences, disk
  <2>8. CASE UpdateReference(h, e)
    <3>1. \/ Moved(h, e, "update", "metadata")
          \/ Moved(h, e, "update", "unsynced") /\ <<h, e>> \in raced'
      BY <2>8, MoveValue DEF UpdateReference
    <3>2. UNCHANGED <<metadata, cloned, faults>> /\ raced \ {<<h, e>>} \subseteq raced'
      BY <2>8 DEF UpdateReference
    <3> QED
      BY <3>1, <3>2, WarmthMoved
  <2>4. CASE CreateMetadata(h, e)
    <3>1. Moved(h, e, "metadata", "worktree")
      BY <2>4, MoveValue DEF CreateMetadata
    <3> QED
      BY <2>4, <3>1, WarmthMoved DEF CreateMetadata, fetches
  <2>5. CASE CreateWorkTree(h, e)
    <3>1. Moved(h, e, "worktree",
                  IF worktree[machineOf[e]][pr[h]] = 0 THEN "steps" ELSE "refused")
      BY <2>5, MoveValue DEF CreateWorkTree
    <3> QED
      BY <2>5, <3>1, WarmthMoved DEF CreateWorkTree, fetches
  <2>6. CASE RunSteps(h, e)
    <3>1. Moved(h, e, "steps", "built") \/ Moved(h, e, "steps", "failed")
      BY <2>6, MoveValue DEF RunSteps
    <3> QED
      BY <2>6, <3>1, WarmthMoved DEF RunSteps, fetches
  <2>7. CASE RemoveWorkTree(h, e)
    <3>1. Moved(h, e, "remove", "removed")
      BY <2>7, MoveValue DEF RemoveWorkTree
    <3> QED
      BY <2>7, <3>1, WarmthMoved DEF RemoveWorkTree, fetches
  <2> QED
    BY <1>4, <2>1, <2>2, <2>3, <2>4, <2>5, <2>6, <2>7, <2>8 DEF EndpointStep
<1>5. ASSUME NEW h \in Hooks, NEW e \in Endpoints, EndpointFault(h, e)
      PROVE  Warmth'
  <2>1. CASE CloneFails(h, e)
    <3>1. Moved(h, e, "clone", "unsynced")
      BY <2>1, MoveValue DEF CloneFails
    <3>2. h \notin warm /\ cloned \subseteq cloned' /\ UNCHANGED <<metadata, raced>>
      BY <2>1, <3>1 DEF Moved, CloneFails, fetches
    <3>3. faults' = faults + 1
      BY <2>1 DEF CloneFails, Fault
    <3> QED
      BY <3>1, <3>2, <3>3, WarmthMoved
  <2>2. CASE FetchFails(h, e)
    <3>1. Moved(h, e, "fetch", "unsynced") \/ Moved(h, e, "update", "unsynced")
      BY <2>2, MoveValue DEF FetchFails
    <3>2. UNCHANGED <<metadata, cloned>> /\ raced \ {<<h, e>>} \subseteq raced'
      BY <2>2 DEF FetchFails, disk
    <3>3. faults' = faults + 1 /\ faults' > 0
      BY <2>2 DEF FetchFails, Fault
    <3> QED
      BY <3>1, <3>2, <3>3, WarmthMoved
  <2>3. CASE CreateMetadataFails(h, e)
    <3>1. Moved(h, e, "metadata", "unsynced")
      BY <2>3, MoveValue DEF CreateMetadataFails
    <3>2. UNCHANGED <<metadata, cloned, raced>>
      BY <2>3 DEF CreateMetadataFails, disk, fetches
    <3>3. faults' = faults + 1 /\ faults' > 0
      BY <2>3 DEF CreateMetadataFails, Fault
    <3> QED
      BY <3>1, <3>2, <3>3, WarmthMoved
  <2>4. CASE CreateWorkTreeFails(h, e)
    <3>1. Moved(h, e, "worktree", "refused")
      BY <2>4, MoveValue DEF CreateWorkTreeFails
    <3>2. UNCHANGED <<metadata, cloned, raced>>
      BY <2>4 DEF CreateWorkTreeFails, disk, fetches
    <3>3. faults' = faults + 1 /\ faults' > 0
      BY <2>4 DEF CreateWorkTreeFails, Fault
    <3> QED
      BY <3>1, <3>2, <3>3, WarmthMoved
  <2>5. CASE RemoveWorkTreeFails(h, e)
    <3>1. Moved(h, e, "remove", "removed")
      BY <2>5, MoveValue DEF RemoveWorkTreeFails
    <3>2. UNCHANGED <<metadata, cloned, raced>>
      BY <2>5 DEF RemoveWorkTreeFails, disk, fetches
    <3>3. faults' = faults + 1 /\ faults' > 0
      BY <2>5 DEF RemoveWorkTreeFails, Fault
    <3> QED
      BY <3>1, <3>2, <3>3, WarmthMoved
  <2> QED
    BY <1>5, <2>1, <2>2, <2>3, <2>4, <2>5 DEF EndpointFault
<1>6. CASE Crash
  <2>1. UNCHANGED <<machineOf, warm, metadata, cloned>> /\ faults' > 0
    BY <1>6 DEF Crash, Fault, config, history, disk
  <2>2. \A h \in Hooks, e \in Endpoints : step'[h][e] # "clone" \/ step'[h][e] = step[h][e]
    BY <1>6 DEF Crash
  <2> QED
    BY <2>1, <2>2
<1>7. CASE UNCHANGED vars
  BY <1>7 DEF vars, config, history, disk, fetches
<1>8. ASSUME NEW m \in Machines, NEW p \in PRs, LateFetch(m, p) PROVE Warmth'
  <2>1. UNCHANGED <<machineOf, warm, metadata, cloned, step, faults>> /\ raced \subseteq raced'
    BY <1>8 DEF LateFetch, ListLate, UpdateLate, config, history, disk
  <2> QED
    BY <2>1
<1> QED
  BY <1>1, <1>2, <1>3, <1>4, <1>5, <1>6, <1>7, <1>8 DEF Next

(* A build that starts with every endpoint set up syncs them all, unless    *)
(* there is a fault or another fetch of the same reference comes between.   *)
THEOREM WarmBuild == Spec => []WarmBuildSyncs
<1>1. Init => Warmth
  BY DEF Init, Warmth
<1>2. Warmth => WarmBuildSyncs
  BY DEF Warmth, WarmBuildSyncs
<1> QED
  BY <1>1, <1>2, TypeInit, TypeNext, WarmthNext, PTL DEF Spec

-----------------------------------------------------------------------------
(* Who will remove a worktree: a goroutine of a webhook not answered yet,   *)
(* which created it or found it still there when its turn to remove came.   *)
(* Git lets it, the worktree being what its branch is at.                   *)

Owner(h, e, m, p) ==
  /\ machineOf[e] = m /\ pr[h] = p /\ stage[h] \in Active
  /\ step[h][e] \in {"steps", "built", "failed", "remove"}

Owned ==
  faults = 0 =>
    /\ late = {}
    /\ \A m \in Machines, p \in PRs :
         worktree[m][p] # 0 /\ <<m, p>> \notin dirty \cup moved =>
           /\ worktree[m][p] = fetched[m][p]
           /\ \E h \in Hooks, e \in Endpoints : Owner(h, e, m, p)

LEMMA OwnedNext == BuildTypeOK /\ Owned /\ [Next]_vars => Owned'
<1> SUFFICES ASSUME BuildTypeOK, Owned, [Next]_vars, faults' = 0 PROVE Owned'
  BY DEF Owned
<1> /\ machineOf \in [Endpoints -> Machines] /\ pr \in [Hooks -> PRs]
    /\ faults \in Nat /\ worktree \in [Machines -> [PRs -> Nat]]
    /\ stage \in [Hooks -> Stages] /\ step \in [Hooks -> [Endpoints -> Steps]]
  BY DEF BuildTypeOK
<1>0. /\ faults = 0 /\ late = {} /\ late' = {}
      /\ ~(\E h \in Hooks, e \in Endpoints : EndpointFault(h, e)) /\ ~Crash
      /\ ~(\E m \in Machines, p \in PRs : LateFetch(m, p))
  <2>1. /\ ~(\E h \in Hooks, e \in Endpoints : EndpointFault(h, e)) /\ ~Crash
    BY DEF EndpointFault, CloneFails, FetchFails, CreateMetadataFails,
           CreateWorkTreeFails, RemoveWorkTreeFails, Crash, Fault
  <2>2. \A h \in Hooks, e \in Endpoints : EndpointStep(h, e) => UNCHANGED <<late, faults>>
    BY DEF EndpointStep, CheckMetadata, Clone, ListReferences, UpdateReference,
           CreateMetadata, CreateWorkTree, RunSteps, RemoveWorkTree, fetches
  <2>3. ASSUME NEW m \in Machines, NEW p \in PRs, LateFetch(m, p) PROVE FALSE
    <3>1. faults = 0 /\ late # {}
      BY <2>3 DEF LateFetch, ListLate, UpdateLate
    <3> QED
      BY <3>1 DEF Owned
  <2>4. \A h \in Hooks : HookStep(h) \/ RemoveAll(h) \/ Receive(h) => UNCHANGED <<late, faults>>
    BY DEF HookStep, RunTasks, Respond, RemoveAll, Receive, fetches
  <2>5. \A p \in PRs : Push(p) => UNCHANGED <<late, faults>>
    BY DEF Push, fetches
  <2>6. UNCHANGED vars => UNCHANGED <<late, faults>>
    BY DEF vars, fetches
  <2>7. UNCHANGED <<late, faults>>
    BY <2>1, <2>2, <2>3, <2>4, <2>5, <2>6 DEF Next
  <2> QED
    BY <2>1, <2>3, <2>7 DEF Owned
<1> SUFFICES ASSUME NEW m \in Machines, NEW p \in PRs,
                    worktree'[m][p] # 0, <<m, p>> \notin dirty' \cup moved'
             PROVE  /\ worktree'[m][p] = fetched'[m][p]
                    /\ \E h \in Hooks, e \in Endpoints : Owner(h, e, m, p)'
  BY <1>0 DEF Owned
<1>1. ASSUME worktree[m][p] # 0, <<m, p>> \notin dirty \cup moved
      PROVE  /\ worktree[m][p] = fetched[m][p]
             /\ \E h \in Hooks, e \in Endpoints : Owner(h, e, m, p)
  BY <1>0, <1>1 DEF Owned
<1> DEFINE Goal == /\ worktree'[m][p] = fetched'[m][p]
                   /\ \E h \in Hooks, e \in Endpoints : Owner(h, e, m, p)'
<1>2. ASSUME NEW q \in PRs, Push(q) PROVE Goal
  BY <1>1, <1>2 DEF Push, Owner, config, history, disk
<1>3. ASSUME NEW h \in Hooks, Receive(h) PROVE Goal
  <2>1. UNCHANGED <<config, disk>>
    BY <1>3 DEF Receive
  <2>2. PICK g \in Hooks, f \in Endpoints : Owner(g, f, m, p)
    BY <1>1, <2>1 DEF disk
  <2>3. g # h
    BY <1>3, <2>2 DEF Receive, Owner, Active
  <2>4. Owner(g, f, m, p)'
    BY <1>3, <2>1, <2>2, <2>3 DEF Receive, Owner, config
  <2> QED
    BY <1>1, <2>1, <2>4 DEF disk
<1>4. ASSUME NEW h \in Hooks, HookStep(h) \/ RemoveAll(h) PROVE Goal
  <2>1. UNCHANGED <<config, disk>>
    BY <1>4 DEF HookStep, RunTasks, RemoveAll, Respond
  <2>2. PICK g \in Hooks, f \in Endpoints : Owner(g, f, m, p)
    BY <1>1, <2>1 DEF disk
  <2>3. Owner(g, f, m, p)'
    <3>1. CASE RunTasks(h)
      BY <2>1, <2>2, <3>1 DEF RunTasks, Owner, Active, config
    <3>2. CASE RemoveAll(h)
      BY <2>1, <2>2, <3>2 DEF RemoveAll, Owner, Active, config
    <3>3. CASE Respond(h)
      BY <2>1, <2>2, <3>3 DEF Respond, Owner, config
    <3> QED
      BY <1>4, <3>1, <3>2, <3>3 DEF HookStep
  <2> QED
    BY <1>1, <2>1, <2>3 DEF disk
<1>5. ASSUME NEW h \in Hooks, NEW e \in Endpoints, EndpointStep(h, e) PROVE Goal
  <2>1. CASE CheckMetadata(h, e) \/ Clone(h, e) \/ ListReferences(h, e)
             \/ CreateMetadata(h, e)
    <3>1. \E from \in {"check", "clone", "fetch", "metadata"}, to \in Steps :
            Moved(h, e, from, to)
      BY <2>1, MoveValue
         DEF CheckMetadata, Clone, ListReferences, CreateMetadata, Steps, Ended
    <3>2. UNCHANGED <<fetched, worktree, dirty, moved>>
      BY <2>1 DEF CheckMetadata, Clone, ListReferences, CreateMetadata, disk
    <3>3. PICK g \in Hooks, f \in Endpoints : Owner(g, f, m, p)
      BY <1>1, <3>2
    <3>4. Owner(g, f, m, p)'
      BY <3>1, <3>3 DEF Moved, Owner
    <3> QED
      BY <1>1, <3>2, <3>4
  <2>2. CASE UpdateReference(h, e)
    <3>1. Moved(h, e, "update", "metadata") \/ Moved(h, e, "update", "unsynced")
      BY <2>2, MoveValue DEF UpdateReference
    <3>2. /\ UNCHANGED <<worktree, dirty>> /\ moved \subseteq moved'
          /\ fetched'[m][p] = fetched[m][p] \/ <<m, p>> \in moved'
      <4>1. CASE UNCHANGED <<fetched, moved>>
        BY <2>2, <4>1 DEF UpdateReference
      <4>2. CASE SetReference(machineOf[e], pr[h], listed[h][e])
        BY <2>2, <4>2, SetReferenceValue DEF UpdateReference, SetReference
      <4> QED
        BY <2>2, <4>1, <4>2 DEF UpdateReference
    <3>3. PICK g \in Hooks, f \in Endpoints : Owner(g, f, m, p)
      BY <1>1, <3>2
    <3>4. Owner(g, f, m, p)'
      BY <3>1, <3>3 DEF Moved, Owner
    <3> QED
      BY <1>1, <3>2, <3>4
  <2>3. CASE CreateWorkTree(h, e)
    <3>1. Moved(h, e, "worktree",
                  IF worktree[machineOf[e]][pr[h]] = 0 THEN "steps" ELSE "refused")
      BY <2>3, MoveValue DEF CreateWorkTree
    <3>2. CASE worktree[machineOf[e]][pr[h]] = 0 /\ m = machineOf[e] /\ p = pr[h]
      <4>1. Owner(h, e, m, p)'
        BY <3>1, <3>2 DEF Moved, Owner
      <4>2. worktree'[m][p] = fetched'[m][p]
        BY <2>3, <3>2, SetWorktreeValue DEF CreateWorkTree
      <4> QED
        BY <4>1, <4>2
    <3>3. CASE ~(worktree[machineOf[e]][pr[h]] = 0 /\ m = machineOf[e] /\ p = pr[h])
      <4>1. worktree'[m][p] = worktree[m][p] /\ UNCHANGED <<fetched, dirty, moved>>
        BY <2>3, <3>3, SetWorktreeValue DEF CreateWorkTree
      <4>2. PICK g \in Hooks, f \in Endpoints : Owner(g, f, m, p)
        BY <1>1, <4>1
      <4>3. Owner(g, f, m, p)'
        BY <3>1, <4>2 DEF Moved, Owner
      <4> QED
        BY <1>1, <4>1, <4>3
    <3> QED
      BY <3>2, <3>3
  <2>4. CASE RunSteps(h, e)
    <3>1. Moved(h, e, "steps", "built") \/ Moved(h, e, "steps", "failed")
      BY <2>4, MoveValue DEF RunSteps
    <3>2. UNCHANGED <<fetched, worktree, moved>> /\ dirty \subseteq dirty'
      BY <2>4 DEF RunSteps
    <3>3. PICK g \in Hooks, f \in Endpoints : Owner(g, f, m, p)
      BY <1>1, <3>2
    <3>4. Owner(g, f, m, p)'
      BY <3>1, <3>3 DEF Moved, Owner
    <3> QED
      BY <1>1, <3>2, <3>4
  <2>5. CASE RemoveWorkTree(h, e)
    <3>1. Moved(h, e, "remove", "removed")
      BY <2>5, MoveValue DEF RemoveWorkTree
    <3>2. machineOf[e] \in Machines /\ pr[h] \in PRs /\ UNCHANGED <<fetched, dirty>>
      BY <2>5 DEF RemoveWorkTree
    <3>3. worktree'[m][p] = worktree[m][p] /\ <<m, p>> \notin moved
      <4>1. CASE Clean(machineOf[e], pr[h])
        <5>1. \A n \in Machines, q \in PRs : worktree'[n][q] =
                IF n = machineOf[e] /\ q = pr[h] THEN 0 ELSE worktree[n][q]
          BY <2>5, <3>2, <4>1, SetWorktreeValue DEF RemoveWorkTree
        <5>2. moved' = moved \ {<<machineOf[e], pr[h]>>}
          BY <2>5, <4>1 DEF RemoveWorkTree
        <5> QED
          BY <5>1, <5>2
      <4>2. CASE ~Clean(machineOf[e], pr[h])
        BY <2>5, <4>2 DEF RemoveWorkTree
      <4> QED
        BY <4>1, <4>2
    <3>4. worktree[m][p] = fetched[m][p]
      BY <1>1, <3>2, <3>3
    <3>5. ~(m = machineOf[e] /\ p = pr[h])
      <4>1. ASSUME m = machineOf[e], p = pr[h] PROVE FALSE
        <5>1. Clean(m, p)
          BY <3>2, <3>4 DEF Clean
        <5>2. worktree'[m][p] = 0
          BY <2>5, <4>1, <5>1, SetWorktreeValue DEF RemoveWorkTree
        <5> QED
          BY <5>2
      <4> QED
        BY <4>1
    <3>6. PICK g \in Hooks, f \in Endpoints : Owner(g, f, m, p)
      BY <1>1, <3>2, <3>3
    <3>7. Owner(g, f, m, p)'
      BY <3>1, <3>5, <3>6 DEF Moved, Owner
    <3> QED
      BY <3>2, <3>3, <3>4, <3>7
  <2> QED
    BY <1>5, <2>1, <2>2, <2>3, <2>4, <2>5 DEF EndpointStep
<1>6. CASE UNCHANGED vars
  BY <1>1, <1>6 DEF vars, Owner, config, history, disk
<1> QED
  BY <1>0, <1>2, <1>3, <1>4, <1>5, <1>6 DEF Next

(* When every webhook was answered, without faults, a worktree is left only *)
(* where build steps left files or a fetch has moved its branch.            *)
THEOREM WorktreesGo == Spec => []NoWorktreeLeft
<1>1. Init => Owned
  BY DEF Init, Owned
<1>2. Owned => NoWorktreeLeft
  BY DEF Owned, Owner, Active, NoWorktreeLeft
<1> QED
  BY <1>1, <1>2, TypeInit, TypeNext, OwnedNext, PTL DEF Spec
=============================================================================
