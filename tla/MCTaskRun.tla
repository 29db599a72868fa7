----------------------------- MODULE MCTaskRun ------------------------------
(* Small instances of TaskRun.                                              *)
EXTENDS TaskProperties, TLC

(* Workers and commands are interchangeable: safety runs only.              *)
Symmetry == Permutations(Workers) \cup Permutations(Cmds)

(* Every command on every machine, on a broker that was just started.       *)
FullInit ==
  /\ Init
  /\ cmds = Cmds
  /\ runsOn = Workers
  /\ ~declared

FullSpec == FullInit /\ [][Next]_vars

FairFullSpec == FullSpec /\ Fairness
=============================================================================
