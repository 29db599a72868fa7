------------------------------ MODULE MCBuild ------------------------------
(* Small instances of Build.                                                *)
EXTENDS Build, TLC

(* Webhooks, pull requests and endpoints are interchangeable; hosts are not,*)
(* since one of them is Local.                                              *)
Symmetry == Permutations(Hooks) \cup Permutations(PRs) \cup Permutations(Endpoints)
=============================================================================
