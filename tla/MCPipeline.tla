----------------------------- MODULE MCPipeline -----------------------------
(* Small instances of Pipeline for TLC. *)
EXTENDS Pipeline, TLC

CONSTANTS h1, h2, w1, w2

On(machines, n) == [machines |-> machines, cmds |-> n]

(* A webhook with two tasks in turn on one worker, and another with a task  *)
(* on that worker and a second one.                                         *)
TurnAndTurn == (h1 :> <<On({w1}, 1), On({w1}, 1)>>) @@ (h2 :> <<On({w1, w2}, 1)>>)

(* Two webhooks with a machine each.                                        *)
OneEach == (h1 :> <<On({w1}, 1)>>) @@ (h2 :> <<On({w2}, 1)>>)
=============================================================================
