--------------------------- MODULE MCOrchestrator ---------------------------
(* Small instances of Orchestrator for TLC. *)
EXTENDS Orchestrator, TLC

MCWorkers == {[host |-> "h1", port |-> 8918]}

MCVariables == ("$TOKEN" :> "t") @@ ("$GONE" :> "")

Host(name, host, port) == [name |-> name, address |-> [host |-> host, port |-> port]]

Node1 == Host("n1", "h1", 8918)
Node2 == Host("n2", "h2", 40000)
Wraps == Host("n1", "h1", 65536 + 8918)

Task(machines, pattern, files) ==
  [name |-> "task", runsOn |-> machines, commands |-> <<"cmd">>,
   pattern |-> pattern, files |-> files]

ByName == Task(<<"n1">>, "", <<"a">>)
ByPattern == Task(<<"n1">>, "p", Nil)

File(hosts, tasks) ==
  [status |-> "yaml", auth |-> "$TOKEN", env |-> Nil, repository |-> "r", branch |-> "b",
   build |-> "b", steps |-> <<"s">>, hosts |-> hosts, tasks |-> tasks]

Good == File(<<Node1>>, <<ByName>>)
Broken == [Good EXCEPT !.status = "malformed"]

(* Two hosts, two tasks; no host; a port that wraps; a name of no machine;  *)
(* a variable that is not set; a port that is not a number.                 *)
TwoHosts == File(<<Node1, Node2>>, <<ByPattern, ByName>>)
NoHost == File(<<>>, <<ByPattern>>)
WrappedPort == File(<<Wraps>>, <<ByPattern>>)
NoMachine == File(<<Node1>>, <<Task(<<"n3">>, "", <<"a">>)>>)
NoToken == [Good EXCEPT !.auth = "$GONE"]
NoPort == File(<<Host("n1", "h1", NotANumber)>>, <<ByName>>)

MCContents ==
  [good |-> Good, broken |-> Broken, twoHosts |-> TwoHosts, noHost |-> NoHost,
   wrappedPort |-> WrappedPort, noMachine |-> NoMachine, noToken |-> NoToken,
   noPort |-> NoPort]

MCHoldings == {Secrets, {"server"}, {"ca", "server"}}

Symmetry == Permutations(Requests)
=============================================================================
