----------------------------- MODULE Connections -----------------------------
(***************************************************************************)
(* gRPC connections and the certificates they need (pkg/grpc), and the     *)
(* start of a worker process (cmd/worker/main.go).                         *)
(*                                                                         *)
(* A process finds a subset of three secrets on its host: the root         *)
(* certificate of the CA, a client pair and a server pair.                 *)
(***************************************************************************)
EXTENDS Config

Secrets == {"ca", "client", "server"}

CONSTANTS
  Workers,  \* worker processes, named by the [host, port] they listen on
  Holdings  \* the sets of secrets a host may have

(* app.Listen(":7777").                                                     *)
Orchestrator == [host |-> "orchestrator", port |-> 7777]

ASSUME WorkersAssumption ==
  /\ Orchestrator \notin Workers
  /\ \A w \in Workers : w.port \in 1 .. TwoTo16 - 1
  /\ Holdings \subseteq SUBSET Secrets

VARIABLES
  tls,      \* TlsFlag of the orchestrator
  secrets,  \* secrets[p]: what the host of process p holds
  worker    \* worker[w]: how far the main function of w is

connectionVars == <<tls, secrets, worker>>

WorkerStates == {"down", "listening", "credentials", "serving", "exited"}

ConnectionsTypeOK ==
  /\ tls \in BOOLEAN
  /\ secrets \in [Workers \cup {Orchestrator} -> Holdings]
  /\ worker \in [Workers -> WorkerStates]

ConnectionsInit ==
  /\ tls \in BOOLEAN
  /\ secrets \in [Workers \cup {Orchestrator} -> Holdings]
  /\ worker = [w \in Workers |-> "down"]

(* loadCA ends the process.                                                 *)
LoadCAExits(p) == "ca" \notin secrets[p]

(* GetClientTLSConfig returns an error.                                     *)
ClientTLSFails(p) == "ca" \in secrets[p] /\ "client" \notin secrets[p]

(* CreateNewClientConnection(addr) in the orchestrator: grpc.NewClient      *)
(* does not dial, so the address does not matter.                           *)
ClientExits == tls /\ LoadCAExits(Orchestrator)
ClientFails == tls /\ ClientTLSFails(Orchestrator)

(* A URL without a port means 443.                                          *)
Target(url) == [url EXCEPT !.port = IF @ = Nil THEN 443 ELSE @]

(* A call from the orchestrator to ep can succeed.  The server always asks  *)
(* for TLS and a client certificate, whatever the flag says.                *)
Reachable(ep) ==
  LET w == Target(GetEndpointURL(ep)) IN
  w \in Workers /\ worker[w] = "serving" /\ tls

-----------------------------------------------------------------------------
(* main of a worker.                                                        *)

Become(w, from, to) ==
  /\ worker[w] = from
  /\ worker' = [worker EXCEPT ![w] = to]
  /\ UNCHANGED <<tls, secrets>>

(* net.Listen; the port may be taken.                                       *)
Listen(w) == \E to \in {"listening", "exited"} : Become(w, "down", to)

(* GetWorkerTLSConfig, with the server pair and the CA.                     *)
LoadCredentials(w) ==
  Become(w, "listening",
         IF {"server", "ca"} \subseteq secrets[w] THEN "credentials" ELSE "exited")

(* CreateNewClientConnection to itself, with the client pair unless its     *)
(* -tls flag is off; then the services are registered and served.           *)
Serve(w) ==
  \/ "client" \in secrets[w] /\ Become(w, "credentials", "serving")
  \/ /\ "client" \notin secrets[w]
     /\ \E to \in {"serving", "exited"} : Become(w, "credentials", to)

WorkerStarts(w) == Listen(w) \/ LoadCredentials(w) \/ Serve(w)
=============================================================================
