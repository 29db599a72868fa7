------------------------------- MODULE Config -------------------------------
(***************************************************************************)
(* The configuration file of ConflowCI and what NewConfig makes of it      *)
(* (pkg/config).                                                           *)
(*                                                                         *)
(* A file is a record; status tells whether it can be read and parsed.     *)
(* Texts are values of which only three things matter: whether they are    *)
(* empty, what os.ExpandEnv makes of them, and equality.  Lists keep their *)
(* order and their repetitions; a map is the set of its values.            *)
(***************************************************************************)
EXTENDS Integers, Sequences

CONSTANTS
  Nil,         \* a nil pointer, map or slice, and an address without port
  Empty,       \* the empty string
  NotANumber,  \* what follows the colon when strconv.Atoi refuses it
  Variables    \* the texts that refer to variables, with what they stand for

ASSUME ConfigAssumption ==
  /\ Nil \notin Int
  /\ NotANumber \notin Int
  /\ Empty # Nil
  /\ {Nil, Empty} \cap DOMAIN Variables = {}

IsHost(h) ==
  /\ h = [name |-> h.name, address |-> h.address]
  /\ h.address = [host |-> h.address.host, port |-> h.address.port]

(* What the configuration file may hold.                                    *)
IsFile(f) ==
  /\ f = [status |-> f.status, auth |-> f.auth, env |-> f.env,
          repository |-> f.repository, branch |-> f.branch, build |-> f.build,
          steps |-> f.steps, hosts |-> f.hosts, tasks |-> f.tasks]
  /\ \A i \in DOMAIN f.hosts : IsHost(f.hosts[i])

(* os.ExpandEnv.                                                            *)
Expand(text) == IF text \in DOMAIN Variables THEN Variables[text] ELSE text

ExpandMap(m) == IF m = Nil THEN Nil ELSE {Expand(text) : text \in m}

(* expandEnv, when it does not return an error.                             *)
ExpandEnv(f) ==
  [f EXCEPT !.auth = Expand(@),
            !.env = IF @ = Nil THEN Nil
                    ELSE [global |-> ExpandMap(@.global), local |-> ExpandMap(@.local)]]

(* A token or variable that expands to nothing is an error.                 *)
Expands(f) ==
  LET g == ExpandEnv(f) IN
  /\ g.auth # Empty
  /\ g.env # Nil => \A m \in {g.env.global, g.env.local} \ {Nil} : Empty \notin m

TwoTo16 == 65536

(* Mutation: the port is parsed as a signed number.                         *)
Bug_Int16(n) == n % 32768

(* The conversion uint16(n).                                                *)
Uint16(n) == n % TwoTo16

(* parseHost, for an address cut at its colons; a third part is ignored.    *)
ParseHost(h) ==
  [name |-> h.name,
   host |-> h.address.host,
   port |-> IF h.address.port = Nil THEN 0 ELSE Uint16(h.address.port)]

ValidateEndpoint(ep) == ep.host # Empty /\ ep.name # Empty

HostsParse(f) ==
  \A i \in DOMAIN f.hosts :
    f.hosts[i].address.port # NotANumber /\ ValidateEndpoint(ParseHost(f.hosts[i]))

ValidateParseHosts(f) == [i \in DOMAIN f.hosts |-> ParseHost(f.hosts[i])]

(* ValidateProvider returns nil.                                            *)
ValidProvider(f) == f.repository # Empty /\ f.branch # Empty /\ f.auth # Empty

ValidTask(task) ==
  /\ task.name # Empty
  /\ task.runsOn # <<>>
  /\ task.commands # <<>>
  /\ (task.pattern = Empty) # (task.files \in {Nil, <<>>})

(* ValidatePipeline returns nil.  The default it sets, parallel, is never   *)
(* looked at.                                                               *)
ValidPipeline(f) ==
  /\ f.build # Empty
  /\ f.steps # <<>>
  /\ f.tasks # <<>>
  /\ \A i \in DOMAIN f.tasks : ValidTask(f.tasks[i])

(* The three functions whose errors end NewConfig; those of                 *)
(* ValidatePipeline and ValidateProvider are dropped.                       *)
Loads(f) == f.status = "yaml" /\ Expands(f) /\ HostsParse(f)

(* NewConfig: a configuration, or nil with an error.                        *)
NewConfig(f) ==
  IF Loads(f) THEN [config |-> ExpandEnv(f), endpoints |-> ValidateParseHosts(f)] ELSE Nil

GetToken(cfg) == IF cfg.config.auth = Nil THEN Empty ELSE cfg.config.auth

(* https://github.com/<repository>.git.                                     *)
GetCloneURL(cfg) == cfg.config.repository

(* GetEndpointURL, and formatAddress of internal/sync/build.go.             *)
GetEndpointURL(ep) == [host |-> ep.host, port |-> IF ep.port = 0 THEN Nil ELSE ep.port]
=============================================================================
