------------------------------ MODULE Runners ------------------------------
(***************************************************************************)
(* The inference runner connectors of the Python package: one client of    *)
(* class `kind`, used by one Python thread, against servers (for ONNX      *)
(* Runtime: model directories) that change behind its back.                *)
(*                                                                         *)
(* An HTTP exchange is abstracted to its reply: the status, whether the    *)
(* body is JSON, or "refused" when the exchange raises.  A class is the    *)
(* table of what each of its methods makes of each reply.                  *)
(***************************************************************************)
EXTENDS Integers, FiniteSets, FiniteSetsExt

CONSTANTS
  Kinds,       \* the connector classes a behaviour may be about
  Endpoints,   \* base URLs, host:port strings or model directories
  Malformed,   \* endpoints the client libraries refuse in their constructor
  Models,
  Versions,    \* version numbers; 0 is the default -1 of the interface
  MaxChanges   \* bound: how often the servers change

ASSUME RunnersAssumption ==
  /\ Kinds \subseteq {"kserve", "tf_serving", "openai", "triton", "onnx"}
  /\ Versions \subseteq Nat

None == "none"

VARIABLES
  kind, libs, preferGrpc,   \* fixed: the class, the libraries installed
  client,    \* url, http (the endpoint of the open client), connected, sessions
  server,    \* the state of each endpoint's server
  shelf,     \* the <<model, version>> pairs each endpoint has
  changes,
  last,      \* the last call, its result and the file or model that answered
  targets,   \* history: the endpoints the caller is connected to
  loaded     \* history: <<model, answered by>>, what load_model reported as
             \* loaded on this connection and was not taken away since

runnerVars == <<kind, libs, preferGrpc, client, server, shelf, changes, last,
                targets, loaded>>

-----------------------------------------------------------------------------
(* What each class makes of a reply.                                       *)

Replies == {"200", "200-text", "200-unlisted", "404", "500", "500-json", "refused"}
OK == {"200", "200-text", "200-unlisted"}

Only(good, result, otherwise) ==
  [r \in Replies |-> IF r \in good THEN result ELSE otherwise]

V2Infer == [Only({"200"}, "Answer", "InferenceError") EXCEPT !["404"] = "NotFound"]

\* Mutation: load_model no longer looks at the status of the answer.
KServeBlind ==
  [health     |-> Only(OK, "HEALTHY", "UNHEALTHY"),
   load_model |-> Only({"refused"}, "NotFound", "Ok"),
   infer      |-> V2Infer,
   model_info |-> Only({"200", "500-json"}, "Info", "NotFound")]

\* model_info looks for 404 only: an error with a JSON body is a READY model.
KServe ==
  [health     |-> Only(OK, "HEALTHY", "UNHEALTHY"),
   load_model |-> Only({"404", "refused"}, "NotFound", "Ok"),
   infer      |-> V2Infer,
   model_info |-> Only({"200", "500-json"}, "Info", "NotFound")]

TfServing ==
  [health     |-> Only(OK \union {"404"}, "HEALTHY", "UNHEALTHY"),
   load_model |-> Only({"404", "refused"}, "NotFound", "Ok"),
   infer      |-> V2Infer,
   model_info |-> Only({"200", "500-json"}, "Info", "NotFound")]

\* load_model reads the server's list and forgives a server that has none;
\* chat is infer with messages, infer_bare is infer without.
OpenAI ==
  [health     |-> Only(OK, "HEALTHY", "UNHEALTHY"),
   load_model |-> Only({"200-unlisted"}, "NotFound", "Ok"),
   infer      |-> V2Infer,
   infer_bare |-> Only({}, "Answer", "InferenceError"),
   embed      |-> Only({"200"}, "Answer", "InferenceError"),
   model_info |-> Only({"200", "500-json"}, "Info", "NotFound")]

\* The Triton libraries raise on every reply that is not a success.
Triton ==
  [health     |-> Only({"200"}, "HEALTHY", "UNHEALTHY"),
   load_model |-> Only({"200"}, "Ok", "NotFound"),
   infer      |-> Only({"200"}, "Answer", "InferenceError"),
   model_info |-> Only({"200"}, "Info", "NotFound")]

Class == [kserve |-> KServe, tf_serving |-> TfServing, openai |-> OpenAI,
          triton |-> Triton]

\* Without a client a method does not fail, except those that must answer.
Stub == [health |-> "UNKNOWN", load_model |-> "Ok", model_info |-> "Info",
         infer |-> "RunnerError", infer_bare |-> "RunnerError", embed |-> "RunnerError"]

\* tritonclient.http is looked for only when tritonclient.grpc is missing, so
\* preferring HTTP with both installed leaves the stub.
TritonAvailable == \/ preferGrpc /\ "grpc" \in libs
                   \/ "http" \in libs \ {"grpc"} /\ "grpc" \notin libs

Installed == IF kind = "triton" THEN TritonAvailable ELSE libs # {}

-----------------------------------------------------------------------------
(* The servers, and what they answer.                                      *)

VersionsOf(e, m) == {v \in Versions : <<m, v>> \in shelf[e]}

\* kserve and tf_serving put the version in the URL of infer; no other call
\* and no other class passes it on.
Wanted(op, m, v) ==
  IF op = "infer" /\ kind \in {"kserve", "tf_serving"} /\ v > 0 THEN {v} ELSE Versions

Reply(e, op, m, v) ==
  LET has == VersionsOf(e, m) \intersect Wanted(op, m, v) # {}
  IN CASE server[e] = "down"    -> "refused"
       [] server[e] = "failing" -> "500"
       [] server[e] = "verbose" -> "500-json"
       [] server[e] = "proxy"   -> "200-text"
       [] server[e] = "up" /\ (op = "health" \/ has) -> "200"
       [] server[e] = "up" /\ op = "load_model" /\ kind = "openai" ->
            IF shelf[e] = {} THEN "200" ELSE "200-unlisted"
       [] OTHER -> "404"

ServerStates == {"up", "down", "failing", "verbose", "proxy"}

\* What a load is answered by: a server that cannot tell has no list.
AnsweredBy(e) ==
  IF kind = "openai" /\ server[e] = "up" /\ shelf[e] = {} THEN "an empty list" ELSE server[e]

\* A server starts, stops or fails, or a model is added to or taken from it;
\* what ONNX Runtime has opened stays when its file goes.
Change(e) ==
  /\ changes < MaxChanges
  /\ changes' = changes + 1
  /\ \/ /\ kind # "onnx"
        /\ \E s \in ServerStates \ {server[e]} : server' = [server EXCEPT ![e] = s]
        /\ UNCHANGED <<shelf, loaded>>
     \/ /\ \E m \in Models, v \in Versions :
             /\ shelf' = [shelf EXCEPT ![e] = SymDiff(@, {<<m, v>>})]
             /\ loaded' = {l \in loaded : ~(/\ kind # "onnx" /\ client.http = e
                                            /\ l[1] = m /\ VersionsOf(e, m) = {v})}
        /\ UNCHANGED server
  /\ UNCHANGED <<kind, libs, preferGrpc, client, last, targets>>

-----------------------------------------------------------------------------
(* The calls.                                                              *)

Returned(op, m, v, result, from) ==
  last' = [op |-> op, model |-> m, version |-> v, result |-> result, from |-> from]

Nothing == [m \in Models |-> None]

RunnersInit ==
  /\ kind \in Kinds
  /\ libs \in SUBSET (CASE kind = "triton" -> {"grpc", "http"}
                        [] kind = "onnx" -> {"onnxruntime"}
                        [] OTHER -> {"httpx"})
  /\ preferGrpc \in (IF kind = "triton" THEN BOOLEAN ELSE {TRUE})
  /\ \E e \in Endpoints :
       /\ client = [url |-> e, http |-> None, connected |-> FALSE, sessions |-> Nothing]
       /\ targets = IF kind = "onnx" THEN {e} ELSE {}
  /\ server = [e \in Endpoints |-> "up"]
  /\ shelf \in [Endpoints -> {{}, Models \X {Max(Versions)}}]
  /\ changes = 0
  /\ last = [op |-> None, model |-> None, version |-> 0, result |-> None, from |-> None]
  /\ loaded = {}

\* The new endpoint is remembered before the library may refuse it; a client
\* that was open is replaced, not closed.
Connect(given) ==
  LET e == IF given = None THEN client.url ELSE given
      fails == e \in Malformed /\ Installed
  IN /\ kind # "onnx"
     /\ client' = [client EXCEPT !.url = e,
                     !.http = CASE fails -> @ [] ~Installed -> None [] OTHER -> e,
                     !.connected = @ \/ (~fails /\ kind \in {"kserve", "tf_serving"})]
     /\ targets' = CASE fails -> targets [] ~Installed -> {} [] OTHER -> {e}
     /\ loaded' = IF fails THEN loaded ELSE {}
     /\ Returned("connect", None, 0, IF fails THEN "ConnectionError" ELSE "Ok", None)
     /\ UNCHANGED <<kind, libs, preferGrpc, server, shelf, changes>>

\* Mutation: disconnect clears the flag and keeps the client.
DisconnectedFlagOnly(c) == [c EXCEPT !.connected = FALSE]
Disconnected(c) == [c EXCEPT !.http = None, !.connected = FALSE]

Disconnect ==
  /\ kind # "onnx"
  /\ client' = Disconnected(client)
  /\ targets' = {}
  /\ loaded' = {}
  /\ Returned("disconnect", None, 0, "Ok", None)
  /\ UNCHANGED <<kind, libs, preferGrpc, server, shelf, changes>>

Reaches(op) ==
  /\ client.http # None
  /\ kind \in {"kserve", "tf_serving"} /\ op \in {"health", "load_model"}
       => client.connected

Call(op, m, v) ==
  LET e == client.http
      result == IF Reaches(op) THEN Class[kind][op][Reply(e, op, m, v)] ELSE Stub[op]
      answers == VersionsOf(e, m) \intersect Wanted(op, m, v)
  IN /\ kind # "onnx"
     /\ op \in DOMAIN Class[kind]
     /\ Returned(op, m, v, result, IF result = "Answer" THEN <<e, Max(answers)>> ELSE None)
     /\ loaded' = IF op = "load_model" /\ result = "Ok" /\ Reaches(op)
                  THEN loaded \union {<<m, AnsweredBy(e)>>} ELSE loaded
     /\ UNCHANGED <<kind, libs, preferGrpc, client, server, shelf, changes, targets>>

-----------------------------------------------------------------------------
(* ONNX Runtime: the models are files, opened once and kept in `sessions`. *)

OnnxConnect(given) ==
  LET e == IF given = None THEN client.url ELSE given
  IN /\ kind = "onnx"
     /\ client' = [client EXCEPT !.url = e, !.connected = TRUE]
     /\ targets' = targets \union {e}
     /\ Returned("connect", None, 0, "Ok", None)
     /\ UNCHANGED <<kind, libs, preferGrpc, server, shelf, changes, loaded>>

\* Mutation: the sessions survive a disconnect.
OnnxDisconnectedOpen(c) == [c EXCEPT !.connected = FALSE]
OnnxDisconnected(c) == [c EXCEPT !.connected = FALSE, !.sessions = Nothing]

OnnxDisconnect ==
  /\ kind = "onnx"
  /\ client' = OnnxDisconnected(client)
  /\ targets' = {client.url}
  /\ loaded' = {}
  /\ Returned("disconnect", None, 0, "Ok", None)
  /\ UNCHANGED <<kind, libs, preferGrpc, server, shelf, changes>>

\* _resolve_model_path: the versioned file, else the file without a version.
Resolved(m, v) ==
  LET found == VersionsOf(client.url, m) \intersect {v, 0}
  IN IF client.url \in Endpoints /\ found # {} THEN <<client.url, Max(found)>> ELSE None

\* load_model, with the file it opens; the library may refuse the file.
Loads(m, v) ==
  IF Resolved(m, v) = None THEN {"NotFound"} ELSE {"Ok", "RunnerError"}

Session(m) == client.sessions[m]

OnnxLoad(m, v) ==
  /\ kind = "onnx"
  /\ \E result \in IF Installed THEN Loads(m, v) ELSE {"Ok"} :
       LET opened == Installed /\ result = "Ok"
       IN /\ client' = IF opened THEN [client EXCEPT !.sessions[m] = Resolved(m, v)] ELSE client
          /\ loaded' = IF opened THEN loaded \union {<<m, "up">>} ELSE loaded
          /\ Returned("load_model", m, v, result, None)
  /\ UNCHANGED <<kind, libs, preferGrpc, server, shelf, changes, targets>>

\* infer opens a session the first time; the version asked for later is not
\* looked at.  The session may refuse its inputs.
OnnxInfer(m, v) ==
  /\ kind = "onnx"
  /\ \/ /\ ~Installed
        /\ Returned("infer", m, v, "RunnerError", None)
        /\ UNCHANGED client
     \/ /\ Installed /\ Session(m) = None
        /\ \E result \in Loads(m, v) \ {"Ok"} : Returned("infer", m, v, result, None)
        /\ UNCHANGED client
     \/ /\ Installed
        /\ LET file == IF Session(m) = None THEN Resolved(m, v) ELSE Session(m)
           IN /\ file # None
              /\ client' = [client EXCEPT !.sessions[m] = file]
              /\ \/ Returned("infer", m, v, "Answer", file)
                 \/ Returned("infer", m, v, "InferenceError", None)
  /\ UNCHANGED <<kind, libs, preferGrpc, server, shelf, changes, targets, loaded>>

OnnxReport(op, m, v) ==
  /\ kind = "onnx"
  /\ \/ /\ op = "health"
        /\ Returned(op, m, v, IF client.connected /\ Installed THEN "HEALTHY" ELSE "UNKNOWN", None)
     \/ /\ op = "model_info"
        /\ Returned(op, m, v, IF Session(m) = None /\ Resolved(m, v) = None
                              THEN "NotFound" ELSE "Info", None)
  /\ UNCHANGED <<kind, libs, preferGrpc, client, server, shelf, changes, targets, loaded>>

RunnersNext ==
  \/ \E e \in Endpoints : Change(e)
  \/ \E e \in Endpoints \union Malformed \union {None} : Connect(e) \/ OnnxConnect(e)
  \/ Disconnect \/ OnnxDisconnect
  \/ \E m \in Models, v \in Versions :
       \/ \E op \in DOMAIN Stub : Call(op, m, v) \/ OnnxReport(op, m, v)
       \/ OnnxLoad(m, v) \/ OnnxInfer(m, v)

-----------------------------------------------------------------------------

\* Nobody gets an answer from a place it is not connected to: not after
\* disconnect, not from the endpoint of a connect that raised, not from the
\* server a later connect replaced; ONNX Runtime answers from a directory it
\* was given since the last disconnect (sessions outlive a second connect).
\* A version asked of a KServe or TF Serving server is the one that answers.
AnswersFromTheEndpoint ==
  last.result = "Answer" =>
    /\ last.from[1] \in targets
    /\ kind \in {"kserve", "tf_serving"} /\ last.version > 0
         => last.from[2] = last.version

\* What load_model reported as loaded, answered by a server that was up and
\* had a list, is there for infer as long as it is not taken away and the
\* client stays connected, whatever else comes and goes on the servers; what
\* ONNX Runtime opened stays even when its file or the directory changes.  A
\* version of its own may still be missing.
LoadedIsServed ==
  last.op = "infer" /\ last.result = "NotFound" /\ <<last.model, "up">> \in loaded =>
    kind \in {"kserve", "tf_serving"} /\ last.version > 0
=============================================================================
