---------------------------- MODULE JsonRpcClient ----------------------------
(***************************************************************************)
(* JsonRpcClient (the JsonRpcClient.cpp part of                           *)
(* src/src/SynchronousBlockingQueue.cpp) on top of WebSocketClient.  The  *)
(* application thread makes one JSON-RPC operation at a time: Call, or    *)
(* RegisterWithEvent / UnregisterWithEvent, which are a Call followed by  *)
(* json::parse of the response.  The static id of Call is the "calls"     *)
(* counter of WebSocketClient: call i sends the request with id i.  The   *)
(* formatting of requests (string_format) is abstracted to that id.       *)
(* json::parse of the empty string throws nlohmann::json::parse_error,    *)
(* which neither operation catches; the program then terminates.          *)
(***************************************************************************)
EXTENDS WebSocketClient

VARIABLES
    rpc_pc,     \* where the application thread is in the JsonRpcClient API
    rpc_op      \* the operation in progress

rpc == <<rpc_pc, rpc_op>>
all_vars == <<vars, rpc>>

Operations == {"Call", "RegisterWithEvent", "UnregisterWithEvent"}

\* RegisterWithEvent and UnregisterWithEvent parse the response they get.
ParsesResponse(op) == op \in {"RegisterWithEvent", "UnregisterWithEvent"}

\* json::parse(response) throws on the empty string, the response of a
\* Call made while not connected.
ParseThrows(response) == response = Empty

\* new JsonRpcClient -> new WebSocketClient -> OpenWebSocket.
RpcInit ==
    /\ Init
    /\ rpc_pc = "ready"
    /\ rpc_op = "Call"

\* Call(method, params): ++id, string_format and SendSynchronousRequest;
\* the safety check on web_socket_client_ always passes while the client
\* lives.
RpcBegin(op) ==
    /\ rpc_pc = "ready"
    /\ CallBegin
    /\ rpc_pc' = "calling"
    /\ rpc_op' = op

\* SendSynchronousRequest has returned; Register/UnregisterWithEvent then
\* run json::parse on the response and compare its "result" with 0.
RpcEnd ==
    /\ rpc_pc = "calling"
    /\ cpc = "idle"
    /\ Len(results) = calls
    /\ rpc_pc' = IF ParsesResponse(rpc_op) /\ ParseThrows(results[calls])
                 THEN "threw"
                 ELSE "ready"
    /\ UNCHANGED <<vars, rpc_op>>

\* The uncaught parse_error reaches std::terminate: nothing happens after.
Terminated ==
    /\ rpc_pc = "threw"
    /\ UNCHANGED all_vars

\* ~JsonRpcClient -> delete web_socket_client_ -> CloseWebSocket; and the
\* steps of the session, of the server and of the lower layers, none of
\* which the JSON-RPC layer takes part in.
Lower ==
    /\ \/ rpc_pc = "ready" /\ CloseBegin
       \/ InstallHandler \/ OpenConnected \/ CallSend \/ CallTake \/ CallReturn
       \/ CloseDrained \/ CloseJoined
       \/ ReceiveMessage \/ ReceiveUnhandled \/ ServerNotify \/ SessionStep
       \/ Closed \/ Crashed
    /\ UNCHANGED rpc

RpcNext ==
    \/ \E op \in Operations : RpcBegin(op)
    \/ RpcEnd
    \/ Terminated
    \/ Lower

RpcSpec == RpcInit /\ [][RpcNext]_all_vars

-----------------------------------------------------------------------------
RpcTypeOK ==
    /\ TypeOK
    /\ rpc_pc \in {"ready", "calling", "threw"}
    /\ rpc_op \in Operations

\* Spec 7: RegisterWithEvent and UnregisterWithEvent return false on
\* failure and throw no exception.  The code parses the response of Call
\* unconditionally, and Call returns the empty string when the connection
\* is not CONNECTED (WebSocketClient::SendSynchronousRequest).
NoUncaughtException ==
    rpc_pc # "threw"
=============================================================================
