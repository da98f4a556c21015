------------------------ MODULE JsonRpcClient_proofs ------------------------
(***************************************************************************)
(* The correlation of WebSocketClient_proofs carried up to the JSON-RPC    *)
(* layer: Call, RegisterWithEvent and UnregisterWithEvent only add steps   *)
(* of the application thread that leave the client's variables alone.     *)
(***************************************************************************)
EXTENDS JsonRpcClient, WebSocketClient_proofs

\* Every step of the JSON-RPC application is a step of the client below
\* it or leaves the client's variables unchanged.
LEMMA RpcStepIsClientStep == [RpcNext]_all_vars => [Next]_vars
<1> SUFFICES ASSUME [RpcNext]_all_vars PROVE [Next]_vars
    OBVIOUS
<1>1. ASSUME NEW op \in Operations, RpcBegin(op) PROVE Next
    BY <1>1 DEF RpcBegin, Next, User
<1>2. CASE RpcEnd \/ Terminated \/ UNCHANGED all_vars
    BY <1>2 DEF RpcEnd, Terminated, all_vars
<1>3. CASE Lower
    BY <1>3 DEF Lower, Next, User
<1>4. QED
    BY <1>1, <1>2, <1>3 DEF RpcNext

\* Correlation for the JSON-RPC application: whichever of Call,
\* RegisterWithEvent and UnregisterWithEvent the application runs, every
\* SendSynchronousRequest returns the empty string or the reply to its own
\* request, for every bound on calls and events.
THEOREM RpcCorrelation == RpcSpec => []ResponseMatchesRequest
<1>1. RpcInit => CInv
    BY InitCInv DEF RpcInit
<1>2. CInv /\ [RpcNext]_all_vars => CInv'
    BY RpcStepIsClientStep, CInvStep
<1>3. CInv => ResponseMatchesRequest
    BY DEF CInv
<1>4. QED
    BY <1>1, <1>2, <1>3, PTL DEF RpcSpec

\* One slot kept for the JSON-RPC application: while a Call, Register or
\* Unregister waits in Take with its reply offered, no message handed to
\* the incoming message handler replaces that reply.
THEOREM RpcSlotKept == RpcSpec => ReplyNotOverwritten
<1>1. RpcSpec => []CInv
    BY InitCInv, RpcStepIsClientStep, CInvStep, PTL DEF RpcSpec, RpcInit
<1>2. CInv /\ [RpcNext]_all_vars
          => [cpc = "wait" /\ ready_to_unlock => UNCHANGED element]_vars
    BY RpcStepIsClientStep, SlotStep
<1>3. QED
    BY <1>1, <1>2, PTL DEF RpcSpec, ReplyNotOverwritten

\* Refinement for the JSON-RPC application: whatever sequence of Call,
\* RegisterWithEvent and UnregisterWithEvent it runs, the client beneath
\* behaves as SynchronousCall, one request at a time.
THEOREM RpcRefinement == RpcSpec => ImplementsSynchronousCall
<1>1. RpcInit => Calls!CallInit /\ CInv
    BY InitCInv DEF RpcInit, Init, Calls!CallInit
<1>2. CInv /\ [RpcNext]_all_vars => CInv' /\ [Calls!CallNext]_Calls!call_vars
    BY RpcStepIsClientStep, CInvStep, CallStepMaps
<1>3. QED
    BY <1>1, <1>2, PTL
    DEF RpcSpec, ImplementsSynchronousCall, Calls!CallSpec
=============================================================================
