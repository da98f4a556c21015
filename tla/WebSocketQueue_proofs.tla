------------------------ MODULE WebSocketQueue_proofs ------------------------
(***************************************************************************)
(* Proof that the outbound queue never stalls (QueueNeverStalls): on an    *)
(* open connection, messages wait in the queue only while a writable       *)
(* callback is pending.  It rests on two facts kept by every step: the     *)
(* queue is empty while writable_ is set (WritableImpliesQueueEmpty), and  *)
(* an open connection is the one handle_ names, with writable_ set or a    *)
(* writable request pending on it (OpenLinkServed).                        *)
(***************************************************************************)
EXTENDS WebSocket_proofs

USE DEF EnqueueMessage, HasEnqueuedMessages, RemoveOldestEnqueuedMessage,
        SetWatchDogThreadStarted, StopWatchDogThread, IsWatchDogThreadRunning,
        SetConnectState, GetConnectState, SetWritable, IsWritable, SetHandle,
        SetContext

OpenLinkServed ==
    link = "open" => handle = "current" /\ (writable \/ want_writable)

SInv == IInv /\ OpenLinkServed

\* A write on the open wsi of the current context always requests the next
\* writable callback.
LEMMA WriteRequestsWritable ==
    ASSUME NEW m, WriteMessageToWebSocket(m), UNCHANGED <<handle, link>>,
           link = "open" /\ handle = "current"
    PROVE  OpenLinkServed'
BY Zenon DEF WriteMessageToWebSocket, OpenLinkServed

LEMMA ServedStep == SInv /\ [Next]_vars => OpenLinkServed'
<1> SUFFICES ASSUME SInv, [Next]_vars PROVE OpenLinkServed'
    OBVIOUS
<1>1. ASSUME NEW m \in Msgs, SendAsync(m) PROVE OpenLinkServed'
    <2>1. UNCHANGED <<handle, link>>
        BY <1>1, Zenon DEF SendAsync
    <2>2. CASE writable /\ link = "open"
        <3>1. WriteMessageToWebSocket(m) /\ handle = "current"
            BY <1>1, <2>2, Zenon DEF SendAsync, SInv, OpenLinkServed
        <3>2. QED
            BY <2>1, <2>2, <3>1, WriteRequestsWritable
    <2>3. CASE ~writable
        BY <1>1, <2>3, Zenon DEF SendAsync, SInv, OpenLinkServed
    <2>4. CASE link # "open"
        BY <2>1, <2>4 DEF OpenLinkServed
    <2>5. QED
        BY <2>2, <2>3, <2>4
<1>2. CASE OnWriteable
    <2>1. UNCHANGED <<handle, link>> /\ link = "open"
        BY <1>2, Zenon DEF OnWriteable
    <2>2. handle = "current"
        BY <2>1, Zenon DEF SInv, OpenLinkServed
    <2>3. CASE enqueued_messages # <<>>
        <3>1. WriteMessageToWebSocket(Head(enqueued_messages))
            BY <1>2, <2>3, Zenon DEF OnWriteable
        <3>2. QED
            BY <2>1, <2>2, <3>1, WriteRequestsWritable
    <2>4. CASE enqueued_messages = <<>>
        BY <1>2, <2>1, <2>2, <2>4, Zenon DEF OnWriteable, OpenLinkServed
    <2>5. QED
        BY <2>3, <2>4
<1>3. CASE OnEstablished
    BY <1>3, Zenon DEF OnEstablished, OpenLinkServed
<1>4. CASE WatchdogConnect \/ WatchdogExit \/ OnConnectionError \/ OnClosed
           \/ LinkDrop
    BY <1>4, Zenon DEF WatchdogConnect, WatchdogExit, OnConnectionError,
                       OnClosed, LinkDrop, OpenLinkServed
<1>5. CASE \/ DestroyStop \/ DestroyJoin \/ WatchdogStart \/ WatchdogCheck
           \/ ServiceReturn \/ OnReceive \/ ServerReply \/ Destroyed
           \/ UNCHANGED vars
    <2>1. UNCHANGED <<link, handle, writable, want_writable>>
        BY <1>5, Zenon DEF DestroyStop, DestroyJoin, WatchdogStart,
                           WatchdogCheck, ServiceReturn, OnReceive,
                           ServerReply, Destroyed, vars, session, transport
    <2>2. QED
        BY <2>1, Zenon DEF SInv, OpenLinkServed
<1>6. QED
    BY <1>1, <1>2, <1>3, <1>4, <1>5 DEF Next, Watchdog, Environment

\* No stall: in every reachable state of the session, for every set of
\* payloads and every bound, messages that SendAsync left in the queue of
\* an open connection have a writable callback pending (QueueNeverStalls),
\* as ESTABLISHED and every WriteMessageToWebSocket request one.
THEOREM NeverStalls == Spec => []QueueNeverStalls
<1>1. Init => SInv
    <2>1. Init => IInv
        BY EmptySeq, ConcatEmptySeq, Zenon
        DEF Init, IInv, TypeOK, ConnectStates, HandleValues, ContextCounts,
            WatchdogPcs, OwnerPcs, LinkStates, DISCONNECTED,
            WritableImpliesQueueEmpty, FifoDelivery
    <2>2. Init => OpenLinkServed
        BY Zenon DEF Init, OpenLinkServed
    <2>3. QED
        BY <2>1, <2>2 DEF SInv
<1>2. SInv /\ [Next]_vars => SInv'
    BY IInvStep, ServedStep DEF SInv
<1>3. SInv => QueueNeverStalls
    BY Zenon DEF SInv, IInv, WritableImpliesQueueEmpty, OpenLinkServed,
                 QueueNeverStalls
<1>4. QED
    BY <1>1, <1>2, <1>3, PTL DEF Spec
=============================================================================
