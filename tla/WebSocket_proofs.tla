-------------------------- MODULE WebSocket_proofs --------------------------
(***************************************************************************)
(* Proofs about the WebSocket session: type correctness, and that the      *)
(* outbound path (SendAsync, EnqueueMessage, the writable callback,        *)
(* WriteMessageToWebSocket) preserves the order of SendAsync calls, for    *)
(* every set of payloads and every bound.                                  *)
(***************************************************************************)
EXTENDS WebSocket, SequenceTheorems, TLAPS

\* The accessors are one-line definitions; every proof may see through them.
USE DEF EnqueueMessage, HasEnqueuedMessages, RemoveOldestEnqueuedMessage,
        SetWatchDogThreadStarted, StopWatchDogThread, IsWatchDogThreadRunning,
        SetConnectState, GetConnectState, SetWritable, IsWritable, SetHandle,
        SetContext

\* Appending to the right operand of a concatenation appends to the whole.
LEMMA AppendConcat ==
    ASSUME NEW S, NEW s \in Seq(S), NEW t \in Seq(S), NEW x \in S
    PROVE  s \o Append(t, x) = Append(s \o t, x)
BY ConcatAssociative, AppendIsConcat, ConcatProperties

\* Moving the head of the right operand to the end of the left one leaves
\* the concatenation unchanged: what the writable callback does when it
\* writes the oldest enqueued message.
LEMMA HeadTailConcat ==
    ASSUME NEW S, NEW s \in Seq(S), NEW t \in Seq(S), t # <<>>
    PROVE  Append(s, Head(t)) \o Tail(t) = s \o t
<1>1. t = <<Head(t)>> \o Tail(t)
    BY HeadTailProperties, ConcatProperties, SeqEqual
<1>2. QED
    BY <1>1, AppendIsConcat, ConcatAssociative, HeadTailProperties

-----------------------------------------------------------------------------
(* TypeOK split into the control part (enumerations and flags, for Zenon)  *)
(* and the sequence part (for SMT).                                        *)
ControlTypeOK ==
    /\ connection_state \in ConnectStates
    /\ writable \in BOOLEAN
    /\ handle \in HandleValues
    /\ contexts \in ContextCounts
    /\ watchdog_thread_running \in BOOLEAN
    /\ wd \in WatchdogPcs
    /\ owner \in OwnerPcs
    /\ link \in LinkStates
    /\ want_writable \in BOOLEAN

SeqTypeOK ==
    /\ enqueued_messages \in Seq(Msgs)
    /\ to_server \in Seq(Msgs)
    /\ to_client \in Seq(Msgs)
    /\ written \in Seq(Msgs)
    /\ sent \in Seq(Msgs)

LEMMA TypeOKParts == TypeOK <=> ControlTypeOK /\ SeqTypeOK
BY Zenon DEF TypeOK, ControlTypeOK, SeqTypeOK

\* Every step keeps the flags and the enumerated state in range.
LEMMA ControlStep == ControlTypeOK /\ [Next]_vars => ControlTypeOK'
<1> SUFFICES ASSUME ControlTypeOK, [Next]_vars PROVE ControlTypeOK'
    OBVIOUS
<1> USE DEF ControlTypeOK, ConnectStates, HandleValues, ContextCounts, WatchdogPcs,
            OwnerPcs, LinkStates, DISCONNECTED, CONNECTING, CONNECTED
<1>1. ASSUME NEW m \in Msgs, SendAsync(m) PROVE ControlTypeOK'
    BY <1>1, Zenon DEF SendAsync, WriteMessageToWebSocket
<1>2. CASE DestroyStop
    BY <1>2, Zenon DEF DestroyStop, transport, history
<1>3. CASE DestroyJoin
    BY <1>3, Zenon DEF DestroyJoin, transport, history
<1>4. CASE WatchdogStart
    BY <1>4, Zenon DEF WatchdogStart, transport, history
<1>5. CASE WatchdogCheck
    BY <1>5, Zenon DEF WatchdogCheck, transport, history
<1>6. CASE WatchdogExit
    BY <1>6, Zenon DEF WatchdogExit
<1>7. CASE WatchdogConnect
    BY <1>7, Zenon DEF WatchdogConnect, history
<1>8. CASE ServiceReturn
    BY <1>8, Zenon DEF ServiceReturn, transport, history
<1>9. CASE OnEstablished
    BY <1>9, Zenon DEF OnEstablished
<1>10. CASE OnConnectionError
    BY <1>10, Zenon DEF OnConnectionError
<1>11. CASE OnClosed
    BY <1>11, Zenon DEF OnClosed
<1>12. CASE OnReceive
    BY <1>12, Zenon DEF OnReceive, session, history
<1>13. CASE OnWriteable
    BY <1>13, Zenon DEF OnWriteable, WriteMessageToWebSocket
<1>14. CASE ServerReply
    BY <1>14, Zenon DEF ServerReply, session, history
<1>15. CASE LinkDrop
    BY <1>15, Zenon DEF LinkDrop, session, history
<1>16. CASE Destroyed \/ UNCHANGED vars
    BY <1>16, Zenon DEF Destroyed, vars, session, transport, history
<1>17. QED
    BY <1>1, <1>2, <1>3, <1>4, <1>5, <1>6, <1>7, <1>8, <1>9, <1>10,
       <1>11, <1>12, <1>13, <1>14, <1>15, <1>16
    DEF Next, Watchdog, Environment

\* Every step keeps the queue, the channels and the logs sequences of
\* payloads.
LEMMA SeqStep == SeqTypeOK /\ [Next]_vars => SeqTypeOK'
<1> SUFFICES ASSUME SeqTypeOK, [Next]_vars PROVE SeqTypeOK'
    OBVIOUS
<1> USE DEF SeqTypeOK
<1>1. ASSUME NEW m \in Msgs, SendAsync(m) PROVE SeqTypeOK'
    <2>1. sent' \in Seq(Msgs)
        BY <1>1, AppendProperties DEF SendAsync
    <2>2. CASE writable
        <3>1. /\ written' = Append(written, m)
              /\ \/ to_server' = to_server
                 \/ to_server' = Append(to_server, m)
              /\ UNCHANGED <<enqueued_messages, to_client>>
            BY <1>1, <2>2, Zenon DEF SendAsync, WriteMessageToWebSocket
        <3>2. /\ Append(written, m) \in Seq(Msgs)
              /\ Append(to_server, m) \in Seq(Msgs)
            BY AppendProperties
        <3>3. QED
            BY <2>1, <3>1, <3>2, Zenon
    <2>3. CASE ~writable
        <3>1. /\ enqueued_messages' = Append(enqueued_messages, m)
              /\ UNCHANGED <<to_server, to_client, written>>
            BY <1>1, <2>3, Zenon DEF SendAsync
        <3>2. QED
            BY <2>1, <3>1, AppendProperties
    <2>4. QED
        BY <2>2, <2>3
<1>2. CASE DestroyStop
    BY <1>2 DEF DestroyStop, transport, history
<1>3. CASE OnReceive
    BY <1>3 DEF OnReceive, session, history
<1>4. CASE OnWriteable
    <2>1. CASE enqueued_messages # <<>>
        <3>1. /\ enqueued_messages' = Tail(enqueued_messages)
              /\ written' = Append(written, Head(enqueued_messages))
              /\ \/ to_server' = to_server
                 \/ to_server' = Append(to_server, Head(enqueued_messages))
              /\ UNCHANGED <<to_client, sent>>
            BY <1>4, <2>1, Zenon DEF OnWriteable, WriteMessageToWebSocket
        <3>2. Head(enqueued_messages) \in Msgs
            BY <2>1, HeadTailProperties
        <3>3. /\ Tail(enqueued_messages) \in Seq(Msgs)
              /\ Append(written, Head(enqueued_messages)) \in Seq(Msgs)
              /\ Append(to_server, Head(enqueued_messages)) \in Seq(Msgs)
            BY <2>1, <3>2, AppendProperties, HeadTailProperties
        <3>4. QED
            BY <3>1, <3>3, Zenon
    <2>2. CASE enqueued_messages = <<>>
        BY <1>4, <2>2 DEF OnWriteable
    <2>3. QED
        BY <2>1, <2>2
<1>5. CASE ServerReply
    BY <1>5 DEF ServerReply, session, history
<1>6. CASE LinkDrop
    BY <1>6 DEF LinkDrop, session, history
<1>7. CASE WatchdogExit
    BY <1>7 DEF WatchdogExit, history
<1>8. CASE \/ DestroyJoin \/ WatchdogStart \/ WatchdogCheck
           \/ WatchdogConnect \/ ServiceReturn \/ OnEstablished
           \/ OnConnectionError \/ OnClosed \/ Destroyed \/ UNCHANGED vars
    BY <1>8 DEF DestroyJoin, WatchdogStart, WatchdogCheck, WatchdogConnect,
                ServiceReturn, OnEstablished, OnConnectionError, OnClosed,
                Destroyed, vars, session, transport, history
<1>9. QED
    BY <1>1, <1>2, <1>3, <1>4, <1>5, <1>6, <1>7, <1>8
    DEF Next, Watchdog, Environment

\* Every state reachable through SendAsync, the watchdog loop, the LWS
\* callbacks and the destructor is well typed.
THEOREM TypeCorrect == Spec => []TypeOK
<1>1. Init => ControlTypeOK
    BY Zenon DEF Init, ControlTypeOK, ConnectStates, HandleValues, ContextCounts,
                 WatchdogPcs, OwnerPcs, LinkStates, DISCONNECTED
<1>2. Init => SeqTypeOK
    BY EmptySeq DEF Init, SeqTypeOK
<1>3. QED
    BY <1>1, <1>2, ControlStep, SeqStep, TypeOKParts, PTL DEF Spec

-----------------------------------------------------------------------------
(* FifoDelivery.  It is not inductive alone: a SendAsync that finds       *)
(* writable_ set writes at once, overtaking the queue, unless the queue is *)
(* empty whenever writable_ is set (WritableImpliesQueueEmpty).            *)

\* The actions that leave the queue, the flag, the logs and the owner alone.
Quiet ==
    \/ WatchdogStart \/ WatchdogCheck \/ WatchdogExit \/ WatchdogConnect
    \/ ServiceReturn \/ OnEstablished \/ OnConnectionError \/ OnClosed
    \/ OnReceive \/ ServerReply \/ LinkDrop \/ Destroyed \/ UNCHANGED vars

LEMMA QuietUnchanged ==
    Quiet => UNCHANGED <<writable, enqueued_messages, written, sent, owner>>
BY Zenon DEF Quiet, WatchdogStart, WatchdogCheck, WatchdogExit,
             WatchdogConnect, ServiceReturn, OnEstablished,
             OnConnectionError, OnClosed, OnReceive, ServerReply, LinkDrop,
             Destroyed, vars, session, transport, history

LEMMA IInvStep == IInv /\ [Next]_vars => IInv'
<1> SUFFICES ASSUME IInv, [Next]_vars PROVE IInv'
    OBVIOUS
<1>0. TypeOK'
    <2>1. ControlTypeOK /\ SeqTypeOK
        BY TypeOKParts DEF IInv
    <2>2. ControlTypeOK' /\ SeqTypeOK'
        BY <2>1, ControlStep, SeqStep
    <2>3. QED
        BY <2>2, Zenon DEF TypeOK, ControlTypeOK, SeqTypeOK
<1> USE DEF IInv, TypeOK
<1>1. ASSUME NEW m \in Msgs, SendAsync(m) PROVE IInv'
    <2>1. /\ owner = "live" /\ owner' = "live"
          /\ sent' = Append(sent, m)
          /\ written \o enqueued_messages = sent
        BY <1>1, Zenon DEF SendAsync, FifoDelivery
    <2>2. CASE writable
        <3>1. /\ enqueued_messages = <<>>
              /\ written' = Append(written, m)
              /\ enqueued_messages' = <<>>
              /\ writable' = FALSE
            BY <1>1, <2>2, Zenon
            DEF SendAsync, WriteMessageToWebSocket, WritableImpliesQueueEmpty
        <3>2. written \o <<>> = written /\ Append(written, m) \o <<>> = Append(written, m)
            BY AppendProperties, ConcatEmptySeq
        <3>3. FifoDelivery'
            BY <2>1, <3>1, <3>2 DEF FifoDelivery
        <3>4. WritableImpliesQueueEmpty'
            BY <3>1, Zenon DEF WritableImpliesQueueEmpty
        <3>5. QED
            BY <1>0, <3>3, <3>4
    <2>3. CASE ~writable
        <3>1. /\ enqueued_messages' = Append(enqueued_messages, m)
              /\ UNCHANGED <<writable, written>>
            BY <1>1, <2>3, Zenon DEF SendAsync
        <3>2. written \o Append(enqueued_messages, m)
                = Append(written \o enqueued_messages, m)
            BY AppendConcat
        <3>3. FifoDelivery'
            BY <2>1, <3>1, <3>2 DEF FifoDelivery
        <3>4. WritableImpliesQueueEmpty'
            BY <2>3, <3>1, Zenon DEF WritableImpliesQueueEmpty
        <3>5. QED
            BY <1>0, <3>3, <3>4
    <2>4. QED
        BY <2>2, <2>3
<1>2. CASE DestroyStop
    <2>1. enqueued_messages' = <<>> /\ owner' = "joining"
        BY <1>2, Zenon DEF DestroyStop
    <2>2. QED
        BY <1>0, <2>1, Zenon DEF WritableImpliesQueueEmpty, FifoDelivery
<1>3. CASE DestroyJoin
    <2>1. owner' = "destroyed" /\ UNCHANGED <<writable, enqueued_messages>>
        BY <1>3, Zenon DEF DestroyJoin
    <2>2. QED
        BY <1>0, <2>1, Zenon DEF WritableImpliesQueueEmpty, FifoDelivery
<1>4. CASE OnWriteable
    <2>1. CASE enqueued_messages # <<>>
        <3>1. /\ enqueued_messages' = Tail(enqueued_messages)
              /\ written' = Append(written, Head(enqueued_messages))
              /\ writable' = FALSE
              /\ UNCHANGED <<sent, owner>>
            BY <1>4, <2>1, Zenon DEF OnWriteable, WriteMessageToWebSocket
        <3>2. Append(written, Head(enqueued_messages)) \o Tail(enqueued_messages)
                = written \o enqueued_messages
            BY <2>1, HeadTailConcat
        <3>3. FifoDelivery'
            BY <3>1, <3>2 DEF FifoDelivery
        <3>4. WritableImpliesQueueEmpty'
            BY <3>1, Zenon DEF WritableImpliesQueueEmpty
        <3>5. QED
            BY <1>0, <3>3, <3>4
    <2>2. CASE enqueued_messages = <<>>
        <3>1. UNCHANGED <<enqueued_messages, written, sent, owner>>
            BY <1>4, <2>2, Zenon DEF OnWriteable
        <3>2. QED
            BY <1>0, <2>2, <3>1, Zenon
            DEF WritableImpliesQueueEmpty, FifoDelivery
    <2>3. QED
        BY <2>1, <2>2
<1>5. CASE Quiet
    <2>1. UNCHANGED <<writable, enqueued_messages, written, sent, owner>>
        BY <1>5, QuietUnchanged
    <2>2. QED
        BY <1>0, <2>1, Zenon DEF WritableImpliesQueueEmpty, FifoDelivery
<1>6. QED
    BY <1>1, <1>2, <1>3, <1>4, <1>5 DEF Next, Watchdog, Environment, Quiet

\* Outbound order: in every reachable state of the session, for every set of
\* payloads and every bound, the lws_write calls followed by the enqueued
\* messages are exactly the SendAsync calls (FifoDelivery).
THEOREM OutboundOrder == Spec => []FifoDelivery
<1>1. Init => IInv
    <2>1. Init => TypeOK
        BY EmptySeq, Zenon DEF Init, TypeOK, ConnectStates, HandleValues, ContextCounts,
                    WatchdogPcs, OwnerPcs, LinkStates, DISCONNECTED
    <2>2. Init => WritableImpliesQueueEmpty /\ FifoDelivery
        BY EmptySeq, ConcatEmptySeq
        DEF Init, WritableImpliesQueueEmpty, FifoDelivery
    <2>3. QED
        BY <2>1, <2>2 DEF IInv
<1>2. IInv => FifoDelivery
    BY DEF IInv
<1>3. QED
    BY <1>1, <1>2, IInvStep, PTL DEF Spec
=============================================================================
