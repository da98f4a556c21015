----------------------- MODULE WebSocketClient_proofs -----------------------
(***************************************************************************)
(* Proof that every SendSynchronousRequest returns the empty string or the *)
(* reply to its own request (ResponseMatchesRequest), for every bound on   *)
(* calls and events.  The inductive invariant CInv follows the current     *)
(* request through the session's queue, the server and the inbound         *)
(* stream (Pipeline), and ties the flag Take waits on to the offer of its *)
(* reply (Handoff).                                                        *)
(***************************************************************************)
EXTENDS WebSocketClient, SequenceTheorems, TLAPS

USE DEF WS!EnqueueMessage, WS!HasEnqueuedMessages,
        WS!RemoveOldestEnqueuedMessage, WS!SetWatchDogThreadStarted,
        WS!StopWatchDogThread, WS!IsWatchDogThreadRunning,
        WS!SetConnectState, WS!GetConnectState, WS!SetWritable,
        WS!IsWritable, WS!SetHandle, WS!SetContext

\* An inbound stream of events only: appending an event keeps it so, and
\* appending the reply id makes it a stream with that one reply.
LEMMA AppendInbound ==
    ASSUME NEW S, NEW s \in Seq(S), NEW id
    PROVE  /\ ReplyFree(s) => ReplyFree(Append(s, Event))
           /\ OneReply(s, id) => OneReply(Append(s, Event), id)
           /\ ReplyFree(s) => OneReply(Append(s, id), id)
<1>1. ReplyFree(s) => ReplyFree(Append(s, Event))
    BY AppendProperties DEF ReplyFree
<1>2. OneReply(s, id) => OneReply(Append(s, Event), id)
    BY AppendProperties DEF OneReply
<1>3. ReplyFree(s) => OneReply(Append(s, id), id)
    <2> SUFFICES ASSUME ReplyFree(s) PROVE OneReply(Append(s, id), id)
        OBVIOUS
    <2>1. Len(s) + 1 \in DOMAIN Append(s, id) /\ Append(s, id)[Len(s) + 1] = id
        BY AppendProperties
    <2>2. \A j \in DOMAIN Append(s, id) \ {Len(s) + 1} : Append(s, id)[j] = Event
        BY AppendProperties DEF ReplyFree
    <2>3. QED
        BY <2>1, <2>2 DEF OneReply
<1>4. QED
    BY <1>1, <1>2, <1>3

\* Taking the head of an inbound stream: of events only, it is an event;
\* with one reply, it is that reply and the rest is events only, or it is
\* an event and the rest still holds the reply.
LEMMA TailInbound ==
    ASSUME NEW S, NEW s \in Seq(S), s # <<>>, NEW id, id # Event
    PROVE  /\ ReplyFree(s) => Head(s) = Event /\ ReplyFree(Tail(s))
           /\ OneReply(s, id) =>
                 \/ Head(s) = id /\ ReplyFree(Tail(s))
                 \/ Head(s) = Event /\ OneReply(Tail(s), id)
           /\ OneReply(s, id) => ~ReplyFree(s)
<1>1. ReplyFree(s) => Head(s) = Event /\ ReplyFree(Tail(s))
    BY HeadTailProperties DEF ReplyFree
<1>2. ASSUME OneReply(s, id)
      PROVE  \/ Head(s) = id /\ ReplyFree(Tail(s))
             \/ Head(s) = Event /\ OneReply(Tail(s), id)
    <2>1. PICK k \in DOMAIN s : s[k] = id /\ \A j \in DOMAIN s \ {k} : s[j] = Event
        BY <1>2 DEF OneReply
    <2>2. CASE k = 1
        BY <2>1, <2>2, HeadTailProperties DEF ReplyFree
    <2>3. CASE k # 1
        <3>1. Head(s) = Event
            BY <2>1, <2>3, HeadTailProperties
        <3>2. /\ k - 1 \in DOMAIN Tail(s) /\ Tail(s)[k - 1] = id
              /\ \A j \in DOMAIN Tail(s) \ {k - 1} : Tail(s)[j] = Event
            BY <2>1, <2>3, HeadTailProperties
        <3>3. QED
            BY <3>1, <3>2 DEF OneReply
    <2>4. QED
        BY <2>2, <2>3
<1>3. OneReply(s, id) => ~ReplyFree(s)
    BY DEF OneReply, ReplyFree
<1>4. QED
    BY <1>1, <1>2, <1>3

\* A step that leaves the queue of the session, the transport's messages,
\* the blocking queue and the user thread alone keeps CInv.
LEMMA QuietStep ==
    ASSUME CInv,
           UNCHANGED <<enqueued_messages, to_server, to_client, element,
                       ready_to_unlock, cpc, calls, results>>
    PROVE  CInv'
BY Zenon DEF CInv, Pipeline, Handoff, Numbering, PipeIdle, InCall, ReplyFree,
             OneReply, ResponseMatchesRequest

\* Outside a call the pipeline is idle; in every state the session's queue
\* holds nothing or the current request.
LEMMA PipelineShape ==
    ASSUME Pipeline
    PROVE  /\ ~InCall => PipeIdle
           /\ enqueued_messages = <<>> \/ enqueued_messages = <<calls>>
           /\ to_server = <<>> \/ to_server = <<calls>>
BY Zenon DEF Pipeline, PipeIdle

\* A user step that moves between states outside a call, with the session
\* and the blocking queue unchanged where it matters.
LEMMA OutsideStep ==
    ASSUME CInv, ~InCall, cpc' \notin {"send", "take", "wait"},
           cpc \notin {"send", "take", "wait"},
           UNCHANGED <<to_server, to_client, element, ready_to_unlock, calls,
                       results>>,
           enqueued_messages' = <<>> \/ enqueued_messages' = enqueued_messages
    PROVE  CInv'
<1>1. PipeIdle
    BY PipelineShape DEF CInv
<1>2. PipeIdle'
    BY <1>1 DEF PipeIdle, ReplyFree
<1>3. QED
    BY <1>2, Zenon DEF CInv, Pipeline, Handoff, Numbering, ResponseMatchesRequest

LEMMA CInvStep == CInv /\ [Next]_vars => CInv'
<1> SUFFICES ASSUME CInv, [Next]_vars PROVE CInv'
    OBVIOUS
<1> USE ClientAssumption
<1>0. /\ calls \in 0..MaxCalls /\ results \in Seq(Messages \cup {Empty})
      /\ to_client \in Seq(Messages)
      /\ calls # Event
    BY DEF CInv, Numbering
<1>1. CASE OpenConnected
    BY <1>1, OutsideStep DEF OpenConnected, InCall, session_vars, queue_vars
<1>17. CASE InstallHandler
    BY <1>17, OutsideStep DEF InstallHandler, InCall, session_vars, queue_vars
<1>18. CASE ReceiveUnhandled
    <2>1. /\ to_client # <<>> /\ to_client' = Tail(to_client)
          /\ UNCHANGED <<enqueued_messages, to_server, element,
                         ready_to_unlock, calls, results>>
          /\ cpc = "install" /\ cpc' = "crashed"
        BY <1>18 DEF ReceiveUnhandled, WS!OnReceive, WS!session, queue_vars
    <2>2. PipeIdle
        BY <2>1, PipelineShape DEF CInv, InCall
    <2>3. ReplyFree(to_client') /\ to_client' \in Seq(Messages)
        BY <1>0, <2>1, <2>2, TailInbound, HeadTailProperties DEF PipeIdle
    <2>4. QED
        BY <2>1, <2>2, <2>3, Zenon
        DEF CInv, Pipeline, Handoff, PipeIdle, InCall, Numbering,
            ResponseMatchesRequest
<1>2. CASE CloseBegin
    BY <1>2, OutsideStep DEF CloseBegin, InCall, session_vars, queue_vars
<1>3. CASE CloseDrained
    BY <1>3, OutsideStep DEF CloseDrained, WS!DestroyStop, InCall, queue_vars,
                           WS!transport, WS!history
<1>4. CASE CloseJoined
    BY <1>4, OutsideStep DEF CloseJoined, WS!DestroyJoin, InCall, queue_vars,
                           WS!transport, WS!history
<1>5. CASE CallBegin
    <2>1. PipeIdle /\ PipeIdle' /\ cpc' \in {"idle", "send"}
        BY <1>5, PipelineShape
        DEF CallBegin, CInv, InCall, PipeIdle, ReplyFree, session_vars
    <2>2. Pipeline' /\ Handoff'
        BY <2>1 DEF Pipeline, Handoff
    <2>3. CASE WS!GetConnectState # WS!CONNECTED
        <3>1. results' = Append(results, Empty) /\ cpc' = "idle"
              /\ calls' = calls + 1 /\ calls < MaxCalls
            BY <1>5, <2>3 DEF CallBegin
        <3>2. Len(results) = calls /\ ResponseMatchesRequest
            BY <1>5 DEF CallBegin, CInv, Numbering
        <3>3. Numbering' /\ ResponseMatchesRequest'
            BY <1>0, <3>1, <3>2, AppendProperties
            DEF Numbering, ResponseMatchesRequest
        <3>4. QED
            BY <1>0, <2>2, <3>3, <1>5 DEF CInv, CallBegin, session_vars
    <2>4. CASE ~(WS!GetConnectState # WS!CONNECTED)
        <3>1. UNCHANGED results /\ cpc' = "send" /\ cpc = "idle"
              /\ calls' = calls + 1 /\ calls < MaxCalls
            BY <1>5, <2>4 DEF CallBegin
        <3>2. Numbering' /\ ResponseMatchesRequest'
            BY <1>0, <3>1 DEF CInv, Numbering, ResponseMatchesRequest
        <3>3. QED
            BY <1>0, <2>2, <3>2, <1>5 DEF CInv, CallBegin, session_vars
    <2>5. QED
        BY <2>3, <2>4
<1>6. CASE CallSend
    <2>1. /\ PipeIdle /\ cpc = "send" /\ cpc' = "take"
          /\ UNCHANGED <<to_client, element, ready_to_unlock, calls, results>>
        BY <1>6, PipelineShape DEF CallSend, WS!SendAsync, CInv, InCall,
                                   queue_vars
    <2>2. /\ \/ enqueued_messages' = <<calls>> /\ to_server' = <<>>
             \/ enqueued_messages' = <<>> /\ to_server' = <<calls>>
             \/ enqueued_messages' = <<>> /\ to_server' = <<>>
        <3>1. enqueued_messages = <<>> /\ to_server = <<>>
            BY <2>1 DEF PipeIdle
        <3>2. QED
            BY <1>6, <3>1 DEF CallSend, WS!SendAsync, WS!WriteMessageToWebSocket
    <2>3. Pipeline'
        BY <2>1, <2>2 DEF Pipeline, PipeIdle, InCall, ReplyFree
    <2>4. QED
        BY <2>1, <2>3, Zenon DEF CInv, Handoff, Numbering, ResponseMatchesRequest
<1>7. CASE CallTake
    <2>1. /\ cpc = "take" /\ cpc' = "wait" /\ ~ready_to_unlock'
          /\ UNCHANGED <<enqueued_messages, to_server, to_client, calls, results>>
        BY <1>7 DEF CallTake, Q!TakeReset, session_vars
    <2>2. Pipeline'
        BY <2>1 DEF CInv, Pipeline, PipeIdle, InCall, ReplyFree, OneReply
    <2>3. QED
        BY <2>1, <2>2, Zenon DEF CInv, Handoff, Numbering, ResponseMatchesRequest
<1>8. CASE CallReturn
    <2>1. /\ cpc = "wait" /\ cpc' = "idle" /\ ready_to_unlock
          /\ results' = Append(results, element)
          /\ UNCHANGED <<enqueued_messages, to_server, to_client, calls,
                         element, ready_to_unlock>>
        BY <1>8 DEF CallReturn, Q!TakeReady, session_vars, queue_vars
    <2>2. element = calls /\ PipeIdle /\ Len(results) = calls - 1
        BY <2>1 DEF CInv, Handoff, Numbering
    <2>3. Pipeline' /\ Handoff'
        BY <2>1, <2>2 DEF Pipeline, PipeIdle, ReplyFree, Handoff
    <2>4. calls \in 1..MaxCalls
        BY <1>0, <2>2, <2>1
    <2>5. Numbering' /\ ResponseMatchesRequest'
        BY <1>0, <2>1, <2>2, <2>4, AppendProperties
        DEF CInv, Numbering, ResponseMatchesRequest, Messages, Requests
    <2>6. QED
        BY <1>0, <2>1, <2>3, <2>5 DEF CInv
<1>9. CASE ReceiveMessage
    <2>1. /\ to_client # <<>> /\ to_client' = Tail(to_client)
          /\ UNCHANGED <<enqueued_messages, to_server, cpc, calls, results>>
          /\ Handle(Head(to_client))
        BY <1>9 DEF ReceiveMessage, WS!OnReceive, WS!session, user
    <2>2. to_client' \in Seq(Messages)
        BY <1>0, <2>1, HeadTailProperties
    <2>3. CASE ReplyFree(to_client)
        <3>1. /\ Head(to_client) = Event /\ ReplyFree(to_client')
              /\ ~OneReply(to_client, calls)
            BY <1>0, <2>1, <2>3, TailInbound
        <3>2. UNCHANGED <<element, ready_to_unlock>>
            BY <2>1, <3>1 DEF Handle, IsEvent, queue_vars
        <3>3. Pipeline' /\ Handoff'
            BY <2>1, <3>1, <3>2, Zenon DEF CInv, Pipeline, Handoff, PipeIdle,
                                            InCall
        <3>4. QED
            BY <2>1, <2>2, <3>2, <3>3, Zenon
            DEF CInv, Numbering, ResponseMatchesRequest
    <2>4. CASE ~ReplyFree(to_client)
        <3>1. InCall /\ enqueued_messages = <<>> /\ to_server = <<>>
              /\ OneReply(to_client, calls)
            BY <2>4 DEF CInv, Pipeline, PipeIdle
        <3>2. ~(cpc = "wait" /\ ready_to_unlock)
            BY <2>4 DEF CInv, Handoff, PipeIdle
        <3>3. CASE Head(to_client) = calls /\ ReplyFree(to_client')
            <4>1. element' = calls /\ ready_to_unlock'
                BY <1>0, <2>1, <3>3 DEF Handle, IsEvent, Q!Offer
            <4>2. PipeIdle'
                BY <2>1, <3>1, <3>3 DEF PipeIdle
            <4>3. QED
                BY <2>1, <2>2, <4>1, <4>2, Zenon
                DEF CInv, Pipeline, Handoff, Numbering, ResponseMatchesRequest
        <3>4. CASE Head(to_client) = Event /\ OneReply(to_client', calls)
            <4>1. UNCHANGED <<element, ready_to_unlock>>
                BY <2>1, <3>4 DEF Handle, IsEvent, queue_vars
            <4>2. QED
                BY <2>1, <2>2, <3>1, <3>2, <3>4, <4>1, Zenon
                DEF CInv, Pipeline, Handoff, Numbering, ResponseMatchesRequest,
                    InCall
        <3>5. QED
            BY <1>0, <2>1, <3>1, <3>3, <3>4, TailInbound
    <2>5. QED
        BY <2>3, <2>4
<1>10. CASE ServerNotify
    <2>1. /\ to_client' = Append(to_client, Event)
          /\ UNCHANGED <<enqueued_messages, to_server, element,
                         ready_to_unlock, cpc, calls, results>>
        BY <1>10 DEF ServerNotify, queue_vars, user
    <2>2. /\ to_client' \in Seq(Messages)
          /\ ReplyFree(to_client) => ReplyFree(to_client')
          /\ OneReply(to_client, calls) => OneReply(to_client', calls)
        BY <1>0, <2>1, AppendInbound, AppendProperties DEF Messages
    <2>3. QED
        BY <2>1, <2>2, Zenon
        DEF CInv, Pipeline, Handoff, PipeIdle, InCall, Numbering,
            ResponseMatchesRequest
<1>11. CASE /\ \/ WS!WatchdogStart \/ WS!WatchdogCheck \/ WS!WatchdogConnect
               \/ WS!ServiceReturn \/ WS!OnEstablished \/ WS!OnConnectionError
               \/ WS!OnClosed
            /\ UNCHANGED <<queue_vars, events, user>>
    BY <1>11, QuietStep
    DEF WS!WatchdogStart, WS!WatchdogCheck, WS!WatchdogConnect,
        WS!ServiceReturn, WS!OnEstablished, WS!OnConnectionError, WS!OnClosed,
        WS!transport, WS!history, queue_vars, user
<1>12. CASE (WS!WatchdogExit \/ WS!LinkDrop) /\ UNCHANGED <<queue_vars, events, user>>
    <2>1. /\ to_server' = <<>> /\ to_client' = <<>>
          /\ UNCHANGED <<enqueued_messages, element, ready_to_unlock, cpc,
                         calls, results>>
        BY <1>12 DEF WS!WatchdogExit, WS!LinkDrop, WS!session, queue_vars, user
    <2>2. ReplyFree(to_client') /\ to_client' \in Seq(Messages)
        BY <2>1 DEF ReplyFree
    <2>3. enqueued_messages = <<>> \/ (enqueued_messages = <<calls>> /\ InCall)
        BY Zenon DEF CInv, Pipeline, PipeIdle
    <2>4. Pipeline'
        BY <2>1, <2>2, <2>3, Zenon DEF Pipeline, PipeIdle, InCall
    <2>5. Handoff'
        BY <2>1, <2>2, Zenon DEF CInv, Handoff, PipeIdle
    <2>6. QED
        BY <2>1, <2>2, <2>4, <2>5, Zenon DEF CInv, Numbering, ResponseMatchesRequest
<1>13. CASE WS!OnWriteable /\ UNCHANGED <<queue_vars, events, user>>
    <2>1. UNCHANGED <<to_client, element, ready_to_unlock, cpc, calls, results>>
        BY <1>13 DEF WS!OnWriteable, queue_vars, user
    <2>2. CASE enqueued_messages # <<>>
        <3>1. enqueued_messages = <<calls>> /\ to_server = <<>> /\ InCall
              /\ ReplyFree(to_client)
            BY <2>2, Zenon DEF CInv, Pipeline, PipeIdle
        <3>2. /\ enqueued_messages' = <<>>
              /\ to_server' = <<calls>> \/ to_server' = <<>>
            <4>1. /\ enqueued_messages' = Tail(enqueued_messages)
                  /\ \/ to_server' = Append(to_server, Head(enqueued_messages))
                     \/ to_server' = to_server
                BY <1>13, <2>2, Zenon
                DEF WS!OnWriteable, WS!WriteMessageToWebSocket
            <4>2. Tail(<<calls>>) = <<>> /\ Head(<<calls>>) = calls
                  /\ Append(<<>>, calls) = <<calls>>
                OBVIOUS
            <4>3. QED
                BY <3>1, <4>1, <4>2
        <3>3. ~(cpc = "wait" /\ ready_to_unlock)
            BY <2>2 DEF CInv, Handoff, PipeIdle
        <3>4. QED
            BY <1>0, <2>1, <3>1, <3>2, <3>3, Zenon
            DEF CInv, Pipeline, Handoff, PipeIdle, InCall, Numbering,
                ResponseMatchesRequest
    <2>3. CASE enqueued_messages = <<>>
        <3>1. UNCHANGED <<enqueued_messages, to_server>>
            BY <1>13, <2>3 DEF WS!OnWriteable
        <3>2. QED
            BY <2>1, <3>1, QuietStep DEF CInv
    <2>4. QED
        BY <2>2, <2>3
<1>14. CASE WS!ServerReply /\ UNCHANGED <<queue_vars, events, user>>
    <2>1. /\ to_server # <<>> /\ to_server' = Tail(to_server)
          /\ to_client' = Append(to_client, Head(to_server))
          /\ UNCHANGED <<enqueued_messages, element, ready_to_unlock, cpc,
                         calls, results>>
        BY <1>14 DEF WS!ServerReply, WS!session, queue_vars, user
    <2>2. /\ to_server = <<calls>> /\ enqueued_messages = <<>> /\ InCall
          /\ ReplyFree(to_client)
        BY <2>1, Zenon DEF CInv, Pipeline, PipeIdle
    <2>3. /\ to_server' = <<>> /\ to_client' = Append(to_client, calls)
          /\ calls \in Messages
        BY <1>0, <2>1, <2>2, HeadTailProperties DEF Numbering, CInv, InCall,
                                                  Messages, Requests
    <2>4. OneReply(to_client', calls) /\ to_client' \in Seq(Messages)
        BY <1>0, <2>2, <2>3, AppendInbound, AppendProperties
    <2>5. ~(cpc = "wait" /\ ready_to_unlock)
        BY <2>1 DEF CInv, Handoff, PipeIdle
    <2>6. QED
        BY <2>1, <2>2, <2>3, <2>4, <2>5, Zenon
        DEF CInv, Pipeline, Handoff, InCall, Numbering, ResponseMatchesRequest
<1>15. CASE Closed \/ Crashed \/ UNCHANGED vars
    BY <1>15, QuietStep DEF Closed, Crashed, WS!Destroyed, WS!vars, WS!session,
                             WS!transport, WS!history, vars, session_vars,
                             queue_vars, user
<1>16. QED
    BY <1>1, <1>2, <1>3, <1>4, <1>5, <1>6, <1>7, <1>8, <1>9, <1>10, <1>11,
       <1>12, <1>13, <1>14, <1>15, <1>17, <1>18
    DEF Next, User, SessionStep, WS!Environment

LEMMA InitCInv == Init => CInv
<1> SUFFICES ASSUME Init PROVE CInv
    OBVIOUS
<1>1. /\ enqueued_messages = <<>> /\ to_server = <<>> /\ to_client = <<>>
      /\ cpc = "install" /\ calls = 0 /\ results = <<>>
    BY DEF Init, WS!Init
<1>2. ReplyFree(to_client) /\ to_client \in Seq(Messages)
    BY <1>1 DEF ReplyFree
<1>3. QED
    BY <1>1, <1>2, ClientAssumption, EmptySeq
    DEF CInv, Pipeline, PipeIdle, Handoff, Numbering, ResponseMatchesRequest

\* Correlation: for every bound on calls and events, every
\* SendSynchronousRequest of the client returns the empty string or the
\* reply to its own request, never a reply left over from an earlier call
\* (the reset at the head of SynchronousBlockingQueue::Take discards it).
THEOREM Correlation == Spec => []ResponseMatchesRequest
<1>1. CInv => ResponseMatchesRequest
    BY DEF CInv
<1>2. QED
    BY InitCInv, CInvStep, <1>1, PTL DEF Spec

\* While the caller waits with the flag set, no step changes element_.
LEMMA SlotStep ==
    CInv /\ [Next]_vars
        => [cpc = "wait" /\ ready_to_unlock => UNCHANGED element]_vars
<1> SUFFICES ASSUME CInv, [Next]_vars, cpc = "wait", ready_to_unlock
             PROVE  element' = element
    OBVIOUS
<1>1. PipeIdle
    BY DEF CInv, Handoff
<1>2. CASE ReceiveMessage
    <2>1. to_client # <<>> /\ Handle(Head(to_client))
        BY <1>2 DEF ReceiveMessage, WS!OnReceive
    <2>2. Head(to_client) = Event
        BY <1>1, <2>1, ClientAssumption, TailInbound DEF CInv, PipeIdle
    <2>3. QED
        BY <2>1, <2>2 DEF Handle, IsEvent, queue_vars
<1>3. CASE ~ReceiveMessage
    BY <1>3, Zenon
    DEF Next, User, InstallHandler, OpenConnected, CallBegin, CallSend,
        CallTake, CallReturn, CloseBegin, CloseDrained, CloseJoined,
        ReceiveUnhandled, ServerNotify, SessionStep, Closed, Crashed,
        Q!TakeReset, queue_vars, vars
<1>4. QED
    BY <1>2, <1>3

\* One slot kept: for every bound, while SendSynchronousRequest waits in
\* Take with its reply offered, neither an event nor another reply passed
\* to the incoming message handler on the watchdog thread replaces it.
THEOREM SlotKept == Spec => ReplyNotOverwritten
<1>1. Spec => []CInv
    BY InitCInv, CInvStep, PTL DEF Spec
<1>2. QED
    BY <1>1, SlotStep, PTL DEF Spec, ReplyNotOverwritten

\* No step but WatchdogStart puts the watchdog back at its first statement,
\* and none sets watchdog_thread_running_ but WatchdogStart.
LEMMA StartStep == StartInv /\ [Next]_vars => StartInv'
<1> SUFFICES ASSUME StartInv, [Next]_vars PROVE StartInv'
    OBVIOUS
<1>1. CASE WS!WatchdogStart /\ UNCHANGED <<queue_vars, events, user>>
    BY <1>1 DEF WS!WatchdogStart, StartInv, StopNotUndone
<1>2. CASE OpenConnected
    BY <1>2 DEF OpenConnected, StartInv, StopNotUndone, session_vars,
                WS!CONNECTED, WS!DISCONNECTED
<1>3. CASE CloseDrained
    BY <1>3 DEF CloseDrained, WS!DestroyStop, StartInv, StopNotUndone
<1>4. CASE CloseJoined
    BY <1>4 DEF CloseJoined, WS!DestroyJoin, StartInv, StopNotUndone
<1>5. CASE CallBegin \/ CallSend \/ CallTake \/ CallReturn \/ CloseBegin
    BY <1>5 DEF CallBegin, CallSend, CallTake, CallReturn, CloseBegin,
                WS!SendAsync, WS!WriteMessageToWebSocket, StartInv,
                StopNotUndone, session_vars
<1>6. CASE \/ InstallHandler \/ ReceiveMessage \/ ReceiveUnhandled
           \/ ServerNotify \/ Closed \/ Crashed \/ UNCHANGED vars
    BY <1>6 DEF InstallHandler, ReceiveMessage, ReceiveUnhandled,
                WS!OnReceive, WS!session, ServerNotify, Closed, Crashed, WS!Destroyed, WS!vars, vars, session_vars, user,
                StartInv, StopNotUndone
<1>7. CASE /\ \/ WS!WatchdogCheck \/ WS!WatchdogExit \/ WS!WatchdogConnect
               \/ WS!ServiceReturn \/ WS!OnEstablished \/ WS!OnConnectionError
               \/ WS!OnClosed \/ WS!OnWriteable \/ WS!ServerReply
               \/ WS!LinkDrop
           /\ UNCHANGED <<queue_vars, events, user>>
    BY <1>7 DEF WS!WatchdogCheck, WS!WatchdogExit, WS!WatchdogConnect,
                WS!ServiceReturn, WS!OnEstablished, WS!OnConnectionError,
                WS!OnClosed, WS!OnWriteable, WS!WriteMessageToWebSocket,
                WS!ServerReply, WS!LinkDrop, WS!session, WS!DISCONNECTED,
                WS!CONNECTING, WS!CONNECTED, user, StartInv, StopNotUndone
<1>8. QED
    BY <1>1, <1>2, <1>3, <1>4, <1>5, <1>6, <1>7
    DEF Next, User, SessionStep, WS!Environment

\* The stop sticks: for every bound, once ~WebSocket (run by
\* CloseWebSocket) has cleared watchdog_thread_running_, the watchdog
\* thread never sets it again, because OpenWebSocket returned only after
\* the thread had started and connected.
THEOREM StopSticks == Spec => []StopNotUndone
<1>1. Init => StartInv
    BY DEF Init, WS!Init, StartInv, StopNotUndone
<1>2. StartInv => StopNotUndone
    BY DEF StartInv
<1>3. QED
    BY <1>1, <1>2, StartStep, PTL DEF Spec

\* Every step of the client is a step of SynchronousCall, or leaves the
\* number of calls, whether one is in progress, and the results alone.
LEMMA CallStepMaps == CInv /\ [Next]_vars => [Calls!CallNext]_Calls!call_vars
<1> SUFFICES ASSUME CInv, [Next]_vars
             PROVE  [Calls!CallNext]_Calls!call_vars
    OBVIOUS
<1>1. CASE CallBegin
    <2>1. /\ cpc = "idle" /\ calls < MaxCalls /\ calls' = calls + 1
        BY <1>1 DEF CallBegin
    <2>2. CASE WS!GetConnectState # WS!CONNECTED
        <3>1. results' = Append(results, Empty) /\ cpc' = "idle"
            BY <1>1, <2>2 DEF CallBegin
        <3>2. Calls!FailFast
            BY <2>1, <3>1 DEF Calls!FailFast
        <3>3. QED
            BY <3>2 DEF Calls!CallNext
    <2>3. CASE ~(WS!GetConnectState # WS!CONNECTED)
        <3>1. UNCHANGED results /\ cpc' = "send"
            BY <1>1, <2>3 DEF CallBegin
        <3>2. Calls!Issue
            BY <2>1, <3>1 DEF Calls!Issue
        <3>3. QED
            BY <3>2 DEF Calls!CallNext
    <2>4. QED
        BY <2>2, <2>3
<1>2. CASE CallReturn
    <2>1. /\ cpc = "wait" /\ cpc' = "idle" /\ ready_to_unlock
          /\ results' = Append(results, element) /\ UNCHANGED calls
        BY <1>2 DEF CallReturn, Q!TakeReady
    <2>2. element = calls
        BY <2>1 DEF CInv, Handoff
    <2>3. Calls!Answer
        BY <2>1, <2>2 DEF Calls!Answer
    <2>4. QED
        BY <2>3 DEF Calls!CallNext
<1>3. CASE \/ InstallHandler \/ OpenConnected \/ CallSend \/ CallTake
           \/ CloseBegin \/ CloseDrained \/ CloseJoined \/ ReceiveUnhandled
    <2>1. /\ UNCHANGED <<calls, results>>
          /\ (cpc \in {"send", "take", "wait"}) = (cpc' \in {"send", "take", "wait"})
        BY <1>3 DEF InstallHandler, ReceiveUnhandled, OpenConnected, CallSend, CallTake, CloseBegin,
                    CloseDrained, CloseJoined
    <2>2. QED
        BY <2>1 DEF Calls!call_vars
<1>4. CASE ReceiveMessage \/ ServerNotify \/ SessionStep \/ Closed
           \/ Crashed \/ UNCHANGED vars
    <2>1. UNCHANGED <<calls, results, cpc>>
        BY <1>4 DEF ReceiveMessage, ServerNotify, SessionStep, Closed, Crashed, vars,
                    user
    <2>2. QED
        BY <2>1 DEF Calls!call_vars
<1>5. QED
    BY <1>1, <1>2, <1>3, <1>4 DEF Next, User

\* Refinement: for every bound on calls and events, the client implements
\* SynchronousCall under the mapping calls, "the user thread is inside
\* SendSynchronousRequest past its state check", results.
THEOREM ClientRefinement == Spec => ImplementsSynchronousCall
<1>1. Init => Calls!CallInit
    BY DEF Init, Calls!CallInit
<1>2. QED
    BY <1>1, InitCInv, CInvStep, CallStepMaps, PTL
    DEF Spec, ImplementsSynchronousCall, Calls!CallSpec
=============================================================================
