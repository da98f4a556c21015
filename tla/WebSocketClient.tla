--------------------------- MODULE WebSocketClient ---------------------------
(***************************************************************************)
(* WebSocketClient (src/src/WebSocketClient.cpp) composed with the         *)
(* WebSocket session and its SynchronousBlockingQueue.  One user thread    *)
(* opens the client, makes synchronous calls with SendSynchronousRequest   *)
(* and closes it; the watchdog thread of the session runs concurrently.    *)
(* Call number i sends request i and the server's reply to it carries i,  *)
(* as the id of a JSON-RPC response does.  The server may also push event  *)
(* notifications.  The incoming message handler is implemented outside     *)
(* this repository; as the spec (6) describes it, it uses                  *)
(* JsonRpcClient::IsEvent to tell notifications from responses and offers  *)
(* only responses to the queue.                                            *)
(***************************************************************************)
EXTENDS Naturals, Sequences

CONSTANTS
    MaxCalls,   \* bound on the number of SendSynchronousRequest calls
    MaxEvents,  \* bound on the number of event notifications
    Empty,      \* the empty std::string
    Event       \* an event notification (a message with a "method")

ASSUME ClientAssumption ==
    /\ MaxCalls \in Nat \ {0}
    /\ MaxEvents \in Nat
    /\ Empty \notin Nat
    /\ Event \notin Nat
    /\ Event # Empty

Requests == 1..MaxCalls
Messages == Requests \cup {Event}

VARIABLES
    connection_state, writable, handle, contexts, enqueued_messages,
    watchdog_thread_running, wd, owner,
    link, want_writable, to_server, to_client, written, sent,
    element, ready_to_unlock,
    events,     \* number of notifications the server has pushed
    cpc,        \* program counter of the user thread
    calls,      \* number of SendSynchronousRequest calls begun
    results     \* results[i] is what call i returned

WS == INSTANCE WebSocket WITH Msgs <- Messages, MaxSends <- MaxCalls
Q == INSTANCE SynchronousBlockingQueue WITH Elements <- Messages

session_vars == <<connection_state, writable, handle, contexts, enqueued_messages,
                  watchdog_thread_running, wd, owner, link, want_writable,
                  to_server, to_client, written, sent>>
queue_vars == <<element, ready_to_unlock>>
user == <<cpc, calls, results>>
vars == <<session_vars, queue_vars, events, user>>

UserPcs == {"install", "open", "idle", "send", "take", "wait", "closing",
            "joining", "closed", "crashed"}

\* A segmentation fault ends every thread of the process.
Alive == cpc # "crashed"

\* incoming_message_handler_ is no longer NULL.
HandlerSet == cpc \notin {"install", "crashed"}

\* OpenWebSocket, first statement: new WebSocket; its constructor has
\* already started the watchdog thread.
Init ==
    /\ WS!Init
    /\ Q!QueueInit
    /\ events = 0
    /\ cpc = "install"
    /\ calls = 0
    /\ results = <<>>

\* SetIncomingMessageHandler: stores the handler and hands it the queue
\* (an unlocked write; the watchdog reads the pointer under the mutex).
InstallHandler ==
    /\ cpc = "install"
    /\ cpc' = "open"
    /\ UNCHANGED <<session_vars, queue_vars, events, calls, results>>

\* Mutant: OpenWebSocket returns without waiting for CONNECTED.
OpenConnected_NoWait ==
    /\ cpc = "open"
    /\ cpc' = "idle"
    /\ UNCHANGED <<session_vars, queue_vars, events, calls, results>>

\* OpenWebSocket: the polling loop ends once the state reads CONNECTED.
OpenConnected ==
    /\ cpc = "open"
    /\ WS!GetConnectState = WS!CONNECTED
    /\ cpc' = "idle"
    /\ UNCHANGED <<session_vars, queue_vars, events, calls, results>>

\* SendSynchronousRequest entry: an unlocked read of the state; if it is
\* not CONNECTED the call returns the empty string at once.
CallBegin ==
    /\ cpc = "idle"
    /\ calls < MaxCalls
    /\ calls' = calls + 1
    /\ IF WS!GetConnectState # WS!CONNECTED
       THEN /\ results' = Append(results, Empty)
            /\ UNCHANGED cpc
       ELSE /\ cpc' = "send"
            /\ UNCHANGED results
    /\ UNCHANGED <<session_vars, queue_vars, events>>

\* web_socket_->SendAsync(request)
CallSend ==
    /\ cpc = "send"
    /\ WS!SendAsync(calls)
    /\ cpc' = "take"
    /\ UNCHANGED <<queue_vars, events, calls, results>>

\* Take, first statement: the unlocked reset of ready_to_unlock_.
CallTake ==
    /\ cpc = "take"
    /\ Q!TakeReset
    /\ cpc' = "wait"
    /\ UNCHANGED <<session_vars, events, calls, results>>

\* Mutant: the call returns without waiting for the flag.
CallReturn_NoWait ==
    /\ cpc = "wait"
    /\ results' = Append(results, element)
    /\ cpc' = "idle"
    /\ UNCHANGED <<session_vars, queue_vars, events, calls>>

\* Take returns element_ once the flag is set; so does the call.
CallReturn ==
    /\ cpc = "wait"
    /\ Q!TakeReady
    /\ results' = Append(results, element)
    /\ cpc' = "idle"
    /\ UNCHANGED <<session_vars, queue_vars, events, calls>>

\* ~WebSocketClient -> CloseWebSocket.
CloseBegin ==
    /\ cpc = "idle"
    /\ cpc' = "closing"
    /\ UNCHANGED <<session_vars, queue_vars, events, calls, results>>

\* The drain loop ends once HasEnqueuedMessages reads false; delete
\* web_socket_ runs ~WebSocket up to pthread_join.
CloseDrained ==
    /\ cpc = "closing"
    /\ ~WS!HasEnqueuedMessages
    /\ WS!DestroyStop
    /\ cpc' = "joining"
    /\ UNCHANGED <<queue_vars, events, calls, results>>

CloseJoined ==
    /\ cpc = "joining"
    /\ WS!DestroyJoin
    /\ cpc' = "closed"
    /\ UNCHANGED <<queue_vars, events, calls, results>>

\* JsonRpcClient::IsEvent: a message is an event iff its "method" member is
\* not empty; responses carry none.
IsEvent(message) == message = Event

\* Mutant: a handler that offers every inbound message, events included.
Handle_NoEventFilter(message) ==
    Q!Offer(message)

\* WebSocketMessageHandler::Handle as the spec (4.5, 6) describes the
\* handler of the JSON-RPC layer: events go to the application, responses
\* to the queue.
Handle(message) ==
    IF IsEvent(message)
    THEN UNCHANGED queue_vars
    ELSE Q!Offer(message)

\* LWS_CALLBACK_CLIENT_RECEIVE: the handler is called under the mutex.
ReceiveMessage ==
    /\ HandlerSet
    /\ WS!OnReceive
    /\ Handle(Head(to_client))
    /\ UNCHANGED <<events, user>>

\* LWS_CALLBACK_CLIENT_RECEIVE before SetIncomingMessageHandler has run:
\* GetIncomingMessageHandler() returns NULL and ->Handle dereferences it.
ReceiveUnhandled ==
    /\ cpc = "install"
    /\ WS!OnReceive
    /\ cpc' = "crashed"
    /\ UNCHANGED <<queue_vars, events, calls, results>>

\* Environment: the server pushes a notification on the open connection.
ServerNotify ==
    /\ Alive
    /\ link = "open"
    /\ events < MaxEvents
    /\ events' = events + 1
    /\ to_client' = Append(to_client, Event)
    /\ UNCHANGED <<connection_state, writable, handle, contexts,
                   enqueued_messages, watchdog_thread_running, wd, owner, link,
                   want_writable, to_server, written, sent, queue_vars, user>>

\* The rest of the watchdog thread and the environment.
SessionStep ==
    /\ Alive
    /\ \/ WS!WatchdogStart \/ WS!WatchdogCheck \/ WS!WatchdogExit
       \/ WS!WatchdogConnect \/ WS!ServiceReturn
       \/ WS!OnEstablished \/ WS!OnConnectionError \/ WS!OnClosed
       \/ WS!OnWriteable
       \/ WS!Environment
    /\ UNCHANGED <<queue_vars, events, user>>

Closed ==
    /\ cpc = "closed"
    /\ WS!Destroyed
    /\ UNCHANGED <<queue_vars, events, user>>

Crashed ==
    /\ cpc = "crashed"
    /\ UNCHANGED vars

User ==
    \/ InstallHandler \/ OpenConnected \/ CallBegin \/ CallSend \/ CallTake \/ CallReturn
    \/ CloseBegin \/ CloseDrained \/ CloseJoined

Next ==
    \/ User \/ ReceiveMessage \/ ReceiveUnhandled \/ ServerNotify
    \/ SessionStep \/ Closed \/ Crashed

Spec == Init /\ [][Next]_vars

\* The fairness of the session (WebSocket!Fairness), with the receive
\* callback taking the handler with it, and the user thread scheduled once
\* it has begun an operation: the polling loop of OpenWebSocket reads the
\* state every 100 ms, so it sees a state that is CONNECTED again and again
\* (strong fairness); the other blocking points stay enabled until taken.
\* CallBegin and CloseBegin are the user's choice.
Fairness ==
    /\ WF_session_vars(Alive /\ WS!WatchdogStart)
    /\ WF_session_vars(Alive /\ WS!WatchdogCheck)
    /\ WF_session_vars(Alive /\ WS!WatchdogExit)
    /\ WF_session_vars(Alive /\ WS!WatchdogConnect)
    /\ WF_session_vars(Alive /\ WS!ServiceReturn)
    /\ SF_session_vars(Alive /\ (WS!OnEstablished \/ WS!OnConnectionError))
    /\ SF_session_vars(Alive /\ WS!OnClosed)
    /\ SF_vars(ReceiveMessage \/ ReceiveUnhandled)
    /\ SF_session_vars(Alive /\ WS!OnWriteable)
    /\ WF_vars(InstallHandler) /\ SF_vars(OpenConnected)
    /\ WF_vars(CallSend) /\ WF_vars(CallTake) /\ WF_vars(CallReturn)
    /\ WF_vars(CloseDrained) /\ WF_vars(CloseJoined)

FairSpec == Spec /\ Fairness

-----------------------------------------------------------------------------
TypeOK ==
    /\ WS!TypeOK
    /\ Q!QueueTypeOK
    /\ events \in 0..MaxEvents
    /\ cpc \in UserPcs
    /\ calls \in 0..MaxCalls
    /\ results \in Seq(Messages \cup {Empty})

\* Correlation (spec 6: "request/response correlation at this layer is
\* purely positional"): every SendSynchronousRequest returns either the
\* empty string or the reply to its own request, never the reply left in
\* the queue by an earlier call.
ResponseMatchesRequest ==
    \A i \in DOMAIN results : results[i] \in {Empty, i}

\* A reply Take has been woken for is never replaced before Take returns
\* it: while the caller waits with ready_to_unlock_ set, no offer of the
\* incoming message handler (run on the watchdog thread) overwrites the
\* one slot element_.  Only the event filter of Handle and the one request
\* in flight keep a later message out of it.
ReplyNotOverwritten ==
    [][cpc = "wait" /\ ready_to_unlock => UNCHANGED element]_vars

\* Where the request of the current call is: one user thread makes one
\* synchronous call at a time, so at most one request or its reply is in
\* the session's queue, on the way to the server or on the way back, and
\* only while the call waits for it.  Events may be anywhere inbound.
ReplyFree(s) == \A k \in DOMAIN s : s[k] = Event
OneReply(s, id) ==
    \E k \in DOMAIN s : s[k] = id /\ \A j \in DOMAIN s \ {k} : s[j] = Event
InCall == cpc \in {"take", "wait"}
PipeIdle ==
    enqueued_messages = <<>> /\ to_server = <<>> /\ ReplyFree(to_client)
Pipeline ==
    \/ PipeIdle
    \/ /\ InCall /\ ReplyFree(to_client)
       /\ \/ enqueued_messages = <<calls>> /\ to_server = <<>>
          \/ enqueued_messages = <<>> /\ to_server = <<calls>>
    \/ InCall /\ enqueued_messages = <<>> /\ to_server = <<>> /\ OneReply(to_client, calls)

\* The flag Take waits on is set only by the offer of the current reply.
Handoff ==
    cpc = "wait" /\ ready_to_unlock => element = calls /\ PipeIdle

\* Call i is the i-th result; a call in progress has not returned yet.
Numbering ==
    /\ calls \in 0..MaxCalls
    /\ results \in Seq(Messages \cup {Empty})
    /\ Len(results) = IF cpc \in {"send", "take", "wait"} THEN calls - 1 ELSE calls

\* The inductive invariant behind ResponseMatchesRequest
\* (see WebSocketClient_proofs).
CInv ==
    /\ to_client \in Seq(Messages)
    /\ Pipeline /\ Handoff /\ Numbering
    /\ ResponseMatchesRequest

\* The client as its caller sees it: SendSynchronousRequest fails fast or
\* issues one request, and the call in progress is the one begun last.
Calls == INSTANCE SynchronousCall
    WITH Failed <- Empty, Limit <- MaxCalls, count <- calls,
         pending <- (cpc \in {"send", "take", "wait"}), returned <- results

\* Refinement: every behaviour of the user thread's SendSynchronousRequest,
\* the session, the server and the blocking queue is a behaviour of
\* SynchronousCall: one call at a time, each returning the empty result
\* or the answer to its own request, in the order the calls were made.
ImplementsSynchronousCall == Calls!CallSpec

\* The stop of ~WebSocket sticks: once the destructor has run
\* StopWatchDogThread, watchdog_thread_running_ stays false, so the loop of
\* RunWatchdog ends and pthread_join can return.  In the session alone a
\* late SetWatchDogThreadStarted undoes the stop (WebSocket.cpp:100);
\* OpenWebSocket's wait for CONNECTED rules that out here.
StopNotUndone ==
    owner # "live" => ~watchdog_thread_running

\* Inductive form: the watchdog thread is still at its first statement
\* only while nothing has connected and the user is still in OpenWebSocket.
StartInv ==
    /\ StopNotUndone
    /\ wd = "start" => /\ connection_state = WS!DISCONNECTED
                       /\ cpc \in {"install", "open"} /\ owner = "live"

\* ~WebSocketClient returns once it has deleted the session: the join of
\* the watchdog thread ends.  OpenWebSocket's wait for CONNECTED is what
\* keeps the destructor from racing the thread's SetWatchDogThreadStarted.
CloseReturns ==
    cpc = "joining" ~> cpc = "closed"

\* The drain loop of CloseWebSocket ends: with one synchronous user, no
\* request is left in the session's queue once its call has returned, so
\* HasEnqueuedMessages reads false even when the server stays unreachable.
CloseDrainEnds ==
    cpc = "closing" ~> cpc = "joining"

\* The watchdog dispatches LWS_CALLBACK_CLIENT_RECEIVE only to an installed
\* handler: OpenWebSocket's SetIncomingMessageHandler, one statement after
\* the constructor started the thread, must come before the first inbound
\* message, which the server may push as soon as the link is open.
ReceiveAfterInstall ==
    [][WS!OnReceive => HandlerSet]_vars

\* The end-to-end scenario of spec 8: once the reply to the pending call
\* has been offered, Take must return it.  The state excluded here is the
\* caller blocked in Take with its reply already consumed by the reset.
NoLostResponse ==
    ~ (cpc = "wait" /\ ~ready_to_unlock /\ element = calls)
=============================================================================
