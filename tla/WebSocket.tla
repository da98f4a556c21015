----------------------------- MODULE WebSocket -----------------------------
(***************************************************************************)
(* The WebSocket session of src/src/WebSocket.cpp: connection state,       *)
(* writable flag, LWS handle, FIFO of enqueued outbound messages, the      *)
(* watchdog thread (RunWatchdog) that reconnects and drives lws_service,   *)
(* the LWS event callback (OnWebSocketEvent) run on that thread, SendAsync *)
(* called by a user thread, and the destructor.                            *)
(*                                                                         *)
(* The LWS library and the server are the environment: `link` is the       *)
(* status of the wsi of the current LWS context, `want_writable` the       *)
(* pending lws_callback_on_writable request on it, and to_server /         *)
(* to_client the messages in flight on it.  A dropped link loses them.     *)
(* `written` logs every lws_write call and `sent` every SendAsync call:    *)
(* both are history variables read only by properties.                     *)
(***************************************************************************)
EXTENDS Naturals, Sequences

CONSTANTS
    Msgs,       \* payloads handed to SendAsync (model values)
    MaxSends    \* bound on the number of SendAsync calls

ASSUME ConstAssumption ==
    /\ Msgs # {}
    /\ MaxSends \in Nat

\* WebSocketConnectState (WebSocket.h:19-23)
DISCONNECTED == "DISCONNECTED"
CONNECTING   == "CONNECTING"
CONNECTED    == "CONNECTED"
ConnectStates == {DISCONNECTED, CONNECTING, CONNECTED}

\* handle_ is NULL, the wsi of the current context, or the wsi of a
\* context that has since been replaced (handle_ is never reset).
HandleValues == {"null", "current", "stale"}
\* How many lws contexts are alive: none, exactly one, or two and more.
ContextCounts == {"none", "one", "several"}
LinkStates == {"none", "connecting", "open", "dropped", "closed"}
WatchdogPcs == {"start", "check", "service", "connect", "done"}
OwnerPcs == {"live", "joining", "destroyed"}

VARIABLES
    connection_state,          \* connection_state_
    writable,                  \* writable_
    handle,                    \* handle_
    contexts,                  \* lws contexts created and not destroyed
    enqueued_messages,         \* enqueued_messages_
    watchdog_thread_running,   \* watchdog_thread_running_
    wd,                        \* program counter of the watchdog thread
    owner,                     \* progress of the destructor ~WebSocket
    link, want_writable, to_server, to_client,   \* LWS and the server
    written, sent              \* history: lws_write calls, SendAsync calls

session == <<connection_state, writable, handle, contexts, enqueued_messages,
             watchdog_thread_running, wd, owner>>
transport == <<link, want_writable, to_server, to_client>>
history == <<written, sent>>
vars == <<session, transport, history>>

-----------------------------------------------------------------------------
\* WebSocket::WebSocket: all members zeroed, watchdog thread created.
Init ==
    /\ connection_state = DISCONNECTED
    /\ writable = FALSE
    /\ handle = "null"
    /\ contexts = "none"
    /\ enqueued_messages = <<>>
    /\ watchdog_thread_running = FALSE
    /\ wd = "start"
    /\ owner = "live"
    /\ link = "none"
    /\ want_writable = FALSE
    /\ to_server = <<>>
    /\ to_client = <<>>
    /\ written = <<>>
    /\ sent = <<>>

\* The accessors of the queue and of the watchdog flag, each called with
\* the session mutex held except where the caller says otherwise.
EnqueueMessage(m) == enqueued_messages' = Append(enqueued_messages, m)
HasEnqueuedMessages == enqueued_messages # <<>>
RemoveOldestEnqueuedMessage == enqueued_messages' = Tail(enqueued_messages)
SetWatchDogThreadStarted == watchdog_thread_running' = TRUE
StopWatchDogThread == watchdog_thread_running' = FALSE
IsWatchDogThreadRunning == watchdog_thread_running
SetConnectState(state) == connection_state' = state
GetConnectState == connection_state
SetWritable(w) == writable' = w
IsWritable == writable
SetHandle(h) == handle' = h
\* SetContext overwrites context_: the context it held, if any, stays alive.
SetContext == contexts' = IF contexts = "none" THEN "one" ELSE "several"

\* Mutant: the write without the lws_callback_on_writable request.
WriteMessageToWebSocket_NoWritableRequest(m) ==
    /\ written' = Append(written, m)
    /\ writable' = FALSE
    /\ IF handle = "current" /\ link = "open"
       THEN /\ to_server' = Append(to_server, m)
            /\ UNCHANGED want_writable
       ELSE UNCHANGED <<to_server, want_writable>>

\* WriteMessageToWebSocket: lws_write on handle_, writable_ = 0, then
\* lws_callback_on_writable(handle_).  Only the open wsi of the current
\* context carries the message and the writable request; a write on a stale
\* or closing wsi is lost.
WriteMessageToWebSocket(m) ==
    /\ written' = Append(written, m)
    /\ writable' = FALSE
    /\ IF handle = "current" /\ link = "open"
       THEN /\ to_server' = Append(to_server, m)
            /\ want_writable' = TRUE
       ELSE UNCHANGED <<to_server, want_writable>>

\* SendAsync, under the session mutex: write now if writable, else enqueue.
SendAsync(m) ==
    /\ owner = "live"
    /\ sent' = Append(sent, m)
    /\ IF IsWritable
       THEN /\ WriteMessageToWebSocket(m)
            /\ UNCHANGED enqueued_messages
       ELSE /\ EnqueueMessage(m)
            /\ UNCHANGED <<writable, to_server, want_writable, written>>
    /\ UNCHANGED <<contexts, connection_state, handle, watchdog_thread_running, wd,
                   owner, link, to_client>>

\* ~WebSocket up to pthread_join: clear the queue (without the mutex) and
\* StopWatchDogThread.
DestroyStop ==
    /\ owner = "live"
    /\ owner' = "joining"
    /\ enqueued_messages' = <<>>
    /\ StopWatchDogThread
    /\ UNCHANGED <<contexts, connection_state, writable, handle, wd, transport, history>>

\* ~WebSocket: pthread_join returns once the watchdog has exited.
DestroyJoin ==
    /\ owner = "joining"
    /\ wd = "done"
    /\ owner' = "destroyed"
    /\ UNCHANGED <<contexts, connection_state, writable, handle, enqueued_messages,
                   watchdog_thread_running, wd, transport, history>>

-----------------------------------------------------------------------------
(* The watchdog thread, RunWatchdog.                                       *)

\* SetWatchDogThreadStarted, the first statement of the thread.
WatchdogStart ==
    /\ wd = "start"
    /\ SetWatchDogThreadStarted
    /\ wd' = "check"
    /\ UNCHANGED <<contexts, connection_state, writable, handle, enqueued_messages,
                   owner, transport, history>>

\* The loop test and the branch on the connection state.
WatchdogCheck ==
    /\ wd = "check"
    /\ IsWatchDogThreadRunning
    /\ wd' = IF GetConnectState # DISCONNECTED THEN "service" ELSE "connect"
    /\ UNCHANGED <<contexts, connection_state, writable, handle, enqueued_messages,
                   watchdog_thread_running, owner, transport, history>>

\* Loop exit: lws_cancel_service, and lws_context_destroy of context_ if
\* it is not NULL, which closes its wsi.  Only the current context is
\* destroyed: of two and more, one and more are left.
WatchdogExit ==
    /\ wd = "check"
    /\ ~IsWatchDogThreadRunning
    /\ wd' = "done"
    /\ contexts' \in CASE contexts = "none"    -> {"none"}
                       [] contexts = "one"     -> {"none"}
                       [] contexts = "several" -> {"one", "several"}
    /\ link' = IF link = "none" THEN "none" ELSE "closed"
    /\ want_writable' = FALSE
    /\ to_server' = <<>>
    /\ to_client' = <<>>
    /\ UNCHANGED <<connection_state, writable, handle, enqueued_messages,
                   watchdog_thread_running, owner, history>>

\* Disconnected branch: lws_create_context makes a fresh context, which
\* replaces context_ without the old one being destroyed (the wsi handle_
\* points to, if any, now belongs to an old context), and
\* lws_client_connect either returns a wsi (CONNECTING) or NULL (state
\* unchanged).
WatchdogConnect ==
    /\ wd = "connect"
    /\ wd' = "check"
    /\ SetContext
    /\ handle' = IF handle = "current" THEN "stale" ELSE handle
    /\ want_writable' = FALSE
    /\ \/ /\ link' = "connecting"
          /\ SetConnectState(CONNECTING)
       \/ /\ link' = "none"
          /\ UNCHANGED connection_state
    /\ UNCHANGED <<writable, enqueued_messages, watchdog_thread_running,
                   owner, to_server, to_client, history>>

\* lws_service returns after its timeout.
ServiceReturn ==
    /\ wd = "service"
    /\ wd' = "check"
    /\ UNCHANGED <<contexts, connection_state, writable, handle, enqueued_messages,
                   watchdog_thread_running, owner, transport, history>>

-----------------------------------------------------------------------------
(* OnWebSocketEvent, called from lws_service on the watchdog thread.       *)

OnEstablished ==
    /\ wd = "service"
    /\ link = "connecting"
    /\ link' = "open"
    /\ SetConnectState(CONNECTED)
    /\ SetHandle("current")
    /\ want_writable' = TRUE
    /\ UNCHANGED <<contexts, writable, enqueued_messages, watchdog_thread_running, wd,
                   owner, to_server, to_client, history>>

OnConnectionError ==
    /\ wd = "service"
    /\ link = "connecting"
    /\ link' = "closed"
    /\ SetConnectState(DISCONNECTED)
    /\ UNCHANGED <<contexts, writable, handle, enqueued_messages,
                   watchdog_thread_running, wd, owner, want_writable,
                   to_server, to_client, history>>

OnClosed ==
    /\ wd = "service"
    /\ link = "dropped"
    /\ link' = "closed"
    /\ SetConnectState(DISCONNECTED)
    /\ UNCHANGED <<contexts, writable, handle, enqueued_messages,
                   watchdog_thread_running, wd, owner, want_writable,
                   to_server, to_client, history>>

\* LWS_CALLBACK_CLIENT_RECEIVE takes the next inbound message; what the
\* incoming message handler does with it is left to the composing module.
OnReceive ==
    /\ wd = "service"
    /\ link = "open"
    /\ to_client # <<>>
    /\ to_client' = Tail(to_client)
    /\ UNCHANGED <<session, link, want_writable, to_server, history>>

\* Mutant: the callback takes the newest enqueued message (back() instead
\* of the first element).
OnWriteable_WritesNewest ==
    /\ wd = "service"
    /\ link = "open"
    /\ want_writable
    /\ IF enqueued_messages # <<>>
       THEN /\ enqueued_messages' =
                 SubSeq(enqueued_messages, 1, Len(enqueued_messages) - 1)
            /\ WriteMessageToWebSocket(
                 enqueued_messages[Len(enqueued_messages)])
       ELSE /\ writable' = TRUE
            /\ want_writable' = FALSE
            /\ UNCHANGED <<enqueued_messages, to_server, written>>
    /\ UNCHANGED <<contexts, connection_state, handle, watchdog_thread_running, wd,
                   owner, link, to_client, sent>>

\* Mutant: no HasEnqueuedMessages test; RemoveOldestEnqueuedMessage on an
\* empty queue returns the empty string, which is then written.
OnWriteable_NoEmptyCheck ==
    /\ wd = "service"
    /\ link = "open"
    /\ want_writable
    /\ IF enqueued_messages # <<>>
       THEN /\ enqueued_messages' = Tail(enqueued_messages)
            /\ WriteMessageToWebSocket(Head(enqueued_messages))
       ELSE /\ WriteMessageToWebSocket("")
            /\ UNCHANGED enqueued_messages
    /\ UNCHANGED <<contexts, connection_state, handle, watchdog_thread_running, wd,
                   owner, link, to_client, sent>>

OnWriteable ==
    /\ wd = "service"
    /\ link = "open"
    /\ want_writable
    /\ IF HasEnqueuedMessages
       THEN /\ RemoveOldestEnqueuedMessage
            /\ WriteMessageToWebSocket(Head(enqueued_messages))
       ELSE /\ SetWritable(TRUE)
            /\ want_writable' = FALSE
            /\ UNCHANGED <<enqueued_messages, to_server, written>>
    /\ UNCHANGED <<contexts, connection_state, handle, watchdog_thread_running, wd,
                   owner, link, to_client, sent>>

-----------------------------------------------------------------------------
(* Environment: the server answers each request in order; the network may *)
(* drop an open connection, losing what is in flight.                      *)

ServerReply ==
    /\ link = "open"
    /\ to_server # <<>>
    /\ to_server' = Tail(to_server)
    /\ to_client' = Append(to_client, Head(to_server))
    /\ UNCHANGED <<session, link, want_writable, history>>

LinkDrop ==
    /\ link = "open"
    /\ link' = "dropped"
    /\ want_writable' = FALSE
    /\ to_server' = <<>>
    /\ to_client' = <<>>
    /\ UNCHANGED <<session, history>>

\* After the destructor has returned nothing happens any more.
Destroyed ==
    /\ owner = "destroyed"
    /\ UNCHANGED vars

Watchdog ==
    \/ WatchdogStart \/ WatchdogCheck \/ WatchdogExit \/ WatchdogConnect
    \/ ServiceReturn
    \/ OnEstablished \/ OnConnectionError \/ OnClosed \/ OnReceive
    \/ OnWriteable

Environment == ServerReply \/ LinkDrop

Next ==
    \/ \E m \in Msgs : Len(sent) < MaxSends /\ SendAsync(m)
    \/ DestroyStop \/ DestroyJoin
    \/ Watchdog
    \/ Environment
    \/ Destroyed

Spec == Init /\ [][Next]_vars

\* The watchdog thread is scheduled: each of its steps that stays enabled is
\* taken.  lws_service dispatches the pending events of the wsi it serves:
\* an event that is pending whenever the thread is in lws_service is
\* dispatched (strong fairness, as the thread leaves lws_service on its
\* timeout).  The outcome of a connect attempt is one pending event.  The
\* destructor's pthread_join returns once the thread has exited.  Nothing
\* is assumed of the server or of the user.
Fairness ==
    /\ WF_vars(WatchdogStart) /\ WF_vars(WatchdogCheck)
    /\ WF_vars(WatchdogExit) /\ WF_vars(WatchdogConnect)
    /\ WF_vars(ServiceReturn)
    /\ SF_vars(OnEstablished \/ OnConnectionError)
    /\ SF_vars(OnClosed) /\ SF_vars(OnReceive) /\ SF_vars(OnWriteable)
    /\ WF_vars(DestroyJoin)

FairSpec == Spec /\ Fairness

-----------------------------------------------------------------------------
TypeOK ==
    /\ connection_state \in ConnectStates
    /\ writable \in BOOLEAN
    /\ handle \in HandleValues
    /\ contexts \in ContextCounts
    /\ enqueued_messages \in Seq(Msgs)
    /\ watchdog_thread_running \in BOOLEAN
    /\ wd \in WatchdogPcs
    /\ owner \in OwnerPcs
    /\ link \in LinkStates
    /\ want_writable \in BOOLEAN
    /\ to_server \in Seq(Msgs)
    /\ to_client \in Seq(Msgs)
    /\ written \in Seq(Msgs)
    /\ sent \in Seq(Msgs)

\* Outbound order (spec 5, "outbound payloads are delivered to the
\* transport in the exact order SendAsync was called"): while the session is
\* alive, the lws_write calls followed by the queue are exactly the
\* SendAsync calls, in order: nothing is reordered, lost or duplicated
\* between SendAsync, EnqueueMessage, RemoveOldestEnqueuedMessage and the
\* writable callback.
FifoDelivery ==
    owner = "live" => written \o enqueued_messages = sent

\* No stall: whenever messages wait in the queue on an open connection, a
\* writable notification is pending on it, so the writable callback will
\* drain the queue (Established and WriteMessageToWebSocket both request
\* one).
QueueNeverStalls ==
    (enqueued_messages # <<>> /\ link = "open") => want_writable

\* writable_ is set only by the writable callback when the queue is empty,
\* and SendAsync enqueues only when it is clear: a writable session has an
\* empty queue.  Part of the inductive invariant of FifoDelivery.
WritableImpliesQueueEmpty ==
    writable => enqueued_messages = <<>>

\* The inductive invariant behind FifoDelivery (see WebSocket_proofs).
IInv == TypeOK /\ WritableImpliesQueueEmpty /\ FifoDelivery

\* Progress of the outbound queue: messages that SendAsync enqueued on an
\* open connection are all written by the writable callback unless the
\* connection goes away first; the chain of lws_callback_on_writable
\* requests from ESTABLISHED and from every WriteMessageToWebSocket must
\* not break.
QueueDrains ==
    (HasEnqueuedMessages /\ link = "open")
        ~> (~HasEnqueuedMessages \/ link # "open")

\* ~WebSocket returns: once the destructor has stopped the watchdog,
\* pthread_join returns.  StopWatchDogThread is undone if the thread has not
\* yet run SetWatchDogThreadStarted.
DestructorReturns ==
    owner = "joining" ~> owner = "destroyed"

\* Resources: once ~WebSocket has returned, no lws context the watchdog
\* created in RunWatchdog's reconnect branch is still alive.
NoContextLeak ==
    owner = "destroyed" => contexts = "none"

\* The data model of the spec (3): "writable is true only when state ==
\* Connected".  The code never clears writable_ on close or error.
WritableOnlyWhenConnected ==
    writable => connection_state = CONNECTED
=============================================================================
