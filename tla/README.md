# TLA+ models of JsonRpcClient

This directory holds the formal models of the C++ JSON-RPC client in `src/`. It contains the TLA+ modules, the TLC configurations that check them, and the TLAPS proofs.

## The system

The client has four layers. Each one uses only the layer below it.

| Layer | Source | What it does |
|---|---|---|
| `WebSocket` | `src/src/WebSocket.cpp`, `WebSocket.h` | Owns one libwebsockets (LWS) connection. Its state is `connection_state_`, `writable_`, `handle_`, `context_`, the outbound FIFO `enqueued_messages_` and `watchdog_thread_running_`. A **watchdog thread** (`RunWatchdog`) reconnects while the state is DISCONNECTED. Otherwise it runs `lws_service`, which calls `OnWebSocketEvent` on that thread. `SendAsync` is called by user threads: it writes now if `writable_`, or else enqueues. `~WebSocket` clears the queue, stops the thread and joins it. |
| `SynchronousBlockingQueue` | `src/src/SynchronousBlockingQueue.cpp` (first 65 lines); its header is the text after line 521 of `WebSocket.cpp` | A one-slot hand-off. `Offer` stores the element and sets `ready_to_unlock_` under the mutex. `Take` resets the flag *without* the mutex, then waits for it. |
| `WebSocketClient` | `src/src/WebSocketClient.cpp` | `OpenWebSocket` polls until CONNECTED. `SendSynchronousRequest` checks the state without the lock, then calls `SendAsync` and `Take`. `CloseWebSocket` polls until the queue is empty, then deletes the session. |
| `JsonRpcClient` | text after line 121 of `src/src/SynchronousBlockingQueue.cpp` | `Call` formats a request with `++id` and sends it synchronously. `RegisterWithEvent` and `UnregisterWithEvent` are `Call` followed by `json::parse`. `IsEvent` tells notifications from responses. |

The incoming message handler (`WebSocketMessageHandler::Handle`) is pure virtual. Its JSON-RPC implementation is not in this repository. It is modelled from the spec: events are recognised by `IsEvent`, and only responses are offered to the queue.

LWS and the server are the environment. The session sees them through `link` (the lifecycle of the connection: none, connecting, open, dropped, closed) and `want_writable` (a pending `lws_callback_on_writable`). Two FIFO channels, `to_server` and `to_client`, hold the messages in flight. The server answers requests in order and may push events. The network may drop an open link, which loses everything in flight.

## Modules

- **`WebSocket.tla`** — the session.
  - Its variables are the members above, plus the watchdog's program counter `wd`, the destructor's progress `owner`, the LWS environment and two history variables. `written` logs every `lws_write` and `sent` logs every `SendAsync`.
  - `contexts` counts the LWS contexts that were created and not destroyed: none, one or several. `SetContext` overwrites `context_` on every reconnect, so the context it held stays alive. The watchdog's exit destroys only the last one.
  - An LWS handle is abstracted to whether `handle_` points to the wsi (connection) of the *current* context or of an older, *stale* one.
  - There is one action per operation:
    - `SendAsync`, which contains `WriteMessageToWebSocket` or `EnqueueMessage`;
    - `DestroyStop` and `DestroyJoin`, the two halves of `~WebSocket` around `pthread_join`;
    - `WatchdogStart`, `WatchdogCheck`, `ServiceReturn`, `WatchdogConnect` and `WatchdogExit`, the steps of `RunWatchdog`;
    - one action per case of `OnWebSocketEvent`: `OnEstablished`, `OnConnectionError`, `OnClosed`, `OnReceive` and `OnWriteable`.
  - The accessor methods are operators used inside those actions, as the code calls them: `HasEnqueuedMessages`, `RemoveOldestEnqueuedMessage`, `SetConnectState`, `GetConnectState`, `SetWritable`, `IsWritable`, `SetHandle`, `SetContext`, and so on.
  - `Fairness` and `FairSpec` give the scheduling that the liveness runs assume (see below).
- **`SynchronousBlockingQueue.tla`** — the state `element` and `ready_to_unlock`.
  - `Offer` is atomic.
  - `Take` is split in two: `TakeReset` (the unlocked reset) and `TakeReady` (the guard of the wait loop).
- **`WebSocketClient.tla`** — composes the session and the queue with one user thread and server events.
  - `Init` is the state just after `new WebSocket` in `OpenWebSocket`: the constructor has started the watchdog thread, and `incoming_message_handler_` is still NULL (`cpc = "install"`). `InstallHandler` is `SetIncomingMessageHandler`.
  - The user thread's other actions are `OpenConnected`, `CallBegin`, `CallSend`, `CallTake`, `CallReturn`, `CloseBegin`, `CloseDrained` and `CloseJoined`. Its state checks read the session through `WS!GetConnectState`.
  - `ReceiveMessage` is the RECEIVE callback with `Handle`, once the handler is set. `ReceiveUnhandled` is the same callback before it is set: `->Handle` dereferences NULL, and the process dies (`cpc = "crashed"`; `Alive` is false, and no thread takes another step).
  - `ServerNotify` pushes an event.
  - Call *i* sends request *i*, and the reply to it carries *i*, as a JSON-RPC response id does.
- **`SynchronousCall.tla`** — the abstract specification of what the client promises its caller (spec 1 and 4.5). `FailFast` is a call that returns the empty result at once. `Issue` sends one request and blocks, and only while no call is pending. `Answer` returns the answer to the call begun last. `WebSocketClient!Calls` instantiates it with `count <- calls`, `pending <- (cpc \in {"send", "take", "wait"})` and `returned <- results`.
- **`JsonRpcClient.tla`** — extends `WebSocketClient` with the application's operations.
  - `RpcBegin(op)` is `Call`: `++id` is the `calls` counter.
  - `RpcEnd` ends the operation. For `RegisterWithEvent` and `UnregisterWithEvent` it includes `json::parse`, which throws on the empty response.
  - `Terminated` is the stop after `std::terminate`.
- **`WebSocket_proofs.tla`**, **`WebSocketQueue_proofs.tla`** — the TLAPS proofs about the session.
- **`WebSocketClient_proofs.tla`**, **`JsonRpcClient_proofs.tla`** — the TLAPS proofs about the composed client, and their transfer to the JSON-RPC application.
- The `MC*` modules instantiate the specifications for TLC.

## Runs

| Run | Config | Expect | Checks |
|---|---|---|---|
| `ws_session` | `MCWebSocket.cfg` | pass | `TypeOK`; `FifoDelivery` (the `lws_write` log followed by the queue equals the `SendAsync` log while the session lives); `QueueNeverStalls` (messages queued on an open link always have a writable request pending) |
| `ws_queue_progress` | `MCWebSocketLive.cfg` | pass | `QueueDrains`: under `FairSpec`, queued messages on an open link are written or the link goes away |
| `ws_writable_after_close` | `MCWebSocketWritable.cfg` | violation | `WritableOnlyWhenConnected`, the spec's session invariant |
| `ws_destructor_hang` | `MCWebSocketJoin.cfg` | violation | `DestructorReturns`: `~WebSocket` returns once it has begun |
| `ws_context_leak` | `MCWebSocketLeak.cfg` | violation | `NoContextLeak`: after the destructor no LWS context is left |
| `rpc_correlation` | `MCJsonRpcClient.cfg` | pass | `ResponseMatchesRequest`: every synchronous call returns "" or the reply to its own request. `ReplyNotOverwritten` (an action property): while the caller waits in `Take` with the flag set, no offer replaces `element_`. `ImplementsSynchronousCall`: the client refines `SynchronousCall` |
| `client_close` | `MCWebSocketClientLive.cfg` | pass | `CloseDrainEnds` (the drain loop of `CloseWebSocket` ends) and `CloseReturns` (`CloseWebSocket` returns once the delete has begun), under `FairSpec`. `StopNotUndone`: once `~WebSocket` has cleared `watchdog_thread_running_`, it stays false |
| `client_lost_wakeup` | `MCWebSocketClientLost.cfg` | violation | `NoLostResponse`: a caller never waits in `Take` once its reply has been consumed |
| `client_handler_install` | `MCWebSocketClientInstall.cfg` | violation | `ReceiveAfterInstall` (an action property): the RECEIVE callback runs only once `SetIncomingMessageHandler` has installed the handler |
| `rpc_parse_empty` | `MCJsonRpcClientThrow.cfg` | violation | `NoUncaughtException` (spec 7: register and unregister return false, they do not throw) |

**Bounds.**
- The session runs use two payload model values and three `SendAsync` calls. That is enough for a direct write followed by two queued messages, so a reordering would show. The safety runs use symmetry on the payloads. The liveness runs do not, because symmetry is unsound for liveness.
- All the runs have unbounded reconnects, drops and destructor timing. Because of that, `contexts` reaches "several" and a destructor can start at any point of the watchdog.
- The client runs use three calls and one event. That is enough for a reply to arrive while the next call is in flight, and for an event to sit between responses. The event can also arrive before the handler is installed, so every client run with an event reaches the crash and goes on checking its properties on the other branches. `client_handler_install` needs only that one event and one call.

**Fairness.**
- The watchdog thread is a real thread in a loop, so each of its steps that stays enabled is taken (weak fairness).
- `lws_service` returns on its timeout and is called again. A callback event that is pending whenever the thread is inside `lws_service` is therefore dispatched (strong fairness). The outcome of a connect attempt (ESTABLISHED or CONNECTION_ERROR) is one such event.
- `pthread_join` returns once the thread has exited (weak fairness of `DestroyJoin`).
- In the client, the user thread is scheduled once it has begun an operation. The polling loop of `OpenWebSocket` reads the state every 100 ms, so it sees CONNECTED whenever the state is CONNECTED again and again (strong fairness).
- Nothing is assumed of the server or of the network: they may drop the link at any time, and they need not answer. For this reason no property claims that a synchronous call returns. The spec (4.4, 5, 7) documents that a call whose response never comes blocks for ever.
- After a crash no step is enabled, so the fairness conditions ask nothing more.

**Violations found** (these are the `findings` in `PROJECT.json`):
1. **Lost wakeup** (`SynchronousBlockingQueue.cpp:34`). The reply can be offered after `SendAsync` but before `Take` resets the flag. The reset then erases it, and the caller blocks for ever (13 states).
2. **writable\_ survives a close** (`WebSocket.cpp:54`). After `CLOSED` the state is DISCONNECTED, but `writable_` is still true and `handle_` still names the closed wsi. TLC's trace has 9 states: start, connect, ESTABLISHED, a writable callback with an empty queue, a drop, and CLOSED. The session lives throughout. In the last state `SendAsync` would take its direct-write branch onto the closed wsi, so its message would be lost. A `SendSynchronousRequest` gets there only through its unlocked state check (`WebSocketClient.cpp:24`), read just before the close.
3. **Parse of an empty response** (`SynchronousBlockingQueue.cpp:243`). `RegisterWithEvent` while disconnected throws `parse_error` (11 states).
4. **The destructor can hang** (`WebSocket.cpp:100`). The watchdog sets `watchdog_thread_running_` to true when it starts. If `~WebSocket` runs `StopWatchDogThread` first, the start overwrites the stop, the thread loops for ever, and `pthread_join` never returns. `WebSocketClient` escapes this: `OpenWebSocket` waits for CONNECTED, so the watchdog has started before any close. `CloseReturns` holds for that reason, and `OpenConnected_NoWait` breaks it.
5. **One LWS context leaks per reconnect** (`WebSocket.cpp:122`). Each reconnect creates a new context and overwrites `context_`, and only the last one is destroyed at exit (9 states).
6. **A message can reach a NULL handler** (`WebSocketClient.cpp:47`). The `WebSocket` constructor starts the watchdog thread before `OpenWebSocket` calls `SetIncomingMessageHandler`. The thread connects, the server pushes a notification, and the RECEIVE callback calls `Handle` through the NULL `incoming_message_handler_` (8 states, all before the user thread's second statement). Spec 4.3 assumes a registered handler.

**Mutants.** Each property of a passing run is broken by a plausible bug in the code it is about:
- `OnWriteable_NoEmptyCheck` breaks `TypeOK`;
- `OnWriteable_WritesNewest` breaks `FifoDelivery`;
- `WriteMessageToWebSocket_NoWritableRequest` breaks `QueueNeverStalls` and `QueueDrains`;
- `TakeReset_Missing` breaks `ResponseMatchesRequest` and `ImplementsSynchronousCall`: a stale reply is returned to the next call;
- `Handle_NoEventFilter` (the handler offers events too) breaks `ReplyNotOverwritten`: an event replaces the reply of a woken `Take`;
- `OpenConnected_NoWait` (`OpenWebSocket` returns before CONNECTED) breaks `CloseReturns` and `StopNotUndone`;
- `CallReturn_NoWait` (the call returns without waiting for `Take`) breaks `CloseDrainEnds`.

## Proofs

The proofs hold for every payload set and every bound. The session proofs assume `ConstAssumption` (a nonempty payload set, and a natural bound). The client proofs assume `ClientAssumption`: the bounds are natural, at least one call is allowed, and the empty string and an event are neither a request id nor each other, as a JSON-RPC response with an id is neither an empty string nor a notification.

- **`TypeCorrect`: `Spec => []TypeOK`** (`WebSocket_proofs`).
  - `TypeOK` is split into a control part, proved with Zenon, and a sequence part, proved with SMT and the `SequenceTheorems` facts about `Append` and `Tail`.
  - Each part is shown inductive action by action.
- **`OutboundOrder`: `Spec => []FifoDelivery`** (`WebSocket_proofs`).
  - `FifoDelivery` is not inductive by itself. A `SendAsync` that finds `writable_` true writes directly, and that would overtake queued messages.
  - The inductive invariant `IInv` therefore adds `WritableImpliesQueueEmpty`: `writable_` is only set by the writable callback when the queue is empty, and every enqueue happens with `writable_` false.
  - The step proof has one case per action that touches the queue or the logs. The other actions leave both unchanged (lemma `QuietUnchanged`).
  - Two lemmas about concatenation do the sequence work: `AppendConcat` and `HeadTailConcat`.
- **`NeverStalls`: `Spec => []QueueNeverStalls`** (`WebSocketQueue_proofs`).
  - The inductive invariant is `SInv == IInv /\ OpenLinkServed`. `OpenLinkServed` says that an open link is the wsi `handle_` names, with `writable_` set or a writable request pending.
  - It is needed because a queue on an open link is only served if the last write, or ESTABLISHED, asked for a callback. Lemma `WriteRequestsWritable` shows that every `WriteMessageToWebSocket` asks.
- **`Correlation`: `Spec => []ResponseMatchesRequest`** (`WebSocketClient_proofs`). `RpcCorrelation` gives the same for `RpcSpec` (`JsonRpcClient_proofs`).
  - `ResponseMatchesRequest` is not inductive. A call in `wait` could be handed a stale reply if one were still in flight. The invariant must therefore say where the request of the current call is.
  - The inductive invariant `CInv` (in `WebSocketClient.tla`) has three parts:
    - `Pipeline`: outside a call, the session's queue and `to_server` are empty and `to_client` holds only events. During a call, exactly one of these holds: the request `calls` is in the queue, it is at the server, or the reply `calls` is the one non-event message in `to_client`.
    - `Handoff`: in `wait` with the flag set, `element_` is `calls` and the pipeline is empty.
    - `Numbering`: `Len(results)` is `calls`, or `calls - 1` while a call is in progress.
  - The step proof has one case per action. Lemmas `AppendInbound` and `TailInbound` cover the inbound stream: appending an event or the reply, and taking its head.
  - `QuietStep` and `OutsideStep` dispose of the steps that leave the pipeline alone.
  - `RpcStepIsClientStep` shows that every JSON-RPC step is a client step or leaves the client's variables unchanged.
- **`SlotKept`: `Spec => ReplyNotOverwritten`**, and `RpcSlotKept` for `RpcSpec`. In the state `wait` with the flag set, `CInv` leaves only events in `to_client`, and `Handle` does not offer events. So no step changes `element_` (lemma `SlotStep`). This is the "two offers before one take" hazard of spec 4.4. The protocol excludes it, and the proof shows how.
- **`StopSticks`: `Spec => []StopNotUndone`** (`WebSocketClient_proofs`).
  - The inductive invariant `StartInv` adds this: while the watchdog is still at `SetWatchDogThreadStarted`, the state is DISCONNECTED, the user is in `OpenWebSocket` (installing the handler or polling) and the session lives.
  - Nothing can leave `OpenWebSocket` before the watchdog has started and connected. So the destructor's stop is never followed by the start, which is the race that hangs `~WebSocket` in the session alone.
- **`ClientRefinement`: `Spec => ImplementsSynchronousCall`**, and `RpcRefinement` for `RpcSpec`.
  - `CallBegin` maps to `FailFast` or `Issue`, `CallReturn` to `Answer` (`element_ = calls` by `Handoff`), and every other step to a stutter (lemma `CallStepMaps`).
  - It rests on `CInv`.

Every strengthened invariant (`IInv`, `SInv`, `CInv`, `StartInv`) was first checked with TLC as an invariant of the run's specification.

**Only model-checked:**
- the liveness properties (`QueueDrains`, `CloseReturns`, `CloseDrainEnds`). TLAPS cannot reason about fairness and ENABLED, so these stay with TLC.
- the violated properties, which are findings, not theorems.

## Not modelled

- **`string_format` and the JSON text.** They are formatting; the model keeps only the request id.
- **The overflow of the static `id`.** It needs 2^31 calls.
- **Several application threads.** Only one user thread is modelled. Because of that, `CloseWebSocket` deleting `queue_` while another thread waits in `Take` (`WebSocket.cpp:197`) cannot happen in the model.
- **The data race of `~WebSocket`'s unlocked `clear()`.** The model makes it one atomic step.
- **The step between the two statements of `SetIncomingMessageHandler`.** The handler is stored before `SetQueue` hands it the queue. The model installs both at once, because the handler that would use the queue is not in this repository.
- **`lws_cancel_service` on a NULL context.**
- **The CMake build.**

## Plan for later sittings

1. The type invariant of the composed client (`WebSocketClient!TypeOK`), proved through the instance of the session.
2. Several user threads, to reach the delete of `queue_` during `Take` and two concurrent calls sharing one slot.
3. A fault model for the data race of the unlocked `clear()`, as a nondeterministic outcome.
