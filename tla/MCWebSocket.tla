---------------------------- MODULE MCWebSocket ----------------------------
(* Model-checking instance of WebSocket: two payloads, three SendAsync    *)
(* calls, so that two messages can wait in the queue behind a write.       *)
EXTENDS WebSocket, TLC

CONSTANTS m1, m2

MCMsgs == {m1, m2}

MCSymmetry == Permutations(MCMsgs)
=============================================================================
