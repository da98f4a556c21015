---------------------- MODULE SynchronousBlockingQueue ----------------------
(***************************************************************************)
(* The one-element blocking queue of src/src/SynchronousBlockingQueue.cpp. *)
(* Take is split at the point where it can be interleaved: it resets       *)
(* ready_to_unlock_ WITHOUT holding mutex_, then waits on cv_ until the    *)
(* flag is set and returns element_.  Offer sets element_ and the flag     *)
(* under mutex_ and notifies.  Who calls Take and Offer, and when, is the  *)
(* business of the composing module.                                       *)
(***************************************************************************)
CONSTANTS
    Elements,   \* values that can be offered
    Empty       \* the default-constructed element (the empty string);
                \* the composing module keeps it out of Elements

VARIABLES element, ready_to_unlock

queue_vars == <<element, ready_to_unlock>>

\* The constructor: ready_to_unlock_(false), element_ default-constructed.
QueueInit ==
    /\ element = Empty
    /\ ready_to_unlock = FALSE

\* Offer(e): element_ = e; ready_to_unlock_ = true; notify_one.
Offer(e) ==
    /\ element' = e
    /\ ready_to_unlock' = TRUE

\* Mutant: Take without the reset of the flag.
TakeReset_Missing ==
    UNCHANGED <<element, ready_to_unlock>>

\* First statement of Take: ready_to_unlock_ = false, outside the mutex.
TakeReset ==
    /\ ready_to_unlock' = FALSE
    /\ UNCHANGED element

\* The wait loop of Take can only be left once the flag is set; Take then
\* returns element_.
TakeReady == ready_to_unlock

QueueTypeOK ==
    /\ element \in Elements \cup {Empty}
    /\ ready_to_unlock \in BOOLEAN
=============================================================================
