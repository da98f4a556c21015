--------------------------- MODULE SynchronousCall ---------------------------
(***************************************************************************)
(* What the client promises its caller (spec 1, 4.5): synchronous calls,  *)
(* exactly one in flight at a time.  A call made while not connected      *)
(* fails at once with the empty result; any other call is issued and,     *)
(* when it completes, returns the answer to that call and to no other.    *)
(* Call number n is answered by n.  Whether a call completes is not part  *)
(* of this promise (spec 7: no response, the caller blocks for ever).     *)
(***************************************************************************)
EXTENDS Naturals, Sequences

CONSTANTS
    Failed,     \* the empty result of a call that fails fast
    Limit       \* bound on the number of calls

VARIABLES
    count,      \* number of calls begun
    pending,    \* a call has been issued and has not returned
    returned    \* returned[n] is what call n returned

call_vars == <<count, pending, returned>>

CallInit ==
    /\ count = 0
    /\ pending = FALSE
    /\ returned = <<>>

\* A call while not connected returns the empty result without blocking.
FailFast ==
    /\ ~pending
    /\ count < Limit
    /\ count' = count + 1
    /\ returned' = Append(returned, Failed)
    /\ UNCHANGED pending

\* A call while connected sends its request and blocks.
Issue ==
    /\ ~pending
    /\ count < Limit
    /\ count' = count + 1
    /\ pending' = TRUE
    /\ UNCHANGED returned

\* The blocked call returns the answer to its own request.
Answer ==
    /\ pending
    /\ pending' = FALSE
    /\ returned' = Append(returned, count)
    /\ UNCHANGED count

CallNext == FailFast \/ Issue \/ Answer

CallSpec == CallInit /\ [][CallNext]_call_vars
=============================================================================
