--------------------------- MODULE CoalescingQueue ---------------------------
(***************************************************************************)
(* What internal/deduplication promises its users: a channel that may      *)
(* merge several copies of a value that wait in it, and never drops the    *)
(* last one.  A value accepted by In() therefore comes out of Out() at     *)
(* least once afterwards.  The channel ends only when it is empty.         *)
(***************************************************************************)
EXTENDS Naturals

CONSTANT Values     \* the strings sent through the channel

VARIABLES
    pending,        \* pending[v]: copies of v accepted and not yet output
    closed,         \* Close() has been called
    ended           \* Out() is closed

queueVars == <<pending, closed, ended>>

Init ==
    /\ pending = [v \in Values |-> 0]
    /\ closed = FALSE
    /\ ended = FALSE

\* A producer's send is accepted.
Accept(v) ==
    /\ ~closed
    /\ pending' = [pending EXCEPT ![v] = @ + 1]
    /\ UNCHANGED <<closed, ended>>

\* Two waiting copies of v are merged: at least one stays.
Merge(v) ==
    /\ pending[v] > 1
    /\ pending' = [pending EXCEPT ![v] = @ - 1]
    /\ UNCHANGED <<closed, ended>>

\* A copy of v is handed to the consumer.
Deliver(v) ==
    /\ pending[v] > 0
    /\ pending' = [pending EXCEPT ![v] = @ - 1]
    /\ UNCHANGED <<closed, ended>>

CloseInput ==
    /\ ~closed
    /\ closed' = TRUE
    /\ UNCHANGED <<pending, ended>>

\* The output ends once the input is closed and nothing waits.
End ==
    /\ closed
    /\ ~ended
    /\ \A v \in Values : pending[v] = 0
    /\ ended' = TRUE
    /\ UNCHANGED <<pending, closed>>

Next ==
    \/ \E v \in Values : Accept(v) \/ Merge(v) \/ Deliver(v)
    \/ CloseInput
    \/ End

Spec == Init /\ [][Next]_queueVars
=============================================================================
