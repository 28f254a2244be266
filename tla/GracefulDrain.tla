--------------------------- MODULE GracefulDrain ---------------------------
(***************************************************************************)
(* What a component with a waiting shutdown promises, whatever its         *)
(* mechanism: work is accepted while it is open, accepted work is finished *)
(* and never dropped, and the shutdown call returns only when nothing that *)
(* was accepted is left.  The event bus (pkg/event/doc.go: Close waits for *)
(* all queued async handlers) and the TCP server implement it.             *)
(***************************************************************************)
EXTENDS FiniteSets

CONSTANT Work        \* identifiers of units of work

VARIABLES
    phase,           \* "open", "draining" or "drained"
    work             \* the units accepted and not yet finished

Init == phase = "open" /\ work = {}

\* New units are accepted, none of the others is lost; not once closing.
Accept ==
    /\ phase = "open"
    /\ work' \in SUBSET Work
    /\ work \subseteq work'
    /\ UNCHANGED phase

Finish(u) ==
    /\ work' = work \ {u}
    /\ UNCHANGED phase

BeginDrain ==
    /\ phase = "open"
    /\ phase' = "draining"
    /\ UNCHANGED work

EndDrain ==
    /\ phase = "draining"
    /\ work = {}
    /\ phase' = "drained"
    /\ UNCHANGED work

Next ==
    \/ Accept
    \/ \E u \in work : Finish(u)
    \/ BeginDrain
    \/ EndDrain

Spec == Init /\ [][Next]_<<phase, work>>
============================================================================
