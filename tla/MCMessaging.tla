----------------------------- MODULE MCMessaging -----------------------------
(***************************************************************************)
(* The UDP server and the chat room behind the TCP server, which share     *)
(* nothing, explored in one run.  A behaviour is one of a single component *)
(* while the other stays as it starts.                                     *)
(***************************************************************************)
EXTENDS UDPServer, Chat, TLC

CONSTANTS p1, p2, p3, a1, a2

VARIABLE on         \* the component this behaviour is of

\* Two packets of one client and one of another.
MCFrom == p1 :> a1 @@ p2 :> a1 @@ p3 :> a2

allVars == <<vars, chatVars, on>>

MCInit == on \in {"udp", "chat"} /\ Init /\ ChatInit

UDPOn == on = "udp" /\ Next /\ UNCHANGED <<chatVars, on>>
ChatOn == on = "chat" /\ ChatNext /\ UNCHANGED <<vars, on>>

MCSpec == MCInit /\ [][UDPOn \/ ChatOn]_allVars /\ Fairness /\ ChatFairness
=============================================================================
