---------------------------- MODULE MCEventBus -----------------------------
(* Small instances of EventBus for TLC.                                    *)
EXTENDS EventBus

\* filepath.Match on the names and patterns of the instances.
MCMatches == {<<"user.*", "user.created">>, <<"*.created", "user.created">>}

Opt(async, priority) == <<[async |-> async, priority |-> priority]>>

SyncAndAsync == {<<>>, Opt(TRUE, PriorityNormal)}
============================================================================
