-------------------------- MODULE MCAppLifecycle ---------------------------
(* AppLifecycle has no parameters: every configuration is an initial state.*)
EXTENDS AppLifecycle
============================================================================
