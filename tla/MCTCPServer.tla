---------------------------- MODULE MCTCPServer ----------------------------
(* Instances of TCPServer for TLC; all parameters are given in the cfgs.   *)
EXTENDS TCPServer
============================================================================
