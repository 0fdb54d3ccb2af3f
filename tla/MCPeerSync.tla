----------------------------- MODULE MCPeerSync -----------------------------
(* TLC instance of PeerSync: three children, in any order of forking,        *)
(* ending, reaping and waiting.                                              *)
EXTENDS PeerSync
=============================================================================
