---------------------------- MODULE MCPrintBridge ----------------------------
(* TLC instance of PrintBridge.                                            *)
EXTENDS PrintBridge, TLC

CONSTANT j1
=============================================================================
