---------------------------- MODULE MCPrtgClient ----------------------------
(***************************************************************************)
(* Instances of PrtgClient for TLC; the constants are numbers and strings, *)
(* which the configurations give directly.                                 *)
(***************************************************************************)
EXTENDS PrtgClient
=============================================================================
