---------------------------- MODULE MCPluginConn ----------------------------
(* PluginConn for TLC. *)
EXTENDS PluginConn
=============================================================================
