---------------------------- MODULE MCScriptOrder ----------------------------
(***************************************************************************)
(* ScriptOrder on the tables and scripts of MCScriptExec.                  *)
(***************************************************************************)
EXTENDS ScriptOrder, MCScriptExec
=============================================================================
