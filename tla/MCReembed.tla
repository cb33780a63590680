------------------------------ MODULE MCReembed ------------------------------
(***************************************************************************)
(* Small instances of Reembed for TLC.                                     *)
(***************************************************************************)
EXTENDS Reembed

CONSTANTS boot, tool

ToolOnly == {tool}
BootAndTool == {boot, tool}
=============================================================================
