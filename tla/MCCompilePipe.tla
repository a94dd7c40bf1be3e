---------------------------- MODULE MCCompilePipe ----------------------------
(***************************************************************************)
(* The sizes are small enough that code and output both have to wait for   *)
(* room in the pipes; the constants are in the .cfg files.                 *)
(***************************************************************************)
EXTENDS CompilePipeProps
=============================================================================
