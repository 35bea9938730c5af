----------------------------- MODULE MCConsole -----------------------------
(***************************************************************************)
(* A small instance of Console: two terminals, and room for one connection *)
(* that waits to be accepted, so that the other client finds the queue     *)
(* full.                                                                   *)
(***************************************************************************)
EXTENDS Console

CONSTANTS a, b
=============================================================================
