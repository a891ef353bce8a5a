----------------------------- MODULE MCConsole -----------------------------
(***************************************************************************)
(* A console of three columns and two rows that may scroll twice.          *)
(***************************************************************************)
EXTENDS Console
=============================================================================
