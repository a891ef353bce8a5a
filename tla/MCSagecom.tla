------------------------------ MODULE MCSagecom ------------------------------
(***************************************************************************)
(* Every kind of character and key, reads of at most two of them.          *)
(***************************************************************************)
EXTENDS Sagecom
=============================================================================
