----------------------------- MODULE MCProtocol -----------------------------
(***************************************************************************)
(* The sizing loop with the constants of the code.                         *)
(***************************************************************************)
EXTENDS Protocol

MCCapacities == 0 .. 600
=============================================================================
