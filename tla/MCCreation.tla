------------------------------ MODULE MCCreation ------------------------------
(***************************************************************************)
(* Three requests, of which two may ask for the same, and two meetings to    *)
(* make by mistake.                                                          *)
(***************************************************************************)
EXTENDS Creation
=============================================================================
